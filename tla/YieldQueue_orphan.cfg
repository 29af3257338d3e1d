SPECIFICATION Spec
CONSTANTS
    j1 = j1
    x1 = x1
    Jobs <- OneJob
    Exits <- NoExits
    MaxEpoch = 0
    MaxUnwinding = 1
    Behaviours = {"followUpFails"}
INVARIANTS
    NoOrphanReceipt
CHECK_DEADLOCK FALSE
