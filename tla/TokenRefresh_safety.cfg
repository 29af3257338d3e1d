SPECIFICATION Spec
CONSTANTS
    pa = pa
    pb = pb
    c1 = c1
    c2 = c2
    d = d
    Procs <- TwoProcs
    Callers <- ThreeCallers
    ProcOf <- HomesOfThree
    MaxTokens = 2
    MaxAtLogin = 3
    MaxFaults = 1
    Faults <- AllFaults
    ChecksUsage = FALSE
    StoresBetween = FALSE
SYMMETRY Alike
INVARIANTS
    TypeOK
PROPERTIES
    GrantKept
    NoLiveGrantDisabled
    RowForward
CHECK_DEADLOCK FALSE
