SPECIFICATION Spec
CONSTANTS
    j1 = j1
    x1 = x1
    Jobs <- OneJob
    Exits <- OneExit
    MaxEpoch = 1
    MaxUnwinding = 2
    Behaviours <- MainBehaviours
INVARIANTS
    TypeOK
    NoOrphanReceipt
    NoLostWakeup
    SeenOnce
PROPERTIES
    StaysInConversation
    ImplementsLedger
    DeliveriesSettle
CHECK_DEADLOCK FALSE
