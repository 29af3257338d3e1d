SPECIFICATION FairSpec
CONSTANTS
    m1 = m1
    m2 = m2
    Msgs <- TwoMessages
    MaxCommands = 2
    MaxUnwinding = 1
    Behaviours <- Lossless
INVARIANTS
    TypeOK
    KeptOrTold
PROPERTIES
    HeardInSession
CHECK_DEADLOCK FALSE
