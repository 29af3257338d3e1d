SPECIFICATION Spec
CONSTANTS
    m1 = m1
    m2 = m2
    Msgs <- TwoMessages
    MaxCommands = 2
    MaxUnwinding = 1
    Behaviours <- Rollback
INVARIANTS
    NoneStranded
CHECK_DEADLOCK FALSE
