SPECIFICATION Spec
CONSTANTS
    e1 = e1
    e2 = e2
    x1 = x1
    x2 = x2
    t1 = t1
    t2 = t2
    r1 = r1
    r2 = r2
    b1 = b1
    v1 = v1
    c1 = c1
    None = None
    Appends <- OneEntry
    Foreign <- OneForeign
    Titles <- OneTitle
    Rewrites <- OneTitle
    Batches <- OneBatch
    Recovers <- NoCalls
    Closes <- NoCalls
    MaxRecoveries = 1
    Behaviours = {"between"}
INVARIANTS
    CompletedIsOnDisk
CHECK_DEADLOCK FALSE
