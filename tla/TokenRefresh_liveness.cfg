SPECIFICATION FairSpec
CONSTANTS
    pa = pa
    pb = pb
    c1 = c1
    c2 = c2
    d = d
    Procs <- TwoProcs
    Callers <- TwoCallers
    ProcOf <- HomesOfTwo
    MaxTokens = 2
    MaxAtLogin = 2
    MaxFaults = 1
    Faults <- CrashOrGiveUp
    ChecksUsage = TRUE
    StoresBetween = TRUE
PROPERTIES
    CallersReturn
CHECK_DEADLOCK FALSE
