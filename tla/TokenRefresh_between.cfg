SPECIFICATION Spec
CONSTANTS
    pa = pa
    pb = pb
    c1 = c1
    c2 = c2
    d = d
    Procs <- TwoProcs
    Callers <- ThreeCallers
    ProcOf <- HomesOfThree
    MaxTokens = 3
    MaxAtLogin = 3
    MaxFaults = 0
    Faults <- NoFaults
    ChecksUsage = FALSE
    StoresBetween = TRUE
PROPERTIES
    RowForward
CHECK_DEADLOCK FALSE
