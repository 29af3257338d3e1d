SPECIFICATION Spec
CONSTANTS
    j1 = j1
    x1 = x1
    Jobs <- NoJobs
    Exits <- OneExit
    MaxEpoch = 1
    MaxUnwinding = 1
    Behaviours = {"clear"}
PROPERTIES
    ExitsSettle
CHECK_DEADLOCK FALSE
