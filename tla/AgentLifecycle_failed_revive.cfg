SPECIFICATION Spec
CONSTANTS
    a1 = a1
    s1 = s1
    c1 = c1
    k1 = k1
    mgr = mgr
    None = None
    Refs = {a1}
    Sessions = {s1}
    Callers = {c1}
    Releasers = {k1, mgr}
    Teardown = mgr
    Behaviours = {"lateFailure", "restore"}
PROPERTIES
    FailedReviveLeavesParked
CHECK_DEADLOCK FALSE
