SPECIFICATION FairSpec
CONSTANTS
    a1 = a1
    s1 = s1
    s2 = s2
    c1 = c1
    c2 = c2
    k1 = k1
    mgr = mgr
    Refs = {a1}
    Sessions = {s1, s2}
    Callers = {c1, c2}
    Releasers = {k1, mgr}
    Teardown = mgr
    Behaviours = {"cancel", "oneShot", "lateFailure", "close"}
    None = None
PROPERTIES
    AsyncWorkEnds
CHECK_DEADLOCK FALSE
