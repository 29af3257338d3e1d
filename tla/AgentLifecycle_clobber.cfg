SPECIFICATION Spec
CONSTANTS
    a1 = a1
    a2 = a2
    s1 = s1
    s2 = s2
    c1 = c1
    k1 = k1
    mgr = mgr
    None = None
    Refs = {a1, a2}
    Sessions = {s1, s2}
    Callers = {c1}
    Releasers = {k1, mgr}
    Teardown = mgr
    Behaviours = {"restore", "cancel"}
PROPERTIES
    AdoptionNotClobbered
CHECK_DEADLOCK FALSE
