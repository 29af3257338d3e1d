SPECIFICATION Spec
CONSTANTS
    a1 = a1
    a2 = a2
    s1 = s1
    s2 = s2
    c1 = c1
    c2 = c2
    k1 = k1
    k2 = k2
    mgr = mgr
    Refs = {a1, a2}
    Sessions = {s1, s2}
    Callers = {c1, c2}
    Releasers = {k1, k2, mgr}
    Teardown = mgr
    Behaviours = {"cancel", "oneShot", "lateFailure", "close", "restore", "respawn"}
    None = None
SYMMETRY ObjectSymmetry
INVARIANTS
    TypeOK
    OneWriter
    NothingForgotten
PROPERTIES
    HandOutAttached
    KilledStaysDead
    StaleWorkHarmless
CHECK_DEADLOCK FALSE
