SPECIFICATION Spec
CONSTANTS
    h1 = h1
    h2 = h2
    closer = closer
    Requests <- TwoRequests
    Closer = closer
    MaxLaunch = 2
    MaxDowns = 1
    Behaviours <- LateStart
SYMMETRY RequestSymmetry
INVARIANTS
    ProcessTracked
CHECK_DEADLOCK FALSE
