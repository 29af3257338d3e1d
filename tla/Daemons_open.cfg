SPECIFICATION Spec
CONSTANTS
    h1 = h1
    h2 = h2
    closer = closer
    Requests <- TwoRequests
    Closer = closer
    MaxLaunch = 2
    MaxDowns = 1
    Behaviours <- SlowOpen
SYMMETRY RequestSymmetry
PROPERTIES
    StaysStopped
CHECK_DEADLOCK FALSE
