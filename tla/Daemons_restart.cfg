SPECIFICATION Spec
CONSTANTS
    h1 = h1
    h2 = h2
    closer = closer
    Requests <- TwoRequests
    Closer = closer
    MaxLaunch = 3
    MaxDowns = 1
    \* or StartRace: a restart beside a start
    Behaviours <- RestartRace
SYMMETRY RequestSymmetry
INVARIANTS
    ProcessTracked
CHECK_DEADLOCK FALSE
