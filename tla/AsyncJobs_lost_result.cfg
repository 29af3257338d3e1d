SPECIFICATION Spec
CONSTANTS
    r1 = r1
    r2 = r2
    w1 = w1
    o1 = o1
    Runs = {r1, r2}
    Owners = {o1}
    Waiters = {w1}
    Anna = Anna
    Names = {Anna}
    bg = bg
    AutoPrefix = bg
    NoOwner = NoOwner
    Cap = 2
    MaxId = 2
SYMMETRY RunSymmetry
INVARIANTS
    NoResultLost
CHECK_DEADLOCK FALSE
