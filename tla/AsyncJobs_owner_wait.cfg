SPECIFICATION Spec
CONSTANTS
    r1 = r1
    r2 = r2
    r3 = r3
    o1 = o1
    Runs = {r1, r2, r3}
    Owners = {o1}
    Waiters = {}
    Anna = Anna
    Names = {Anna}
    bg = bg
    AutoPrefix = bg
    NoOwner = NoOwner
    Cap = 3
    MaxId = 3
SYMMETRY RunSymmetry
ACTION_CONSTRAINT PromptResume
PROPERTIES
    OwnerWaitSound
CHECK_DEADLOCK FALSE
