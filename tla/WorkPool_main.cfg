SPECIFICATION FairSpec
CONSTANTS
    MaxItems <- ThreeItems
    MaxLimit <- TwoWorkers
    MaxWaits <- OneWait
INVARIANTS
    TypeOK
    WorkPlaced
PROPERTIES
    WorkEnds
CHECK_DEADLOCK FALSE
