SPECIFICATION Spec
CONSTANTS
    MaxItems <- ThreeItems
    MaxLimit <- TwoWorkers
    MaxWaits <- OneWait
INVARIANTS
    BatchesConsumed
CHECK_DEADLOCK FALSE
