SPECIFICATION FairSpec
CONSTANTS
    main = main
    a1 = a1
    a2 = a2
    b1 = b1
    provider = provider
    Root = main
    Provider = provider
    Agents <- TreeAgents
    Parent <- TreeParent
    Below <- TreeBelow
    Limits <- NarrowLimits
    MaxRequests <- TreeRequests
INVARIANTS
    TypeOK
PROPERTIES
    SlotsSound
    AgentsEnd
CHECK_DEADLOCK FALSE
