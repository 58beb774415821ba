\* Seven operations registered at boot by one context.
SPECIFICATION BootSpec
CONSTANTS
    U16_MAX = 9
    MaxResources = 2
    MaxOps = 7
    MaxLeases = 1
    MaxNeedsPerOp = 2
    StackSize = 7
    MaxEdges = 13
    MaxDepth = 2
    ResourceTable <- MCResourceTable
    NeedLists <- MCNeedLists
    NoOp = none
    main = main
    isr = isr
    Contexts = {main}
    Configurator = main
    TriggerCalls <- BootCalls
    CheckCalls <- NoChecks
INVARIANT Acyclic
