\* Four operations, two contexts that share the bitmap.
SPECIFICATION Spec
CONSTANTS
    U16_MAX = 9
    MaxResources = 2
    MaxOps = 4
    MaxLeases = 1
    MaxNeedsPerOp = 2
    StackSize = 4
    MaxEdges = 4
    MaxDepth = 2
    ResourceTable <- MCResourceTable
    NeedLists <- MCNeedLists
    NoOp = none
    main = main
    isr = isr
    Contexts = {main, isr}
    Configurator = main
    TriggerCalls <- MCTriggerCalls
    CheckCalls <- MCCheckCalls
INVARIANTS TypeOK AcyclicUnlessTainted CascadeCounted CascadeDecides
PROPERTY WalksEnd
