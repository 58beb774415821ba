\* Both contexts pass check and phase A before either enters the section.
SPECIFICATION Spec
CONSTANTS
    U16_MAX = 7
    U32_MAX = 0
    MaxResources = 2
    MaxOps = 2
    MaxLeases = 2
    MaxNeedsPerOp = 2
    main = main
    isr = isr
    Contexts = {main, isr}
    NoContext = none
    PressureCalls = {0, 4}
    SerialChoices = {FALSE}
    ResourceTable <- MCResourceTable
    Profiles <- MCProfiles
    NeedLists <- MCNeedLists
    MayCall <- BothEnter
INVARIANT NoOvercommit
