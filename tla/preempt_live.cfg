\* Two contexts and one slot: the call that finds it taken must return too, and
\* so must the leave of a lease that is not there.
SPECIFICATION FairSpec
CONSTANTS
    U16_MAX = 7
    U32_MAX = 0
    MaxResources = 2
    MaxOps = 2
    MaxLeases = 1
    MaxNeedsPerOp = 2
    main = main
    isr = isr
    Contexts = {main, isr}
    NoContext = none
    PressureCalls = {4}
    SerialChoices = {FALSE}
    ResourceTable <- MCResourceTable
    Profiles <- MCProfiles
    NeedLists <- MCNeedLists
    MayCall <- LiveCalls
INVARIANT TypeOK
PROPERTY CallsReturn
