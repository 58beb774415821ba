\* Two contexts, with and without serialised calls.
SPECIFICATION Spec
CONSTANTS
    U16_MAX = 7
    U32_MAX = 0
    MaxResources = 2
    MaxOps = 2
    MaxLeases = 2
    MaxNeedsPerOp = 2
    main = main
    isr = isr
    Contexts = {main, isr}
    NoContext = none
    PressureCalls = {3, 4}
    SerialChoices = {TRUE, FALSE}
    ResourceTable <- MCResourceTable
    Profiles <- MCProfiles
    NeedLists <- MCNeedLists
    MayCall <- BothEnter
INVARIANTS LeasesOwnSlots ReservedIsHeld SerialNoOvercommit GrantAdmissible
