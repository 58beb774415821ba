\* A lease that was released before is passed to leave.
SPECIFICATION Spec
CONSTANTS
    U16_MAX = 3
    U32_MAX = 0
    MaxResources = 2
    MaxOps = 2
    MaxLeases = 2
    MaxNeedsPerOp = 2
    Callers = {a, b}
    MagicBases = {1}
    CallerMayReplay = FALSE
    CallerMayReconfigure = FALSE
    PressureCalls = {0, 2, 4}
    HalConfigs <- OneHalConfig
    HalStates <- OneHalState
    ResourceCalls <- MCResourceCalls
    ProfileCalls <- MCProfileCalls
    NeedCalls <- MCNeedCalls
INVARIANT StaleLeaseRejected
