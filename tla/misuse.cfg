\* One caller that releases leases again and reconfigures under them, over
\* strict, partly configured and lax HALs whose answers change.
SPECIFICATION Spec
CONSTANTS
    U16_MAX = 4
    U32_MAX = 1
    MaxResources = 2
    MaxOps = 2
    MaxLeases = 2
    MaxNeedsPerOp = 2
    Callers = {a}
    MagicBases = {1}
    CallerMayReplay = TRUE
    CallerMayReconfigure = TRUE
    PressureCalls = {4}
    HalConfigs <- HalChoices
    HalStates <- TwoHalStates
    ResourceCalls <- AlteredResourceCalls
    ProfileCalls <- MCProfileCalls
    NeedCalls <- AlteredNeedCalls
INVARIANTS TypeOK NoOvercommit WatermarkBounds StrictHalResolved FailClosed
    CountersBalance
