\* Callers that release once and configure while nothing is outstanding.
SPECIFICATION Spec
CONSTANTS
    U16_MAX = 3
    U32_MAX = 0
    MaxResources = 2
    MaxOps = 2
    MaxLeases = 2
    MaxNeedsPerOp = 2
    Callers = {a, b, c}
    MagicBases = {1}
    CallerMayReplay = FALSE
    CallerMayReconfigure = FALSE
    PressureCalls = {0, 2, 4}
    HalConfigs <- OneHalConfig
    HalStates <- OneHalState
    ResourceCalls <- MCResourceCalls
    ProfileCalls <- MCProfileCalls
    NeedCalls <- MCNeedCalls
SYMMETRY CallerSymmetry
INVARIANTS NeedsDistinct PhaseAAgrees ReservedIsHeld HeldLeasesOwnSlots DoubleLeaveDetected
    LeaseAdmitted WaitIsHonest
PROPERTIES ImplementsPool ConsumedStays
