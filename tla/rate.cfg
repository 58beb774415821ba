\* Two windows of one resource, one of another, over a clock that wraps.
SPECIFICATION Spec
CONSTANTS
    U32_MAX = 4
    Q = 2
    Resources = {0, 1}
    Windows = {1, 2}
    Duration <- MCDuration
    Ops = {"log", "flash", "dump"}
    NeedList <- MCNeedList
    Bypass = {"dump"}
    RateCalls <- MCRateCalls
    LifetimeCalls <- MCLifetimeCalls
    Impls = {"fixed", "bucket"}
INVARIANTS TypeOK WithinLimit CommitHasRoom BurstBound
PROPERTIES LifetimeHolds RateRecovers
