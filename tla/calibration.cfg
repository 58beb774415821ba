\* Sessions of up to nine samples; the positions overflow at the eighth.
SPECIFICATION Spec
CONSTANTS
    U16_MAX = 15
    Q = 16
    PosMax = 8
    P50 = 8
    P95 = 14
    P99 = 15
    BaselineAt = 6
    RamMargin = 2
    TimeMargin = 3
    MaxSamples = 9
    Ops = {0}
    Targets = {0, 5}
    Samples <- MCSamples
INVARIANTS TypeOK PositionsDistinct HeightsOrdered SuggestionAdmitsObserved
