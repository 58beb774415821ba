\* Two instances, two contexts, every adapter.
SPECIFICATION Spec
CONSTANTS
    U16_MAX = 1
    MaxResources = 1
    MaxOps = 1
    MaxLeases = 1
    MaxNeedsPerOp = 1
    Budgets = {"b1", "b2"}
    NoHook = "none"
    Contexts = {main, monitor}
    Main = main
    Monitor = monitor
    AttachCalls <- MCAttachCalls
    Levels = {30, 85}
    HealthCalls <- MCHealthCalls
    PressureCalls = {2, 4}
INVARIANTS DecisionsReachSink PressureSettled
CONSTRAINT OneHalf
