\* No ring, one place, rings that wrap several times, and a size that is refused.
SPECIFICATION Spec
CONSTANTS
    Decisions = {d1, d2, d3}
    ZeroRecord = zero
    AuditSizes = {0, 1, 2, 3, 4}
    MaxRecords = {0, 1, 3, 5}
SYMMETRY DecisionSymmetry
INVARIANT TypeOK
PROPERTY ImplementsLog
