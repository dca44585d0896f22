SPECIFICATION SagaSpec
CONSTANTS
    Message = {m1, m2}
    Request = {r1, r2}
    SagaFault = {}
    Overlapping = TRUE
SYMMETRY Symmetry
PROPERTY RemovedOnlyWhenSaved
CHECK_DEADLOCK FALSE
