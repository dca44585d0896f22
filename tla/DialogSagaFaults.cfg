SPECIFICATION FairSpec
CONSTANTS
    Message = {m1, m2}
    Request = {r1, r2}
    SagaFault = {"get", "refuse", "insert", "die", "proxy", "remove", "stop"}
    Overlapping = TRUE
INVARIANTS SagaTypeOK LossNeedsIgnoredStatus DuplicateHasCause
PROPERTIES CallEnds ImplementsLifecycle
CHECK_DEADLOCK FALSE
