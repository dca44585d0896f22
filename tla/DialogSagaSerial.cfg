SPECIFICATION FairSpec
CONSTANTS
    Message = {m1, m2, m3}
    Request = {r1, r2}
    SagaFault = {"get"}
    Overlapping = FALSE
INVARIANTS NothingLost OkMeansRead
PROPERTIES MarkedIsRead
CHECK_DEADLOCK FALSE
