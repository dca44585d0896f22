SPECIFICATION FairSpec
CONSTANTS
    alice = alice  c1 = c1  c2 = c2
    User = {alice}
    Conn = {c1, c2}
    UserOf <- Owner
    Slow = TRUE
    MaxEvents = 1
INVARIANT DeliverySafe
PROPERTIES Served Cleaned
CHECK_DEADLOCK FALSE
