SPECIFICATION FairSpec
CONSTANTS
    Node = {n1, n2, n3}
    MaxRequests = 1
    First = n1
    Lagging = {n3}
    MaxDisturbances = 3
INVARIANTS SwitchoverSafe
PROPERTIES RequestEnds ParallelEnds
CHECK_DEADLOCK FALSE
