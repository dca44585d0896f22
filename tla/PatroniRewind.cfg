CONSTANTS
    n1 = n1
    n2 = n2
    n3 = n3
    Node = {n1, n2, n3}
    Allowed <- Configurations
    First = n1
    Nobody = Nobody
    MaxWal = 3
    MaxFaults = 2
SPECIFICATION FairSpec
PROPERTIES RewindSafe DivergedHeals
CHECK_DEADLOCK FALSE
