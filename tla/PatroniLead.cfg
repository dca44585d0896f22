CONSTANTS
    n1 = n1  n2 = n2  Nobody = Nobody
    Node = {n1, n2}
    MaxId = 2
    MaxFaults = 2
SPECIFICATION LeadSpec
PROPERTIES SplitBrainEnds BootstrapSafe BootstrapLives
CHECK_DEADLOCK FALSE
