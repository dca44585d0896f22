SPECIFICATION FairSpec
CONSTANTS
    Thread = {t1, t2}
    MaxEvents = 2
INVARIANTS NodeSafe
PROPERTY UnlockedPrimaryEnds
