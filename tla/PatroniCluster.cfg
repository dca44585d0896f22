CONSTANTS
    Unset = Unset  n1 = n1  na = na  nb = nb  ma = ma  mb = mb  s1 = s1  s2 = s2  s3 = s3  s4 = s4
    Node = {n1, na, nb}  Commit = {1}  Strict = FALSE  Watchdog = FALSE  MaxTimeline = 2  MaxFaults = 1
    Backend = {na, nb}  MaxOsFaults = 2
    MaxEvents = 4
    Key = {"leader"}  Leader = "leader"  KvBackend = {"etcd3", "kubernetes"}  Nil = Nil
    MaxRevision = 3  MaxWatchFaults = 1
    Member = {ma, mb}  MaxNow = 2  MaxFailures = 1
SPECIFICATION ClusterSpec
INVARIANTS SyncSafe SlotsSafe WatchSafe ClientSafe CallbacksSafe PostmasterSafe
PROPERTY ConfigSafe
SYMMETRY Symmetry
CHECK_DEADLOCK FALSE
