SPECIFICATION FairSpec
CONSTANTS
    Node = {n1, n2}
    Backend = {"etcd", "etcd3", "consul", "zookeeper", "raft", "kubernetes"}
    MaxFaults = 2
INVARIANTS DcsSafe
PROPERTIES NoTheft LockServed
