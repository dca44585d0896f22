------------------------- MODULE PatroniBootstrapProofs -------------------------
(***************************************************************************)
(* Nodes without data form one cluster, and the data a node came with is   *)
(* kept, for any number of nodes, of faults and of system identifiers.     *)
(***************************************************************************)
EXTENDS PatroniBootstrap, TLAPS

USE PatroniBootstrapAssumption DEF NoKey, Claimed, NoData

-----------------------------------------------------------------------------
(* The inductive invariant.                                                 *)

Id == 1 .. MaxId
Key == {NoKey, Claimed} \cup Id

View == [read : BOOLEAN, initialize : Key, leader : Node \cup {Nobody}]
Action == {"none", "bootstrap", "bootstrap_standby_leader", "post_bootstrap", "clone", "restore"}
Busy == [action : Action, from : Node \cup {Nobody}]

Types ==
    /\ initialize \in Key
    /\ leader \in Node \cup {Nobody}
    /\ sysid \in [Node -> 0 .. MaxId]
    /\ pg \in [Node -> {"down", "replica", "primary"}]
    /\ up \in [Node -> {"up", "down", "exited"}]
    /\ view \in [Node -> View]
    /\ busy \in [Node -> Busy]
    /\ bootstrapping \in [Node -> BOOLEAN]
    /\ response \in [Node -> {"none", "ok", "failed"}]
    /\ cb_called \in [Node -> BOOLEAN]
    /\ own \subseteq Node
    /\ restored \in BOOLEAN
    /\ standby \in BOOLEAN

\* Where a node is: its data come last, and are there for as long as Postgres runs.
Stages ==
    \A n \in Node :
        /\ pg[n] /= "down" => HasData(n)
        /\ view[n].read \/ busy[n] /= NotBusy => up[n] = "up"
        /\ ~(view[n].read /\ busy[n] /= NotBusy)
        /\ busy[n].action \in {"bootstrap", "bootstrap_standby_leader", "clone", "restore"} => ~HasData(n)
        /\ busy[n].action \in {"bootstrap", "bootstrap_standby_leader", "post_bootstrap"} => bootstrapping[n]
        /\ busy[n].action = "clone" => busy[n].from \in Node
        /\ bootstrapping[n] /\ up[n] /= "up" => ~Running(n)
        /\ n \in own => HasData(n) /\ ~bootstrapping[n]

\* Neither data that a node brought nor a backup disputes what the key names.
Fresh == own = {} /\ ~restored

\* Nobody has data while nobody has claimed the key.
Unclaimed ==
    initialize = NoKey => \A n \in Node : ~HasData(n) /\ ~bootstrapping[n]

\* Until the key names a cluster there is no leader, and at most one node has data:
\* the one that has claimed the key.
Alone ==
    ~sysid_valid(initialize) =>
        /\ leader = Nobody
        /\ \A n \in Node : /\ view[n].leader = Nobody
                           /\ ~sysid_valid(view[n].initialize)
                           /\ busy[n].action /= "clone"
                           /\ ~cb_called[n]
                           /\ Running(n) => bootstrapping[n]
        /\ \A m, n \in Node : m /= n => ~((HasData(m) \/ bootstrapping[m]) /\ (HasData(n) \/ bootstrapping[n]))

\* From then on all data are of that cluster.
Agreed ==
    sysid_valid(initialize) => \A n \in Node : ~bootstrapping[n] /\ (HasData(n) => sysid[n] = initialize)

\* What a node with data has read was read after the key had been claimed.
SeenClaimed ==
    \A n \in Node : view[n].read /\ HasData(n) => view[n].initialize /= NoKey

NewCluster == Fresh => Unclaimed /\ Alone /\ Agreed /\ SeenClaimed

IInv == Types /\ Stages /\ NewCluster

LEMMA RecordTypes ==
  /\ NoView \in View /\ NotBusy \in Busy
  /\ \A a \in Action, m \in Node \cup {Nobody} : [action |-> a, from |-> m] \in Busy
  BY DEF NoView, View, Key, NotBusy, Busy, Action

LEMMA InitIInv == Init => IInv
  <1> SUFFICES ASSUME Init
               PROVE  IInv
    OBVIOUS
  <1>1. Types
    <2>1. sysid \in [Node -> 0 .. MaxId] /\ own \subseteq Node
      <3>1. CASE sysid \in [Node -> {NoData, 1}]
        BY <3>1 DEF Init
      <3>2. ASSUME NEW m \in Node, sysid = [n \in Node |-> IF n = m THEN 1 ELSE 2]
            PROVE  sysid \in [Node -> 0 .. MaxId]
        BY <3>2
      <3> QED BY <3>1, <3>2 DEF Init
    <2>2. initialize \in Key /\ leader \in Node \cup {Nobody}
      BY DEF Init, Key
    <2>3. view \in [Node -> View]
      BY RecordTypes DEF Init
    <2> QED BY <2>1, <2>2, <2>3, RecordTypes DEF Init, Types
  <1>2. Stages
    BY DEF Init, Stages, HasData, NoView, NotBusy
  <1>3. NewCluster
    BY DEF Init, NewCluster, Fresh, Unclaimed, Alone, Agreed, SeenClaimed, HasData, Running, NoView, NotBusy,
           sysid_valid
  <1> QED BY <1>1, <1>2, <1>3 DEF IInv

LEMMA LoadKeepsIInv ==
  ASSUME IInv, NEW n \in Node, Load(n)
  PROVE  IInv'
  <1> USE DEF IInv, Load, node, config
  <1>1. Types'
    BY RecordTypes DEF Types, Key, Id, View, Busy, Action
  <1>2. Stages'
    BY DEF Types, Stages, HasData, Running, NoView, NotBusy
  <1>3. ASSUME Fresh'
        PROVE  (Unclaimed /\ Alone /\ Agreed /\ SeenClaimed)'
    <2> USE <1>3 DEF NewCluster, Fresh, Types, HasData, Running, NoView, NotBusy, sysid_valid
    <2>1. Unclaimed'
      BY DEF Unclaimed, Stages
    <2>2. Alone'
      BY DEF Unclaimed, Alone, Stages
    <2>3. Agreed'
      BY DEF Unclaimed, Alone, Agreed, Stages
    <2>4. SeenClaimed'
      BY DEF SeenClaimed, Unclaimed, Stages
    <2> QED BY <2>1, <2>2, <2>3, <2>4
  <1> QED BY <1>1, <1>2, <1>3 DEF NewCluster

LEMMA BootstrapKeepsIInv ==
  ASSUME IInv, NEW n \in Node, bootstrap(n)
  PROVE  IInv'
  <1> USE DEF IInv, bootstrap, Cycle, WriteInitialize, Begin, config
  <1>1. Types'
    <2>1. view' \in [Node -> View]
      BY RecordTypes DEF Types
    <2>2. initialize' \in Key
      BY DEF Types, Key
    <2>3. busy' \in [Node -> Busy]
      BY RecordTypes DEF Types, Action
    <2> QED BY <2>1, <2>2, <2>3 DEF Types
  <1>2. Stages'
    BY DEF Types, Stages, HasData, Running, NoView, NotBusy
  <1>3. ASSUME Fresh'
        PROVE  (Unclaimed /\ Alone /\ Agreed /\ SeenClaimed)'
    <2> USE <1>3 DEF NewCluster, Fresh, Types, HasData, Running, NoView, NotBusy, sysid_valid
    <2>1. Unclaimed'
      BY DEF Unclaimed, Stages
    <2>2. Alone'
      <3>1. CASE initialize = NoKey
        BY <3>1 DEF Unclaimed, Alone, Stages
      <3>2. CASE initialize /= NoKey
        <4>1. UNCHANGED <<initialize, leader, sysid, pg, bootstrapping, cb_called, busy>>
          BY <3>2
        <4>2. view' = [view EXCEPT ![n] = NoView]
          OBVIOUS
        <4> QED BY <4>1, <4>2 DEF Alone
      <3> QED BY <3>1, <3>2
    <2>3. Agreed'
      BY DEF Unclaimed, Alone, Agreed, Stages
    <2>4. SeenClaimed'
      BY DEF SeenClaimed, Unclaimed, Stages
    <2> QED BY <2>1, <2>2, <2>3, <2>4
  <1> QED BY <1>1, <1>2, <1>3 DEF NewCluster

LEMMA BootstrapEndsKeepsIInv ==
  ASSUME IInv, NEW n \in Node, BootstrapEnds(n)
  PROVE  IInv'
  <1> USE DEF IInv, BootstrapEnds, End, initdb, custom_bootstrap, May, config
  <1>1. Types'
    BY RecordTypes DEF Types
  <1>2. Stages'
    BY DEF Types, Stages, HasData, Running, NoView, NotBusy
  <1>3. ASSUME Fresh'
        PROVE  (Unclaimed /\ Alone /\ Agreed /\ SeenClaimed)'
    <2> USE <1>3 DEF NewCluster, Fresh, Types, HasData, Running, NoView, NotBusy, sysid_valid
    <2>1. Unclaimed'
      BY DEF Unclaimed, Stages
    <2>2. Alone'
      BY DEF Unclaimed, Alone, Stages
    <2>3. Agreed'
      BY DEF Unclaimed, Alone, Agreed, Stages
    <2>4. SeenClaimed'
      BY DEF SeenClaimed, Unclaimed, Stages
    <2> QED BY <2>1, <2>2, <2>3, <2>4
  <1> QED BY <1>1, <1>2, <1>3 DEF NewCluster

LEMMA StandbyKeepsIInv ==
  ASSUME IInv, NEW n \in Node, bootstrap_standby_leader(n)
  PROVE  IInv'
  <1> USE DEF IInv, bootstrap_standby_leader, End, Remote, May, config
  <1>1. Types'
    <2>1. MaxId \in 0 .. MaxId
      OBVIOUS
    <2>2. sysid' \in [Node -> 0 .. MaxId]
      BY <2>1 DEF Types
    <2>3. busy' \in [Node -> Busy]
      BY RecordTypes DEF Types
    <2> QED BY <2>2, <2>3 DEF Types
  <1>2. Stages'
    BY DEF Types, Stages, HasData, Running, NoView, NotBusy
  <1>3. ASSUME Fresh'
        PROVE  (Unclaimed /\ Alone /\ Agreed /\ SeenClaimed)'
    <2> USE <1>3 DEF NewCluster, Fresh, Types, HasData, Running, NoView, NotBusy, sysid_valid
    <2>1. Unclaimed'
      BY DEF Unclaimed, Stages
    <2>2. Alone'
      BY DEF Unclaimed, Alone, Stages
    <2>3. Agreed'
      BY DEF Unclaimed, Alone, Agreed, Stages
    <2>4. SeenClaimed'
      BY DEF SeenClaimed, Unclaimed, Stages
    <2> QED BY <2>1, <2>2, <2>3, <2>4
  <1> QED BY <1>1, <1>2, <1>3 DEF NewCluster

LEMMA PostBootstrapEndsKeepsIInv ==
  ASSUME IInv, NEW n \in Node, PostBootstrapEnds(n)
  PROVE  IInv'
  <1> USE DEF IInv, PostBootstrapEnds, End, call_post_bootstrap, config
  <1>1. Types'
    BY RecordTypes DEF Types, Key, Id, View, Busy, Action
  <1>2. Stages'
    BY DEF Types, Stages, HasData, Running, NoView, NotBusy
  <1>3. ASSUME Fresh'
        PROVE  (Unclaimed /\ Alone /\ Agreed /\ SeenClaimed)'
    <2> USE <1>3 DEF NewCluster, Fresh, Types, HasData, Running, NoView, NotBusy, sysid_valid
    <2>1. Unclaimed'
      BY DEF Unclaimed, Stages
    <2>2. Alone'
      BY DEF Unclaimed, Alone, Stages
    <2>3. Agreed'
      BY DEF Unclaimed, Alone, Agreed, Stages
    <2>4. SeenClaimed'
      BY DEF SeenClaimed, Unclaimed, Stages
    <2> QED BY <2>1, <2>2, <2>3, <2>4
  <1> QED BY <1>1, <1>2, <1>3 DEF NewCluster

LEMMA CloneKeepsIInv ==
  ASSUME IInv, NEW n \in Node, clone(n)
  PROVE  IInv'
  <1> USE DEF IInv, clone, Cycle, Begin, config
  <1>1. Types'
    BY RecordTypes DEF Types, Key, Id, View, Busy, Action
  <1>2. Stages'
    BY DEF Types, Stages, HasData, Running, NoView, NotBusy
  <1>3. ASSUME Fresh'
        PROVE  (Unclaimed /\ Alone /\ Agreed /\ SeenClaimed)'
    <2> USE <1>3 DEF NewCluster, Fresh, Types, HasData, Running, NoView, NotBusy, sysid_valid
    <2>1. Unclaimed'
      BY DEF Unclaimed, Stages
    <2>2. Alone'
      BY DEF Unclaimed, Alone, Stages, Unlocked
    <2>3. Agreed'
      BY DEF Unclaimed, Alone, Agreed, Stages
    <2>4. SeenClaimed'
      BY DEF SeenClaimed, Unclaimed, Stages
    <2> QED BY <2>1, <2>2, <2>3, <2>4
  <1> QED BY <1>1, <1>2, <1>3 DEF NewCluster

LEMMA CloneEndsKeepsIInv ==
  ASSUME IInv, NEW n \in Node, CloneEnds(n)
  PROVE  IInv'
  <1> USE DEF IInv
  <1>a. PICK m \in Node :
          /\ busy[n].action = "clone" /\ ~HasData(n)
          /\ UNCHANGED <<initialize, leader, up, view, own, bootstrapping, response, restored, standby>>
          /\ busy' = [busy EXCEPT ![n] = NotBusy]
          /\ \/ /\ Running(m) /\ sysid' = [sysid EXCEPT ![n] = sysid[m]]
                /\ \/ pg' = [pg EXCEPT ![n] = "replica"] /\ cb_called' = [cb_called EXCEPT ![n] = TRUE]
                   \/ UNCHANGED <<pg, cb_called>>
             \/ UNCHANGED <<sysid, pg, cb_called>>
    BY DEF CloneEnds, Copied, End, Stages, config
  <1> USE <1>a
  <1>1. Types'
    <2>1. busy' \in [Node -> Busy]
      BY RecordTypes DEF Types
    <2> QED BY <2>1 DEF Types
  <1>2. Stages'
    BY DEF Types, Stages, HasData, Running, NoView, NotBusy
  <1>3. ASSUME Fresh'
        PROVE  (Unclaimed /\ Alone /\ Agreed /\ SeenClaimed)'
    <2> USE <1>3 DEF NewCluster, Fresh, Types, HasData, Running, NoView, NotBusy, sysid_valid
    <2>1. Unclaimed'
      BY DEF Unclaimed, Stages
    <2>2. Alone'
      BY DEF Unclaimed, Alone, Stages
    <2>3. Agreed'
      BY DEF Unclaimed, Alone, Agreed, Stages
    <2>4. SeenClaimed'
      BY DEF SeenClaimed, Unclaimed, Stages
    <2> QED BY <2>1, <2>2, <2>3, <2>4
  <1> QED BY <1>1, <1>2, <1>3 DEF NewCluster

LEMMA RestoreKeepsIInv ==
  ASSUME IInv, NEW n \in Node, restore(n)
  PROVE  IInv'
  <1> USE DEF IInv, restore, Cycle, Begin, config
  <1>1. Types'
    BY RecordTypes DEF Types, Key, Id, View, Busy, Action
  <1>2. Stages'
    BY DEF Types, Stages, HasData, Running, NoView, NotBusy
  <1>3. ASSUME Fresh'
        PROVE  (Unclaimed /\ Alone /\ Agreed /\ SeenClaimed)'
    <2> USE <1>3 DEF NewCluster, Fresh, Types, HasData, Running, NoView, NotBusy, sysid_valid
    <2>1. Unclaimed'
      BY DEF Unclaimed, Stages
    <2>2. Alone'
      BY DEF Unclaimed, Alone, Stages
    <2>3. Agreed'
      BY DEF Unclaimed, Alone, Agreed, Stages
    <2>4. SeenClaimed'
      BY DEF SeenClaimed, Unclaimed, Stages
    <2> QED BY <2>1, <2>2, <2>3, <2>4
  <1> QED BY <1>1, <1>2, <1>3 DEF NewCluster

\* A backup that is not of the cluster of the key is remembered in `restored`.
LEMMA RestoreEndsKeepsIInv ==
  ASSUME IInv, NEW n \in Node, RestoreEnds(n)
  PROVE  IInv'
  <1> USE DEF IInv
  <1>a. PICK id \in Id :
          /\ busy[n].action = "restore" /\ ~HasData(n)
          /\ UNCHANGED <<initialize, leader, up, view, own, bootstrapping, response, standby>>
          /\ busy' = [busy EXCEPT ![n] = NotBusy]
          /\ \/ /\ sysid' = [sysid EXCEPT ![n] = id]
                /\ restored' \in BOOLEAN /\ (~restored' => ~restored /\ id = initialize)
                /\ \/ pg' = [pg EXCEPT ![n] = "replica"] /\ cb_called' = [cb_called EXCEPT ![n] = TRUE]
                   \/ UNCHANGED <<pg, cb_called>>
             \/ UNCHANGED <<sysid, pg, cb_called, restored>>
    <2>1. Remote \in Id
      BY DEF Remote, Id
    <2>2. busy[n].action = "restore" /\ ~HasData(n)
      BY DEF RestoreEnds, End, Stages
    <2>3. restored \in BOOLEAN
      BY DEF Types
    <2> QED BY <2>1, <2>2, <2>3, Zenon DEF RestoreEnds, Copied, End, config, Id
  <1> USE <1>a
  <1>1. Types'
    <2>1. busy' \in [Node -> Busy]
      BY RecordTypes DEF Types
    <2>2. sysid' \in [Node -> 0 .. MaxId]
      BY DEF Types, Id
    <2> QED BY <2>1, <2>2 DEF Types
  <1>2. Stages'
    BY DEF Types, Stages, HasData, Running, NoView, NotBusy, Id
  <1>3. ASSUME Fresh'
        PROVE  (Unclaimed /\ Alone /\ Agreed /\ SeenClaimed)'
    <2> USE <1>3 DEF NewCluster, Fresh, Types, HasData, Running, NoView, NotBusy, sysid_valid, Id
    <2>1. Unclaimed'
      BY DEF Unclaimed, Stages
    <2>2. Alone'
      BY DEF Unclaimed, Alone, Stages
    <2>3. Agreed'
      BY DEF Unclaimed, Alone, Agreed, Stages
    <2>4. SeenClaimed'
      BY DEF SeenClaimed, Unclaimed, Stages
    <2> QED BY <2>1, <2>2, <2>3, <2>4
  <1> QED BY <1>1, <1>2, <1>3 DEF NewCluster

LEMMA WaitKeepsIInv ==
  ASSUME IInv, NEW n \in Node, Wait(n)
  PROVE  IInv'
  <1> USE DEF IInv, Wait, Cycle, node, config
  <1>1. Types'
    BY RecordTypes DEF Types, Key, Id, View, Busy, Action
  <1>2. Stages'
    BY DEF Types, Stages, HasData, Running, NoView, NotBusy
  <1>3. ASSUME Fresh'
        PROVE  (Unclaimed /\ Alone /\ Agreed /\ SeenClaimed)'
    <2> USE <1>3 DEF NewCluster, Fresh, Types, HasData, Running, NoView, NotBusy, sysid_valid
    <2>1. Unclaimed'
      BY DEF Unclaimed, Stages
    <2>2. Alone'
      BY DEF Unclaimed, Alone, Stages
    <2>3. Agreed'
      BY DEF Unclaimed, Alone, Agreed, Stages
    <2>4. SeenClaimed'
      BY DEF SeenClaimed, Unclaimed, Stages
    <2> QED BY <2>1, <2>2, <2>3, <2>4
  <1> QED BY <1>1, <1>2, <1>3 DEF NewCluster

LEMMA MismatchKeepsIInv ==
  ASSUME IInv, NEW n \in Node, Mismatch(n)
  PROVE  IInv'
  <1> USE DEF IInv, Mismatch, Cycle, Exit, config
  <1>1. Types'
    BY RecordTypes DEF Types, Key, Id, View, Busy, Action
  <1>2. Stages'
    BY DEF Types, Stages, HasData, Running, NoView, NotBusy
  <1>3. ASSUME Fresh'
        PROVE  (Unclaimed /\ Alone /\ Agreed /\ SeenClaimed)'
    <2> USE <1>3 DEF NewCluster, Fresh, Types, HasData, Running, NoView, NotBusy, sysid_valid
    <2>1. Unclaimed'
      BY DEF Unclaimed, Stages
    <2>2. Alone'
      BY DEF Unclaimed, Alone, Stages
    <2>3. Agreed'
      BY DEF Unclaimed, Alone, Agreed, Stages
    <2>4. SeenClaimed'
      BY DEF SeenClaimed, Unclaimed, Stages
    <2> QED BY <2>1, <2>2, <2>3, <2>4
  <1> QED BY <1>1, <1>2, <1>3 DEF NewCluster

LEMMA AbortJoinKeepsIInv ==
  ASSUME IInv, NEW n \in Node, AbortJoin(n)
  PROVE  IInv'
  <1> USE DEF IInv, AbortJoin, Cycle, node, config
  <1>1. Types'
    BY RecordTypes DEF Types, Key, Id, View, Busy, Action
  <1>2. Stages'
    BY DEF Types, Stages, HasData, Running, NoView, NotBusy
  <1>3. ASSUME Fresh'
        PROVE  (Unclaimed /\ Alone /\ Agreed /\ SeenClaimed)'
    <2> USE <1>3 DEF NewCluster, Fresh, Types, HasData, Running, NoView, NotBusy, sysid_valid
    <2>1. Unclaimed'
      BY DEF Unclaimed, Stages
    <2>2. Alone'
      BY DEF Unclaimed, Alone, Stages
    <2>3. Agreed'
      BY DEF Unclaimed, Alone, Agreed, Stages
    <2>4. SeenClaimed'
      BY DEF SeenClaimed, Unclaimed, Stages
    <2> QED BY <2>1, <2>2, <2>3, <2>4
  <1> QED BY <1>1, <1>2, <1>3 DEF NewCluster

LEMMA JoinKeepsIInv ==
  ASSUME IInv, NEW n \in Node, Join(n)
  PROVE  IInv'
  <1> USE DEF IInv, Join, Cycle, Initializes, WriteInitialize, config
  <1>1. Types'
    <2>1. view' \in [Node -> View]
      BY RecordTypes DEF Types
    <2>2. initialize' \in Key
      BY DEF Types, Key, Id, HasData
    <2>3. pg' \in [Node -> {"down", "replica", "primary"}] /\ leader' \in Node \cup {Nobody}
      BY DEF Types
    <2>4. cb_called' \in [Node -> BOOLEAN]
      BY DEF Types, Running
    <2> QED BY <2>1, <2>2, <2>3, <2>4 DEF Types
  <1>2. Stages'
    BY DEF Types, Stages, HasData, Running, NoView, NotBusy
  <1>3. ASSUME Fresh'
        PROVE  (Unclaimed /\ Alone /\ Agreed /\ SeenClaimed)'
    <2> USE <1>3 DEF NewCluster, Fresh, Types, HasData, Running, NoView, NotBusy, sysid_valid
    <2>1. Unclaimed'
      BY DEF Unclaimed, Stages
    <2>2. Alone'
      <3>1. sysid_valid(initialize)'
        <4>1. CASE sysid_valid(initialize)
          <5>1. sysid[n] = initialize
            BY <4>1 DEF Agreed
          <5> QED BY <4>1, <5>1
        <4>2. CASE ~sysid_valid(initialize)
          <5>1. Adopts(n)
            BY <4>2 DEF Alone, Adopts, Unlocked
          <5>2. view[n].initialize /= NoKey /\ initialize /= NoKey
            BY DEF SeenClaimed, Unclaimed
          <5>3. initialize' = sysid[n]
            BY <5>1, <5>2
          <5> QED BY <5>3
        <4> QED BY <4>1, <4>2
      <3> QED BY <3>1 DEF Alone
    <2>3. Agreed'
      BY DEF Unclaimed, Alone, Agreed, Stages
    <2>4. SeenClaimed'
      BY DEF SeenClaimed, Unclaimed, Stages
    <2> QED BY <2>1, <2>2, <2>3, <2>4
  <1> QED BY <1>1, <1>2, <1>3 DEF NewCluster

LEMMA CrashKeepsIInv ==
  ASSUME IInv, NEW n \in Node, Crash(n)
  PROVE  IInv'
  <1> USE DEF IInv, Crash, initdb, config
  <1>1. Types'
    BY RecordTypes DEF Types, Key, Id, View, Busy, Action
  <1>2. Stages'
    BY DEF Types, Stages, HasData, Running, NoView, NotBusy
  <1>3. ASSUME Fresh'
        PROVE  (Unclaimed /\ Alone /\ Agreed /\ SeenClaimed)'
    <2> USE <1>3 DEF NewCluster, Fresh, Types, HasData, Running, NoView, NotBusy, sysid_valid
    <2>1. Unclaimed'
      BY DEF Unclaimed, Stages
    <2>2. Alone'
      BY DEF Unclaimed, Alone, Stages
    <2>3. Agreed'
      BY DEF Unclaimed, Alone, Agreed, Stages
    <2>4. SeenClaimed'
      BY DEF SeenClaimed, Unclaimed, Stages
    <2> QED BY <2>1, <2>2, <2>3, <2>4
  <1> QED BY <1>1, <1>2, <1>3 DEF NewCluster

LEMMA RestartKeepsIInv ==
  ASSUME IInv, NEW n \in Node, Restart(n)
  PROVE  IInv'
  <1> USE DEF IInv, Restart, config
  <1>1. Types'
    BY RecordTypes DEF Types, Key, Id, View, Busy, Action
  <1>2. Stages'
    BY DEF Types, Stages, HasData, Running, NoView, NotBusy
  <1>3. ASSUME Fresh'
        PROVE  (Unclaimed /\ Alone /\ Agreed /\ SeenClaimed)'
    <2> USE <1>3 DEF NewCluster, Fresh, Types, HasData, Running, NoView, NotBusy, sysid_valid
    <2>1. Unclaimed'
      BY DEF Unclaimed, Stages
    <2>2. Alone'
      BY DEF Unclaimed, Alone, Stages
    <2>3. Agreed'
      BY DEF Unclaimed, Alone, Agreed, Stages
    <2>4. SeenClaimed'
      BY DEF SeenClaimed, Unclaimed, Stages
    <2> QED BY <2>1, <2>2, <2>3, <2>4
  <1> QED BY <1>1, <1>2, <1>3 DEF NewCluster

\* The node that bootstraps gives up what it has claimed.
LEMMA CancelKeepsIInv ==
  ASSUME IInv, NEW n \in Node, Cycle(n), bootstrapping[n], cancel_initialization(n)
  PROVE  IInv'
  <1> USE DEF IInv, Cycle, cancel_initialization, Exit, config
  <1>1. Types'
    <2>1. view' \in [Node -> View] /\ leader' \in Node \cup {Nobody}
      BY RecordTypes DEF Types
    <2> QED BY <2>1 DEF Types, Key
  <1>2. Stages'
    BY DEF Types, Stages, HasData, Running, NoView, NotBusy
  <1>3. ASSUME Fresh'
        PROVE  (Unclaimed /\ Alone /\ Agreed /\ SeenClaimed)'
    <2> USE <1>3 DEF NewCluster, Fresh, Types, HasData, Running, NoView, sysid_valid
    <2>1. ~sysid_valid(initialize) /\ \A m \in Node \ {n} : ~HasData(m) /\ ~bootstrapping[m]
      BY DEF Alone, Agreed
    <2>2. Unclaimed'
      BY <2>1 DEF Unclaimed
    <2>3. Alone'
      BY <2>1 DEF Alone
    <2>4. Agreed' /\ SeenClaimed'
      BY <2>1 DEF Agreed, SeenClaimed
    <2> QED BY <2>2, <2>3, <2>4
  <1> QED BY <1>1, <1>2, <1>3 DEF NewCluster

LEMMA StartPostBootstrapKeepsIInv ==
  ASSUME IInv, NEW n \in Node, Cycle(n), bootstrapping[n], StartPostBootstrap(n)
  PROVE  IInv'
  <1> USE DEF IInv, Cycle, StartPostBootstrap, Begin, config
  <1>1. Types'
    <2>1. view' \in [Node -> View] /\ busy' \in [Node -> Busy]
      BY RecordTypes DEF Types, Action
    <2> QED BY <2>1 DEF Types
  <1>2. Stages'
    BY DEF Types, Stages, HasData, Running, NoView, NotBusy
  <1>3. ASSUME Fresh'
        PROVE  (Unclaimed /\ Alone /\ Agreed /\ SeenClaimed)'
    <2> USE <1>3 DEF NewCluster, Fresh, Types, HasData, Running, NoView, sysid_valid
    <2>1. Unclaimed' /\ Agreed' /\ SeenClaimed'
      BY DEF Unclaimed, Agreed, SeenClaimed
    <2>2. Alone'
      BY DEF Alone
    <2> QED BY <2>1, <2>2
  <1> QED BY <1>1, <1>2, <1>3 DEF NewCluster

\* The node that bootstraps is the only one with data, and what it has read of the
\* key it had claimed itself.
LEMMA InitializeClusterKeepsIInv ==
  ASSUME IInv, NEW n \in Node, Cycle(n), bootstrapping[n], InitializeCluster(n)
  PROVE  IInv'
  <1> USE DEF IInv, Cycle, InitializeCluster, WriteInitialize, config
  <1>1. Types'
    <2>1. view' \in [Node -> View]
      BY RecordTypes DEF Types
    <2>2. initialize' \in Key
      BY DEF Types, Key, Id, Stages, HasData, Running
    <2> QED BY <2>1, <2>2 DEF Types
  <1>2. Stages'
    BY DEF Types, Stages, HasData, Running, NoView, NotBusy
  <1>3. ASSUME Fresh'
        PROVE  (Unclaimed /\ Alone /\ Agreed /\ SeenClaimed)'
    <2> USE <1>3 DEF NewCluster, Fresh, Types, HasData, Running, NoView, sysid_valid
    <2>1. /\ HasData(n) /\ ~sysid_valid(initialize)
          /\ \A m \in Node \ {n} : ~HasData(m) /\ ~bootstrapping[m]
      BY DEF Stages, Alone, Agreed
    <2>2. view[n].initialize /= NoKey /\ initialize /= NoKey
      BY <2>1 DEF SeenClaimed, Unclaimed
    <2>3. initialize' = sysid[n] /\ sysid_valid(initialize)'
      BY <2>1, <2>2
    <2>4. Unclaimed' /\ Alone'
      BY <2>3 DEF Unclaimed, Alone
    <2>5. Agreed' /\ SeenClaimed'
      BY <2>1, <2>3 DEF Agreed, SeenClaimed
    <2> QED BY <2>4, <2>5
  <1> QED BY <1>1, <1>2, <1>3 DEF NewCluster

LEMMA PostBootstrapKeepsIInv ==
  ASSUME IInv, NEW n \in Node, post_bootstrap(n)
  PROVE  IInv'
  BY CancelKeepsIInv, StartPostBootstrapKeepsIInv, InitializeClusterKeepsIInv DEF post_bootstrap

LEMMA ExpireKeepsIInv ==
  ASSUME IInv, Expire
  PROVE  IInv'
  <1> USE DEF IInv, Expire, node, config
  <1>1. Types'
    BY DEF Types
  <1>2. Stages'
    BY DEF Stages, HasData, Running
  <1>3. NewCluster'
    BY DEF NewCluster, Fresh, Unclaimed, Alone, Agreed, SeenClaimed, HasData, Running, sysid_valid
  <1> QED BY <1>1, <1>2, <1>3

LEMMA StutterKeepsIInv ==
  ASSUME IInv, UNCHANGED vars
  PROVE  IInv'
  BY DEF vars, node, IInv, Types, Stages, NewCluster, Unclaimed, Alone, Agreed, SeenClaimed,
         Fresh, config, HasData, Running, sysid_valid

LEMMA NextIInv ==
  ASSUME IInv, [Next]_vars
  PROVE  IInv'
  BY LoadKeepsIInv, BootstrapKeepsIInv, BootstrapEndsKeepsIInv, StandbyKeepsIInv,
     PostBootstrapKeepsIInv, PostBootstrapEndsKeepsIInv, CloneKeepsIInv, CloneEndsKeepsIInv,
     RestoreKeepsIInv, RestoreEndsKeepsIInv, WaitKeepsIInv, MismatchKeepsIInv, AbortJoinKeepsIInv, JoinKeepsIInv, CrashKeepsIInv,
     RestartKeepsIInv, ExpireKeepsIInv, StutterKeepsIInv DEF Next, NodeStep

\* In a standby cluster all data are the remote cluster's.
RemoteData ==
    standby => own = {} /\ \A n \in Node : /\ HasData(n) => sysid[n] = Remote
                                          /\ busy[n].action /= "bootstrap"

LEMMA NextRemoteData ==
  ASSUME IInv, RemoteData, [Next]_vars
  PROVE  RemoteData'
  <1> SUFFICES ASSUME standby'
               PROVE  own' = {} /\ \A n \in Node : /\ HasData(n)' => sysid'[n] = Remote
                                                   /\ busy'[n].action /= "bootstrap"
    BY DEF RemoteData
  <1> USE DEF IInv, Types, HasData, NotBusy, config, node
  <1>1. ASSUME NEW m \in Node, Load(m) \/ Wait(m)
        PROVE  RemoteData'
    BY <1>1 DEF RemoteData, Load, Wait, Cycle
  <1>2. ASSUME NEW m \in Node, clone(m) \/ restore(m)
        PROVE  RemoteData'
    <2>1. /\ UNCHANGED <<standby, own, sysid>>
          /\ \E k \in Node \cup {Nobody}, a \in {"clone", "restore"} :
                busy' = [busy EXCEPT ![m] = [action |-> a, from |-> k]]
      BY <1>2 DEF clone, restore, Cycle, Begin
    <2> QED BY <2>1 DEF RemoteData
  <1>3. ASSUME NEW m \in Node, bootstrap(m)
        PROVE  RemoteData'
    <2>1. /\ UNCHANGED <<standby, own, sysid>>
          /\ \/ busy' = [busy EXCEPT ![m] = [action |-> "bootstrap_standby_leader", from |-> Nobody]]
             \/ busy' = busy
      BY <1>3 DEF bootstrap, Cycle, Begin
    <2> QED BY <2>1 DEF RemoteData
  <1>4. ASSUME NEW m \in Node, Mismatch(m) \/ AbortJoin(m) \/ Join(m) \/ Restart(m)
        PROVE  RemoteData'
    BY <1>4 DEF RemoteData, Mismatch, AbortJoin, Join, Restart, Cycle
  <1>5. ASSUME NEW m \in Node, bootstrap_standby_leader(m) \/ PostBootstrapEnds(m)
        PROVE  RemoteData'
    <2>1. /\ UNCHANGED <<standby, own>>
          /\ busy' = [busy EXCEPT ![m] = NotBusy]
          /\ sysid' = [sysid EXCEPT ![m] = Remote] \/ sysid' = sysid
      BY <1>5 DEF bootstrap_standby_leader, PostBootstrapEnds, End
    <2> QED BY <2>1 DEF RemoteData
  <1>6. ASSUME NEW m \in Node, BootstrapEnds(m)
        PROVE  FALSE
    BY <1>6 DEF RemoteData, BootstrapEnds, End
  <1>7. ASSUME NEW m \in Node, CloneEnds(m)
        PROVE  RemoteData'
    BY <1>7 DEF RemoteData, CloneEnds, Copied, End, Running, Stages
  <1>8. ASSUME NEW m \in Node, RestoreEnds(m)
        PROVE  RemoteData'
    BY <1>8 DEF RemoteData, RestoreEnds, Copied, End
  <1>9. ASSUME NEW m \in Node, post_bootstrap(m)
        PROVE  RemoteData'
    BY <1>9 DEF RemoteData, post_bootstrap, cancel_initialization, StartPostBootstrap, InitializeCluster,
                Cycle, Begin
  <1>10. ASSUME NEW m \in Node, Crash(m)
        PROVE  RemoteData'
    BY <1>10 DEF RemoteData, Crash, initdb
  <1>11. CASE Expire \/ UNCHANGED vars
    BY <1>11 DEF RemoteData, Expire, vars
  <1> QED
    BY <1>1, <1>2, <1>3, <1>4, <1>5, <1>6, <1>7, <1>8, <1>9, <1>10, <1>11 DEF Next, NodeStep, RemoteData

LEMMA IInvSafe == IInv /\ RemoteData => TypeOK /\ OneCluster
  <1> SUFFICES ASSUME IInv, RemoteData
               PROVE  TypeOK /\ OneCluster
    OBVIOUS
  <1>1. TypeOK
    BY DEF IInv, Types, Stages, TypeOK, Key, Id
  <1>2. OneCluster
    <2> SUFFICES ASSUME own = {}, restored => standby, NEW m \in Node, NEW n \in Node, Running(m), Running(n)
                 PROVE  sysid[m] = sysid[n]
      BY DEF OneCluster
    <2>1. HasData(m) /\ HasData(n)
      BY DEF IInv, Stages, Running
    <2>2. CASE standby
      BY <2>1, <2>2 DEF RemoteData
    <2>3. CASE ~standby /\ sysid_valid(initialize)
      BY <2>1, <2>3 DEF IInv, NewCluster, Fresh, Agreed
    <2>4. CASE ~standby /\ ~sysid_valid(initialize)
      BY <2>1, <2>4 DEF IInv, NewCluster, Fresh, Alone
    <2> QED BY <2>2, <2>3, <2>4
  <1> QED BY <1>1, <1>2

-----------------------------------------------------------------------------
(* Steps.                                                                   *)

\* Once the key names a cluster, nobody bootstraps and whoever writes the key
\* writes what it is.
LEMMA StepKeepsInitialize ==
  ASSUME IInv, [Next]_vars
  PROVE  KeepsInitialize
  <1> SUFFICES ASSUME Fresh, sysid_valid(initialize)
               PROVE  initialize' = initialize
    BY DEF KeepsInitialize, Fresh
  <1>1. \A n \in Node : ~bootstrapping[n] /\ (HasData(n) => sysid[n] = initialize)
    BY DEF IInv, NewCluster, Agreed
  <1>2. ASSUME NEW n \in Node, bootstrap(n) \/ Join(n)
        PROVE  initialize' = initialize
    BY <1>1, <1>2 DEF bootstrap, Join, Initializes, WriteInitialize, sysid_valid
  <1>3. ASSUME NEW n \in Node, post_bootstrap(n)
        PROVE  FALSE
    BY <1>1, <1>3 DEF post_bootstrap
  <1>4. ASSUME NEW n \in Node, NodeStep(n) \/ Crash(n), ~bootstrap(n), ~Join(n), ~post_bootstrap(n)
        PROVE  initialize' = initialize
    BY <1>4 DEF NodeStep, Load, BootstrapEnds, bootstrap_standby_leader, PostBootstrapEnds, clone,
                CloneEnds, restore, RestoreEnds, Wait, Mismatch, AbortJoin, Restart, Crash
  <1>5. CASE Expire \/ UNCHANGED vars
    BY <1>5 DEF Expire, vars
  <1> QED BY <1>2, <1>3, <1>4, <1>5 DEF Next, NodeStep

\* Only a node without data, or one that bootstraps, has its data replaced.
LEMMA StepKeepsOwnData ==
  ASSUME IInv, [Next]_vars
  PROVE  KeepsOwnData
  <1> SUFFICES ASSUME NEW n \in own, HasData(n)
               PROVE  sysid'[n] = sysid[n]
    BY DEF KeepsOwnData
  <1>1. /\ n \in Node /\ ~bootstrapping[n]
        /\ busy[n].action \notin {"bootstrap", "bootstrap_standby_leader", "clone", "restore"}
    BY DEF IInv, Types, Stages
  <1>2. ASSUME NEW m \in Node,
               \/ BootstrapEnds(m) \/ bootstrap_standby_leader(m) \/ CloneEnds(m) \/ RestoreEnds(m) \/ Crash(m)
        PROVE  sysid'[n] = sysid[n]
    BY <1>1, <1>2 DEF BootstrapEnds, bootstrap_standby_leader, CloneEnds, RestoreEnds, Copied, Crash, End, initdb,
                      custom_bootstrap, IInv, Types
  <1>3. ASSUME NEW m \in Node, post_bootstrap(m)
        PROVE  sysid'[n] = sysid[n]
    BY <1>1, <1>3 DEF post_bootstrap, cancel_initialization, StartPostBootstrap, InitializeCluster, IInv, Types
  <1>4. ASSUME NEW m \in Node,
               \/ Load(m) \/ bootstrap(m) \/ PostBootstrapEnds(m) \/ clone(m) \/ restore(m) \/ Wait(m)
               \/ Mismatch(m) \/ AbortJoin(m) \/ Join(m) \/ Restart(m)
        PROVE  sysid'[n] = sysid[n]
    BY <1>4 DEF Load, bootstrap, PostBootstrapEnds, clone, restore, Wait, Mismatch, AbortJoin, Join, Restart, node
  <1>5. CASE Expire \/ UNCHANGED vars
    BY <1>5 DEF Expire, vars, node
  <1> QED BY <1>2, <1>3, <1>4, <1>5 DEF Next, NodeStep

-----------------------------------------------------------------------------
(* The theorems.                                                            *)

THEOREM IInvInvariant == Spec => [](IInv /\ RemoteData)
  <1>1. Init => RemoteData
    BY DEF Init, RemoteData, HasData, NotBusy
  <1> QED BY <1>1, InitIInv, NextIInv, NextRemoteData, PTL DEF Spec

\* Nodes that come without data form one cluster whose identifier stays, and the
\* data of the others are kept (bootstrap, post_bootstrap, cancel_initialization,
\* clone and the checks of _run_cycle), whatever fails or crashes.
THEOREM BootstrapIsSafe == Spec => BootstrapSafe
  <1>1. IInv /\ [Next]_vars => [KeepsInitialize]_vars /\ [KeepsOwnData]_vars
    BY StepKeepsInitialize, StepKeepsOwnData
  <1>2. Spec => [](TypeOK /\ OneCluster)
    BY IInvInvariant, IInvSafe, PTL
  <1>3. Spec => [][KeepsInitialize]_vars /\ [][KeepsOwnData]_vars
    BY IInvInvariant, <1>1, PTL DEF Spec
  <1> QED BY <1>2, <1>3 DEF BootstrapSafe, InitializeStable, OwnDataKept
================================================================================
