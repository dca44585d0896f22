---------------------------- MODULE PatroniBootstrap ----------------------------
(***************************************************************************)
(* How a cluster comes to exist: the race for the /initialize key, initdb  *)
(* and what follows it, the copies the other nodes make, the backups that  *)
(* are restored without a leader, and the nodes that come with a data      *)
(* directory of their own.                                                 *)
(*                                                                         *)
(* A cycle reads the key store once (Load) and decides on what it has      *)
(* read; its long actions end later.  The race for the leader key is in    *)
(* PatroniHa: here any running node of an unlocked cluster may win it.     *)
(***************************************************************************)
EXTENDS Integers

CONSTANTS
    Node,
    MaxId,          \* bounds: system identifiers,
    MaxFaults,      \* crashes, keys lost, actions that fail
    Nobody

\* Assumed of the constants.
ASSUME PatroniBootstrapAssumption ==
    {MaxId, MaxFaults} \subseteq Nat /\ MaxId > 1 /\ Nobody \notin Node

VARIABLES
    initialize,     \* the /initialize key: NoKey, Claimed ("") or a system identifier
    leader,         \* the leader key
    standby,        \* a standby cluster copies a remote one
    nofailover,     \* the nodes that may not become primary
    configured,     \* those with a 'bootstrap' section
    backups,        \* those with a method to create a replica without a leader
    sysid,          \* the system identifier of a data directory, NoData without one
    pg,             \* "down", "replica", "primary"
    up,             \* the Patroni process: "up", "down" or "exited"
    view,           \* what the cycle has read
    busy,           \* the long action
    bootstrapping,  \* state_handler.bootstrapping
    response,       \* _async_response: "none", "ok", "failed"
    cb_called,      \* on_start was called: the node has been in the cluster
    own,            \* the nodes that came with a data directory
    restored,       \* a backup was restored that /initialize does not name
    abandoned,      \* a machine has stopped during its bootstrap
    faults

node == <<sysid, pg, busy, bootstrapping, response, cb_called>>
config == <<standby, nofailover, configured, backups>>
vars == <<initialize, leader, config, node, up, view, own, restored, abandoned, faults>>

NoKey == -1
Claimed == 0
NoData == 0
Remote == MaxId             \* the system identifier of the cluster a standby cluster follows
NoView == [read |-> FALSE, initialize |-> NoKey, leader |-> Nobody]
NotBusy == [action |-> "none", from |-> Nobody]

\* Postgres may run before Patroni does; only one of a cluster is its primary.
Init ==
    /\ initialize = NoKey /\ leader = Nobody
    /\ standby \in BOOLEAN
    /\ nofailover \in SUBSET Node /\ configured \in SUBSET Node /\ backups \in SUBSET Node
    /\ sysid \in [Node -> {NoData, 1}] \cup {[n \in Node |-> IF n = m THEN 1 ELSE 2] : m \in Node}
    /\ own = {n \in Node : sysid[n] /= NoData}
    /\ standby => own = {}
    /\ pg \in [Node -> {"down", "replica", "primary"}]
    /\ \A n \in Node : pg[n] /= "down" => n \in own
    /\ \A m, n \in own : m /= n /\ pg[m] = "primary" /\ pg[n] = "primary" => sysid[m] /= sysid[n]
    /\ up = [n \in Node |-> "up"]
    /\ view = [n \in Node |-> NoView]
    /\ busy = [n \in Node |-> NotBusy]
    /\ bootstrapping = [n \in Node |-> FALSE]
    /\ response = [n \in Node |-> "none"]
    /\ cb_called = [n \in Node |-> FALSE]
    /\ restored = FALSE /\ abandoned = FALSE
    /\ faults = 0

HasData(n) == sysid[n] /= NoData
Running(n) == pg[n] /= "down"
sysid_valid(id) == id > 0
May(f) == faults' = faults + f /\ faults + f <= MaxFaults

Load(n) ==
    /\ up[n] = "up" /\ busy[n] = NotBusy /\ ~view[n].read
    /\ view' = [view EXCEPT ![n] = [read |-> TRUE, initialize |-> initialize, leader |-> leader]]
    /\ UNCHANGED <<initialize, leader, config, node, up, own, restored, abandoned, faults>>

\* The rest of a cycle, on what it has read.
Cycle(n) ==
    /\ up[n] = "up" /\ view[n].read
    /\ view' = [view EXCEPT ![n] = NoView]
    /\ UNCHANGED <<config, own, restored, abandoned>>
Unlocked(n) == view[n].leader = Nobody

Begin(n, action, m) == busy' = [busy EXCEPT ![n] = [action |-> action, from |-> m]]
End(n, action) ==
    /\ up[n] = "up" /\ busy[n].action = action
    /\ busy' = [busy EXCEPT ![n] = NotBusy]
    /\ UNCHANGED <<leader, config, up, view, own, abandoned>>

\* dcs.initialize: the key must not be there, or must be there.
WriteInitialize(create_new, id) ==
    initialize' = IF create_new = (initialize = NoKey) THEN id ELSE initialize

\* The process ends: its shutdown stops Postgres and deletes its leader key.
Exit(n) ==
    /\ up' = [up EXCEPT ![n] = "exited"]
    /\ pg' = [pg EXCEPT ![n] = "down"]
    /\ leader' = IF leader = n THEN Nobody ELSE leader

-----------------------------------------------------------------------------
(* A new cluster.                                                           *)

\* Who may race, and when.
Races(n) ==
    /\ Unlocked(n) /\ view[n].initialize = NoKey
    /\ n \notin nofailover /\ n \in configured

\* Variant: nobody looks at who has won.
NoRace(n) ==
    /\ Cycle(n) /\ ~bootstrapping[n] /\ ~HasData(n)
    /\ Races(n)
    /\ WriteInitialize(TRUE, Claimed)
    /\ bootstrapping' = [bootstrapping EXCEPT ![n] = TRUE]
    /\ response' = [response EXCEPT ![n] = "none"]
    /\ Begin(n, "bootstrap", Nobody)
    /\ UNCHANGED <<leader, sysid, pg, cb_called, up, faults>>

\* bootstrap(): the race.  Whoever loses waits for the winner.
bootstrap(n) ==
    /\ Cycle(n) /\ ~bootstrapping[n] /\ ~HasData(n)
    /\ Races(n)
    /\ WriteInitialize(TRUE, Claimed)
    /\ IF initialize = NoKey
       THEN /\ bootstrapping' = [bootstrapping EXCEPT ![n] = TRUE]
            /\ response' = [response EXCEPT ![n] = "none"]
            /\ Begin(n, IF standby THEN "bootstrap_standby_leader" ELSE "bootstrap", Nobody)
       ELSE UNCHANGED <<bootstrapping, response, busy>>
    /\ UNCHANGED <<leader, sysid, pg, cb_called, up, faults>>

\* initdb draws a new system identifier.
initdb(n) == \E id \in 1 .. MaxId :
    /\ \A m \in Node \ {n} : sysid[m] < id
    /\ sysid' = [sysid EXCEPT ![n] = id]

\* A custom method may restore any cluster.
custom_bootstrap(n) == \E id \in 1 .. MaxId : sysid' = [sysid EXCEPT ![n] = id]

\* Either, and the first start; each step may fail.
BootstrapEnds(n) ==
    /\ End(n, "bootstrap") /\ (initdb(n) \/ custom_bootstrap(n))
    /\ \/ May(0) /\ pg' = [pg EXCEPT ![n] = "primary"]
       \/ May(1) /\ pg' = pg
    /\ UNCHANGED <<initialize, cb_called, restored, bootstrapping, response>>

\* A copy of the remote primary stands in for initdb and for post_bootstrap.
bootstrap_standby_leader(n) ==
    /\ End(n, "bootstrap_standby_leader")
    /\ \/ May(0) /\ sysid' = [sysid EXCEPT ![n] = Remote] /\ pg' = [pg EXCEPT ![n] = "replica"]
          /\ response' = [response EXCEPT ![n] = "ok"]
       \/ May(1) /\ response' = [response EXCEPT ![n] = "failed"] /\ UNCHANGED <<sysid, pg>>
    /\ UNCHANGED <<initialize, cb_called, restored, bootstrapping>>

\* Variant: the key stays.
CancelKeepsKey(n) ==
    /\ sysid' = [sysid EXCEPT ![n] = NoData]
    /\ bootstrapping' = [bootstrapping EXCEPT ![n] = FALSE]
    /\ Exit(n)
    /\ UNCHANGED <<initialize, busy, response, cb_called>>

\* The key is removed whoever wrote it, the data directory is moved away and
\* the process ends.
cancel_initialization(n) ==
    /\ initialize' = NoKey
    /\ sysid' = [sysid EXCEPT ![n] = NoData]
    /\ bootstrapping' = [bootstrapping EXCEPT ![n] = FALSE]
    /\ Exit(n)
    /\ UNCHANGED <<busy, response, cb_called>>

\* The script and the roles are still to be made.
StartPostBootstrap(n) ==
    /\ Running(n) /\ response[n] = "none"
    /\ Begin(n, "post_bootstrap", Nobody) /\ May(0)
    /\ UNCHANGED <<initialize, leader, sysid, pg, up, bootstrapping, response, cb_called>>

\* take_leader asks nobody, and nobody looks at what initialize() answers.
InitializeCluster(n) ==
    /\ Running(n) /\ response[n] = "ok" /\ May(0)
    /\ WriteInitialize(view[n].initialize = NoKey, sysid[n])
    /\ leader' = n
    /\ bootstrapping' = [bootstrapping EXCEPT ![n] = FALSE]
    /\ cb_called' = [cb_called EXCEPT ![n] = TRUE]
    /\ UNCHANGED <<sysid, pg, up, busy, response>>

\* Postgres does not run, the script has failed, or the watchdog cannot be
\* activated in the end.
post_bootstrap(n) ==
    /\ Cycle(n) /\ bootstrapping[n]
    /\ \/ (~Running(n) \/ response[n] = "failed") /\ May(0) /\ cancel_initialization(n)
       \/ Running(n) /\ response[n] = "ok" /\ May(1) /\ cancel_initialization(n)
       \/ StartPostBootstrap(n)
       \/ InitializeCluster(n)

\* The script answers first; a role that cannot be made takes the answer back.
call_post_bootstrap(n, answer) == response' = [response EXCEPT ![n] = answer]

PostBootstrapEnds(n) ==
    /\ End(n, "post_bootstrap")
    /\ \/ May(0) /\ call_post_bootstrap(n, "ok")
       \/ May(1) /\ call_post_bootstrap(n, "failed")
    /\ UNCHANGED <<initialize, sysid, pg, cb_called, restored, bootstrapping>>

-----------------------------------------------------------------------------
(* The others.                                                              *)

\* A copy of the leader or of a replica that allows it.
clone(n) ==
    /\ Cycle(n) /\ ~bootstrapping[n] /\ ~HasData(n)
    /\ ~Unlocked(n) /\ view[n].leader /= n
    /\ \E m \in Node \ {n} : Begin(n, "clone", m)
    /\ UNCHANGED <<initialize, leader, sysid, pg, bootstrapping, response, cb_called, up, faults>>

\* Postgres is started on a copy, as a replica; the start may fail.
Copied(n, id) ==
    /\ sysid' = [sysid EXCEPT ![n] = id]
    /\ \/ May(0) /\ pg' = [pg EXCEPT ![n] = "replica"] /\ cb_called' = [cb_called EXCEPT ![n] = TRUE]
       \/ May(1) /\ UNCHANGED <<pg, cb_called>>

\* What is left of a copy that failed is removed.
CloneEnds(n) ==
    /\ End(n, "clone")
    /\ LET m == busy[n].from
       IN \/ Running(m) /\ Copied(n, sysid[m])
          \/ May(IF Running(m) THEN 1 ELSE 0) /\ UNCHANGED <<sysid, pg, cb_called>>
    /\ UNCHANGED <<initialize, restored, bootstrapping, response>>

\* "bootstrap (without leader)", unless somebody else bootstraps.
Restores(n) ==
    /\ Unlocked(n) /\ ~Races(n)
    /\ n \in backups /\ view[n].initialize /= Claimed

restore(n) ==
    /\ Cycle(n) /\ ~bootstrapping[n] /\ ~HasData(n)
    /\ Restores(n)
    /\ Begin(n, "restore", Nobody)
    /\ UNCHANGED <<initialize, leader, sysid, pg, bootstrapping, response, cb_called, up, faults>>

\* Nothing says which cluster the backup is of; a standby cluster takes the remote one.
RestoreEnds(n) ==
    /\ End(n, "restore")
    /\ \/ \E id \in IF standby THEN {Remote} ELSE 1 .. MaxId :
             Copied(n, id) /\ restored' = (restored \/ id /= initialize)
       \/ May(1) /\ UNCHANGED <<sysid, pg, cb_called, restored>>
    /\ UNCHANGED <<initialize, bootstrapping, response>>

\* Nothing to copy, nothing to bootstrap; a leader without data gives up its key.
Wait(n) ==
    /\ Cycle(n) /\ ~bootstrapping[n] /\ ~HasData(n)
    /\ \/ Unlocked(n) /\ ~Races(n) /\ ~Restores(n) /\ leader' = leader
       \/ view[n].leader = n /\ leader' = IF leader = n THEN Nobody ELSE leader
    /\ UNCHANGED <<initialize, node, up, faults>>

\* A cycle of a node whose data directory belongs to another cluster.
Foreign(n) == sysid_valid(view[n].initialize) /\ view[n].initialize /= sysid[n]

Mismatch(n) ==
    /\ Cycle(n) /\ ~bootstrapping[n] /\ HasData(n) /\ Foreign(n)
    /\ Exit(n)
    /\ UNCHANGED <<initialize, sysid, busy, bootstrapping, response, cb_called, faults>>

\* No key yet, and a data directory is there at the first start.
Adopts(n) == ~sysid_valid(view[n].initialize) /\ Unlocked(n) /\ ~cb_called[n]

\* "Please first start Patroni on the node running as primary": Postgres goes on.
AbortJoin(n) ==
    /\ Cycle(n) /\ ~bootstrapping[n] /\ HasData(n)
    /\ Adopts(n) /\ pg[n] = "replica"
    /\ up' = [up EXCEPT ![n] = "exited"]
    /\ UNCHANGED <<initialize, leader, node, faults>>

\* The leader writes a key that is missing; so does the first that brings data.
Initializes(n) ==
    IF Adopts(n) \/ (view[n].leader = n /\ ~sysid_valid(view[n].initialize))
    THEN WriteInitialize(view[n].initialize = NoKey, sysid[n])
    ELSE UNCHANGED initialize

\* A node that may not fail over takes the key only if it runs as primary already.
Candidate(n) == Running(n) /\ (n \in nofailover => pg[n] = "primary")

\* The rest of the cycle: a leader runs as primary, another node starts as a
\* replica and may win the race.
Join(n) ==
    /\ Cycle(n) /\ ~bootstrapping[n] /\ HasData(n) /\ ~Foreign(n)
    /\ ~(Adopts(n) /\ pg[n] = "replica")
    /\ Initializes(n)
    /\ LET holds == view[n].leader = n /\ leader = n      \* update_lock
           wins == Unlocked(n) /\ leader = Nobody /\ Candidate(n)
       IN /\ leader' = IF wins THEN n ELSE leader
          /\ pg' = [pg EXCEPT ![n] = IF holds \/ wins THEN "primary" ELSE "replica"]
    /\ cb_called' = [cb_called EXCEPT ![n] = TRUE]
    /\ UNCHANGED <<sysid, busy, bootstrapping, response, up, faults>>

-----------------------------------------------------------------------------
(* Faults.                                                                  *)

\* The machine stops; what initdb has written is there or not.
Crash(n) ==
    /\ up[n] = "up" /\ May(1)
    /\ \/ UNCHANGED sysid
       \/ busy[n].action = "bootstrap" /\ initdb(n)
    /\ up' = [up EXCEPT ![n] = "down"]
    /\ pg' = [pg EXCEPT ![n] = "down"]
    /\ view' = [view EXCEPT ![n] = NoView] /\ busy' = [busy EXCEPT ![n] = NotBusy]
    /\ abandoned' = (abandoned \/ bootstrapping[n])
    /\ UNCHANGED <<initialize, leader, config, bootstrapping, response, cb_called, own, restored>>

\* A new process knows nothing of what was in progress.
Restart(n) ==
    /\ up[n] \in {"down", "exited"} /\ May(0)
    /\ up' = [up EXCEPT ![n] = "up"]
    /\ bootstrapping' = [bootstrapping EXCEPT ![n] = FALSE]
    /\ response' = [response EXCEPT ![n] = "none"]
    /\ cb_called' = [cb_called EXCEPT ![n] = FALSE]
    /\ UNCHANGED <<initialize, leader, config, sysid, pg, view, busy, own, restored, abandoned>>

\* The ttl of a leader that does not come back for its key.
Expire ==
    /\ leader /= Nobody
    /\ May(IF up[leader] = "up" THEN 1 ELSE 0)
    /\ leader' = Nobody
    /\ UNCHANGED <<initialize, config, node, up, view, own, restored, abandoned>>

NodeStep(n) ==
    \/ Load(n) \/ bootstrap(n) \/ BootstrapEnds(n) \/ bootstrap_standby_leader(n) \/ post_bootstrap(n)
    \/ PostBootstrapEnds(n) \/ clone(n) \/ CloneEnds(n) \/ restore(n) \/ RestoreEnds(n) \/ Wait(n)
    \/ Mismatch(n) \/ AbortJoin(n) \/ Join(n) \/ Restart(n)

Next == Expire \/ \E n \in Node : NodeStep(n) \/ Crash(n)

Spec == Init /\ [][Next]_vars

\* The cycles and the actions of a process that runs go on, a machine comes
\* back, and a ttl passes.
LostExpires == leader /= Nobody /\ up[leader] /= "up" /\ Expire
FairSpec == Spec /\ \A n \in Node : WF_vars(NodeStep(n))
                 /\ WF_vars(LostExpires)

-----------------------------------------------------------------------------
(* What the bootstrap of a cluster promises. *)

\* The state of the cluster and of its nodes; only a process that runs has a
\* cycle or an action in progress, and never both.
TypeOK ==
    /\ initialize \in {NoKey, Claimed} \cup 1 .. MaxId
    /\ leader \in Node \cup {Nobody}
    /\ sysid \in [Node -> 0 .. MaxId]
    /\ \A n \in Node :
          /\ pg[n] /= "down" => HasData(n)
          /\ view[n].read \/ busy[n] /= NotBusy => up[n] = "up"
          /\ ~(view[n].read /\ busy[n] /= NotBusy)

\* Nodes that all come without data form one cluster: whatever fails, crashes
\* or restarts, no two of them run with different system identifiers, unless one
\* of them restored a backup of another cluster than /initialize names (in a
\* standby cluster, where all copy the remote one, not even then).
OneCluster ==
    own = {} /\ (restored => standby) =>
        \A m, n \in Node : Running(m) /\ Running(n) => sysid[m] = sysid[n]

\* A system identifier in /initialize stays there, unless it is disputed: by
\* nodes that brought data, or by a backup restored while the key named nothing.
KeepsInitialize == own = {} /\ ~restored /\ sysid_valid(initialize) => initialize' = initialize
InitializeStable == [][KeepsInitialize]_vars

\* The data a node came with is never replaced by that of another cluster.
KeepsOwnData == \A n \in own : HasData(n) => sysid'[n] = sysid[n]
OwnDataKept == [][KeepsOwnData]_vars

\* A leader whose data is not of the cluster that /initialize names does not
\* stay leader.
WrongLeader == leader /= Nobody /\ initialize /= sysid[leader]
WrongLeaderLeaves == WrongLeader ~> ~WrongLeader

\* New nodes, one of which may lead and can make its data, become a cluster with
\* a leader, whatever fails on the way, unless no node that may lead can go on:
\* the key is empty since a machine stopped during its bootstrap, or it names the
\* data of a node that may not lead.
Formed == leader /= Nobody /\ initialize = sysid[leader]
Idle(n) == busy[n] = NotBusy /\ ~bootstrapping[n]
Blocked ==
    /\ leader = Nobody
    /\ \A n \in Node \ nofailover :
          Idle(n) /\ \/ abandoned /\ initialize = Claimed /\ ~HasData(n)
                     \/ /\ sysid_valid(initialize) /\ sysid[n] /= initialize
                        /\ HasData(n) \/ n \notin backups
New == own = {} /\ (configured \cup backups) \ nofailover /= {}
ClusterForms == New => <>Formed \/ <>[]Blocked

\* One cluster, with its identifier and the data that nodes came with.
BootstrapSafe == [](TypeOK /\ OneCluster) /\ InitializeStable /\ OwnDataKept

\* A cluster comes to exist, and a leader of another one leaves it.
BootstrapLives == WrongLeaderLeaves /\ ClusterForms
=============================================================================
