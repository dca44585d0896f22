--------------------------- MODULE PatroniSwitchover ---------------------------
(***************************************************************************)
(* Manual failover and switchover, immediate or scheduled, in a cluster    *)
(* that may be paused: the /failover key that the REST API (or patronictl) *)
(* writes and waits for, the leader that demotes for it, and the nodes     *)
(* that race for the leader key under it.                                  *)
(*                                                                         *)
(* The leader key goes when it is released or with the machine of its      *)
(* owner; that it may expire under a live owner is in PatroniHa.           *)
(* Synchronous mode is in PatroniSync.                                     *)
(***************************************************************************)
EXTENDS Naturals, FiniteSets

CONSTANTS
    Node,
    First,          \* the node that is primary at first
    Lagging,        \* replicas that lag more than maximum_lag_on_failover
    MaxRequests,    \* bounds: requests of operators,
    MaxDisturbances \* pauses, resumes, roles changed by hand, machines that go down

None == "none"

ASSUME PatroniSwitchoverAssumption ==
    /\ First \in Node /\ Lagging \subseteq Node \ {First} /\ None \notin Node
    /\ {MaxRequests, MaxDisturbances} \subseteq Nat

Request == 1 .. MaxRequests

VARIABLES
    leader,         \* owner of the leader key
    failover,       \* the /failover key
    paused,         \* "pause" in /config
    due,            \* has the time of a scheduled switchover come?
    pc,             \* where run_cycle is
    view,           \* the keys as the node has loaded them
    pg,             \* Postgres on the node
    op,             \* the requests of operators
    toggles, hands, deaths

dcs == <<leader, failover, paused>>
run == <<pc, view>>
bounds == <<toggles, hands, deaths>>
vars == <<dcs, due, run, pg, op, bounds>>

NoFailover == [id |-> 0, leader |-> None, candidate |-> None, scheduled |-> FALSE]
NoView == [leader |-> None, failover |-> NoFailover, paused |-> FALSE]
NoRequest == [pc |-> "idle", key |-> NoFailover, seen |-> None]

Init ==
    /\ leader = First /\ failover = NoFailover /\ paused = FALSE /\ due = FALSE
    /\ pc = [n \in Node |-> "sleep"]
    /\ view = [n \in Node |-> NoView]
    /\ pg = [n \in Node |-> IF n = First THEN "primary" ELSE "replica"]
    /\ op = [i \in Request |-> NoRequest]
    /\ toggles = 0 /\ hands = 0 /\ deaths = 0

Disturb == toggles + hands + deaths < MaxDisturbances

Alive == {n \in Node : pg[n] /= "dead"}

-----------------------------------------------------------------------------
(* Operators: the REST API of a live node, or patronictl on the store.      *)

\* The checks of the handler, on the cluster as it is.
Acceptable(k) ==
    /\ k.leader /= k.candidate
    /\ k.leader = None => k.candidate /= None /\ ~k.scheduled
    /\ paused => k.candidate /= None /\ ~k.scheduled
    /\ ~k.scheduled =>
        /\ k.leader \in {None, leader}
        /\ \E m \in Alive \ {leader} : k.candidate \in {None, m}
        /\ k.candidate /= leader

do_POST_failover(i) ==
    /\ op[i].pc = "idle" /\ (i > 1 => op[i - 1].pc /= "idle")
    /\ \E l, c \in Node \union {None}, s \in BOOLEAN :
        LET k == [id |-> i, leader |-> l, candidate |-> c, scheduled |-> s]
        IN /\ Acceptable(k)
           /\ op' = [op EXCEPT ![i] = [pc |-> "write", key |-> k, seen |-> leader]]
    /\ UNCHANGED <<dcs, due, run, pg, bounds>>

Put(k) == failover' = k

\* The key is written whatever it was.
manual_failover(i) ==
    /\ op[i].pc = "write"
    /\ Put(op[i].key)
    /\ due' = (due /\ ~op[i].key.scheduled)
    /\ op' = [op EXCEPT ![i].pc = IF op[i].key.scheduled THEN "scheduled" ELSE "poll"]
    /\ UNCHANGED <<leader, paused, run, pg, bounds>>

\* The last case is a timeout.
poll_failover_result(i) ==
    /\ op[i].pc = "poll"
    /\ \E answer \in {"done", "instead", "failed", "unknown"} :
        /\ answer \in {"done", "instead"} => leader \notin {None, op[i].seen}
        /\ answer = "done" => op[i].key.candidate \in {None, leader}
        /\ answer = "instead" => op[i].key.candidate \notin {None, leader}
        /\ answer = "failed" => failover = NoFailover /\ leader \in {None, op[i].seen}
        /\ op' = [op EXCEPT ![i].pc = answer]
    /\ UNCHANGED <<dcs, due, run, pg, bounds>>

do_DELETE_switchover ==
    /\ failover.scheduled
    /\ Put(NoFailover)
    /\ UNCHANGED <<leader, paused, due, run, pg, op, bounds>>

toggle_pause ==
    /\ Disturb
    /\ paused' = ~paused /\ toggles' = toggles + 1
    /\ UNCHANGED <<leader, failover, due, run, pg, op, hands, deaths>>

Time ==
    /\ ~due /\ failover.scheduled
    /\ due' = TRUE
    /\ UNCHANGED <<dcs, run, pg, op, bounds>>

\* During a pause Postgres is promoted, or started as a replica, by hand.
Hand(n) ==
    /\ paused /\ Disturb /\ hands = 0
    /\ \/ pg[n] = "replica" /\ pg' = [pg EXCEPT ![n] = "primary"]
       \/ pg[n] = "primary" /\ pg' = [pg EXCEPT ![n] = "replica"]
    /\ hands' = hands + 1
    /\ UNCHANGED <<dcs, due, run, op, toggles, deaths>>

\* The machine goes down, and what it owns expires.
Dies(n) ==
    /\ pg[n] /= "dead" /\ Disturb /\ deaths = 0
    /\ pg' = [pg EXCEPT ![n] = "dead"]
    /\ leader' = IF leader = n THEN None ELSE leader
    /\ pc' = [pc EXCEPT ![n] = "sleep"] /\ view' = [view EXCEPT ![n] = NoView]
    /\ deaths' = deaths + 1
    /\ UNCHANGED <<failover, paused, due, op, toggles, hands>>

\* It comes back as a replica, but Postgres is not started during a pause.
Returns(n) ==
    /\ pg[n] = "dead" /\ ~paused
    /\ pg' = [pg EXCEPT ![n] = "replica"]
    /\ UNCHANGED <<dcs, due, run, op, bounds>>

-----------------------------------------------------------------------------
(* run_cycle.  A node whose executor demotes or promotes only updates its   *)
(* lock.                                                                    *)

Idle(n) == pg[n] \in {"primary", "replica"}

\* A replica has nothing to do for a leader but to follow it.
load_cluster_from_dcs(n) ==
    /\ pc[n] = "sleep" /\ Idle(n)
    /\ pg[n] = "primary" \/ leader \in {None, n}
    /\ view' = [view EXCEPT ![n] = [leader |-> leader, failover |-> failover, paused |-> paused]]
    /\ pc' = [pc EXCEPT ![n] = IF leader = None THEN "race" ELSE "loaded"]
    /\ UNCHANGED <<dcs, due, pg, op, bounds>>

Sleep(n) == pc' = [pc EXCEPT ![n] = "sleep"] /\ view' = [view EXCEPT ![n] = NoView]

\* The version that was loaded is still the current one: no request is written
\* twice, so the value tells.
fresh(n) == failover = view[n].failover

\* Mutant: the request is not removed.
KeepIt(n) == UNCHANGED failover

\* manual_failover('', '') with the version that was loaded.
CleanUp(n) == failover' = IF fresh(n) THEN NoFailover ELSE failover

\* The status of a member is what it answers; who is dead does not answer.
is_failover_possible(n, exclude) ==
    LET c == view[n].failover.candidate
    IN \E m \in Alive \ ({n} \union exclude) : m \notin Lagging /\ (c \in {None, m} \union exclude)

_is_healthiest_node(n, members) ==
    \A m \in Alive \intersect members : pg[m] /= "primary" /\ (n \in Lagging => m \in Lagging)

\* Mutant: a candidate that is healthy is not waited for.
NobodyWaits(n) == _is_healthiest_node(n, Node \ {n, view[n].failover.leader})

\* Without a leader: may the node race under the request it has loaded?  The
\* candidate may, and without it the healthiest; the leader that is named
\* stays away while another member is fit.
manual_failover_process_no_leader(n) ==
    LET f == view[n].failover
    IN IF f.candidate = n THEN TRUE
       ELSE IF f.candidate \in Alive THEN FALSE
       ELSE IF f.leader = n THEN ~is_failover_possible(n, {f.candidate})
       ELSE _is_healthiest_node(n, Node \ {n, f.leader})

is_healthiest_node(n) ==
    LET v == view[n]
        requested == v.failover /= NoFailover
        now == requested /\ ~v.failover.scheduled
    IN \/ v.paused /\ now /\ v.failover.candidate = n
       \/ pg[n] = "primary" /\ (v.paused /\ now => pc[n] = "removed")
       \/ /\ pg[n] = "replica" /\ ~v.paused
          /\ IF requested THEN manual_failover_process_no_leader(n)
             ELSE n \notin Lagging /\ _is_healthiest_node(n, Node \ {n})

\* During a pause a primary removes the request whose candidate is gone.
RemoveStale(n) ==
    /\ pc[n] = "race" /\ pg[n] = "primary"
    /\ LET f == view[n].failover
       IN view[n].paused /\ ~f.scheduled /\ f.candidate \notin Alive \union {None}
    /\ CleanUp(n)
    /\ pc' = [pc EXCEPT ![n] = "removed"]
    /\ UNCHANGED <<leader, paused, due, view, pg, op, bounds>>

acquire_lock(n) ==
    /\ pc[n] \in {"race", "removed"} /\ Idle(n) /\ is_healthiest_node(n)
    /\ leader = None
    /\ leader' = n
    /\ pc' = [pc EXCEPT ![n] = "acquired"]
    /\ UNCHANGED <<failover, paused, due, view, pg, op, bounds>>

\* The request of a pause stays until its candidate is primary.  Any other is
\* removed, whatever it is by now.
UpdateFailover(n) ==
    LET f == view[n].failover
    IN IF f = NoFailover THEN UNCHANGED failover
       ELSE IF view[n].paused /\ f.leader /= None /\ f.candidate /= None
       THEN failover' = IF fresh(n) THEN [f EXCEPT !.leader = None] ELSE failover
       ELSE Put(NoFailover)

process_unhealthy_cluster(n) ==
    /\ pc[n] = "acquired"
    /\ UpdateFailover(n)
    /\ pg' = [pg EXCEPT ![n] = IF @ = "replica" THEN "promoting" ELSE @]
    /\ Sleep(n)
    /\ UNCHANGED <<leader, paused, due, op, bounds>>

\* Not healthy enough, or too late: the cluster is loaded again to follow.  A
\* primary demotes, but not during a pause.
follow(n) ==
    /\ pc[n] \in {"race", "removed"} /\ (leader /= None \/ ~is_healthiest_node(n))
    /\ pg' = [pg EXCEPT ![n] = IF @ = "primary" /\ ~paused THEN "replica" ELSE @]
    /\ Sleep(n)
    /\ UNCHANGED <<dcs, due, op, bounds>>

-----------------------------------------------------------------------------
(* The cluster has a leader.                                                *)

\* Mutant: a primary without the key goes on.
GoesOn(n) ==
    /\ pc[n] = "loaded" /\ view[n].leader /= n /\ pg[n] = "primary"
    /\ Sleep(n)
    /\ UNCHANGED <<dcs, due, pg, op, bounds>>

NotLeader(n) ==
    /\ pc[n] = "loaded" /\ view[n].leader /= n /\ pg[n] = "primary"
    /\ pg' = [pg EXCEPT ![n] = IF ~view[n].paused THEN "replica" ELSE @]
    /\ Sleep(n)
    /\ UNCHANGED <<dcs, due, op, bounds>>

\* A leader that runs as a replica in a pause gives up, unless it is to become
\* primary.
_delete_leader(n) ==
    /\ pc[n] = "loaded" /\ view[n].leader = n /\ view[n].paused /\ pg[n] = "replica"
    /\ leader' = IF view[n].failover.candidate /= n THEN None ELSE leader
    /\ Sleep(n)
    /\ UNCHANGED <<failover, paused, due, pg, op, bounds>>

Leads(n) ==
    /\ pc[n] = "loaded" /\ view[n].leader = n /\ Idle(n)
    /\ view[n].paused => pg[n] = "primary"

\* No request, or its time has not come.
enforce_primary_role(n) ==
    /\ Leads(n)
    /\ LET f == view[n].failover
       IN f = NoFailover \/ (f.scheduled /\ (view[n].paused \/ ~due))
    /\ pg' = [pg EXCEPT ![n] = IF @ = "replica" THEN "promoting" ELSE @]
    /\ Sleep(n)
    /\ UNCHANGED <<dcs, due, op, bounds>>

\* May the leader demote for the request it has loaded?
Servable(n) ==
    LET f == view[n].failover
    IN /\ f.leader \in {None, n} /\ f.candidate /= n
       /\ view[n].paused => f.candidate /= None
       /\ is_failover_possible(n, {})

\* It demotes, or removes a request that it cannot serve or that is stale.
process_manual_failover_from_leader(n) ==
    /\ Leads(n)
    /\ LET f == view[n].failover
       IN /\ f /= NoFailover /\ (f.scheduled => due /\ ~view[n].paused)
          /\ \/ /\ Servable(n)
                /\ pg' = [pg EXCEPT ![n] = "stopping"]
                /\ UNCHANGED failover
             \/ /\ ~Servable(n) \/ f.scheduled
                /\ CleanUp(n)
                /\ pg' = [pg EXCEPT ![n] = IF @ = "replica" THEN "promoting" ELSE @]
    /\ Sleep(n)
    /\ UNCHANGED <<leader, paused, due, op, bounds>>

\* The thread of a graceful demotion: Postgres stops, then the key goes.
release_leader_key_voluntarily(n) ==
    /\ pg[n] = "stopping"
    /\ leader' = IF leader = n THEN None ELSE leader
    /\ pg' = [pg EXCEPT ![n] = "demoted"]
    /\ UNCHANGED <<failover, paused, due, run, op, bounds>>

StartAfterDemotion(n) ==
    /\ pg[n] = "demoted"
    /\ pg' = [pg EXCEPT ![n] = "replica"]
    /\ UNCHANGED <<dcs, due, run, op, bounds>>

promote(n) ==
    /\ pg[n] = "promoting"
    /\ pg' = [pg EXCEPT ![n] = IF leader = n \/ paused THEN "primary" ELSE "replica"]
    /\ UNCHANGED <<dcs, due, run, op, bounds>>

-----------------------------------------------------------------------------

Cycle(n) ==
    \/ load_cluster_from_dcs(n)
    \/ RemoveStale(n) \/ acquire_lock(n) \/ process_unhealthy_cluster(n) \/ follow(n)
    \/ NotLeader(n) \/ _delete_leader(n)
    \/ enforce_primary_role(n) \/ process_manual_failover_from_leader(n)

Thread(n) == release_leader_key_voluntarily(n) \/ StartAfterDemotion(n) \/ promote(n)

Next ==
    \/ \E n \in Node : Cycle(n) \/ Thread(n) \/ Hand(n) \/ Dies(n) \/ Returns(n)
    \/ \E i \in Request : do_POST_failover(i) \/ manual_failover(i) \/ poll_failover_result(i)
    \/ do_DELETE_switchover \/ toggle_pause \/ Time

Spec == Init /\ [][Next]_vars

\* Patroni goes on wherever it runs, and time passes.
FairSpec ==
    /\ Spec
    /\ \A n \in Node : WF_vars(Cycle(n)) /\ WF_vars(Thread(n))
    /\ WF_vars(Time)

-----------------------------------------------------------------------------
(* Properties of PatroniSwitchover. *)

\* Type correctness, and who promotes or stops has gone to sleep first.
TypeOK ==
    /\ leader \in Node \union {None} /\ paused \in BOOLEAN /\ due \in BOOLEAN
    /\ \A n \in Node : /\ pg[n] \in {"primary", "replica", "promoting", "stopping", "demoted", "dead"}
                       /\ ~Idle(n) => pc[n] = "sleep"
    /\ failover.id \in Request \union {0}

Primaries == {n \in Node : pg[n] \in {"primary", "stopping"}}

\* A switchover never makes two primaries: the old one has stopped before its
\* key goes, and who has lost the race during a pause does not promote.  A role changed by hand
\* during a pause may (docs/pause.rst).
SinglePrimary == hands = 0 => Cardinality(Primaries) <= 1

\* A request that is alone and meets no fault does what it says: its candidate
\* becomes leader, or, without one, some member that does not lag.
\* poll_failover_result never has to answer that another member has the key or
\* that the request failed.
RequestReaches ==
    \A i \in Request :
        op[i].pc \in {"instead", "failed"} =>
            \/ deaths > 0 \/ hands > 0 \/ toggles > 0
            \/ \E j \in Request \ {i} : op[j].pc /= "idle"
            \/ \A m \in Node \ {op[i].seen} :
                m \in Lagging /\ op[i].key.candidate \in {None, m}
            \/ op[i].key.candidate \in Lagging

\* Outside of a pause every request is served or removed in the end.
RequestEnds == []<>paused \/ []<>(failover = NoFailover)

\* "Parallel" primaries of a pause end when the cluster is resumed.
ParallelEnds == []<>paused \/ <>[](Cardinality(Primaries) <= 1)

\* One primary, and a request reaches its candidate.
SwitchoverSafe == TypeOK /\ SinglePrimary /\ RequestReaches
=============================================================================
