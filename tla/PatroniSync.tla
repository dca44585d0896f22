------------------------------ MODULE PatroniSync ------------------------------
(***************************************************************************)
(* Synchronous mode of Patroni: the /sync key of the store, the setting    *)
(* synchronous_standby_names of the primary, and the race for the leader   *)
(* key that only the nodes named in /sync may win.                         *)
(*                                                                         *)
(* A log is a sequence of commits.  Versions of /sync are not counted: a   *)
(* node knows whether its version is still the current one (fresh), which  *)
(* is what a conditional write compares.                                   *)
(*                                                                         *)
(* The time of the leader key is in PatroniHa.  Here the key may expire at *)
(* any moment; with Watchdog its owner has been reset by then, which is    *)
(* what PatroniHa!SplitBrainHasCause says of a watchdog that was           *)
(* activated in time.                                                      *)
(***************************************************************************)
EXTENDS Naturals, Sequences, FiniteSets, SequencesExt

CONSTANTS
    Node,
    Commit,         \* commits of clients
    Strict,         \* synchronous_mode_strict
    Watchdog,       \* is the owner of an expired key down?
    MaxTimeline,    \* bound on promotions
    MaxFaults       \* bound on crashes and expirations

None == "none"
Star == "*"

\* Assumed of the constants.
PatroniSyncAssumption ==
    /\ Node \intersect {None, Star} = {}
    /\ {Strict, Watchdog} \subseteq BOOLEAN
    /\ MaxTimeline \in Nat \ {0} /\ MaxFaults \in Nat

VARIABLES
    key,            \* owner of the leader key
    sync,           \* the /sync key
    fresh,          \* has the node the current version of /sync?
    history,        \* the timeline recorded in /history
    pc,             \* where run_cycle is
    view,           \* the leader key, /sync and /history as the node has loaded them
    pg,             \* Postgres on the node
    tl,             \* its timeline
    upstream,       \* the node a replica streams from
    log,
    acked,          \* commits a client was told of since /sync is active
    unnamed,        \* history: did a node take the role that /sync did not name?
    ssn,            \* synchronous_standby_names
    ready,          \* SyncHandler._ready_replicas
    flush,          \* SyncHandler._primary_flush_lsn
    faults,         \* crashes and expirations so far
    state           \* the result of current_state: picked and allow_promote

dcs == <<key, sync, history>>
run == <<pc, view, fresh, state>>
postgres == <<pg, tl, upstream, log, acked, unnamed>>
handler == <<ssn, ready, flush>>
vars == <<dcs, run, postgres, handler, faults>>

NoSync == [leader |-> None, members |-> {}]
NoView == [leader |-> None, sync |-> NoSync, tl |-> 0]
NoState == [picked |-> {}, allow |-> {}]

\* One node runs as primary, the others stream from it; the mode has just
\* been switched on.
Init ==
    \E p \in Node :
        /\ key = p /\ sync = NoSync /\ history = 1
        /\ fresh = [n \in Node |-> FALSE]
        /\ pc = [n \in Node |-> "sleep"]
        /\ view = [n \in Node |-> NoView]
        /\ state = [n \in Node |-> NoState]
        /\ pg = [n \in Node |-> IF n = p THEN "primary" ELSE "replica"]
        /\ tl = [n \in Node |-> 1]
        /\ upstream = [n \in Node |-> IF n = p THEN None ELSE p]
        /\ log = [n \in Node |-> <<>>]
        /\ acked = {} /\ unnamed = FALSE /\ faults = 0
        /\ ssn = [n \in Node |-> {}]
        /\ ready = [n \in Node |-> {}]
        /\ flush = [n \in Node |-> 0]

Set(f, n, v) == [f EXCEPT ![n] = v]

Goto(n, step) == pc' = Set(pc, n, step) /\ UNCHANGED <<view, fresh, state>>

\* The run ends; the next one loads everything anew.
Sleep(n) ==
    /\ pc' = Set(pc, n, "sleep")
    /\ view' = Set(view, n, NoView)
    /\ fresh' = Set(fresh, n, FALSE)
    /\ state' = Set(state, n, NoState)

-----------------------------------------------------------------------------
(* Postgres and the machines.                                               *)

Fault == faults < MaxFaults /\ faults' = faults + 1

Streams(p) == {r \in Node : upstream[r] = p /\ pg[r] = "replica"}

Write(p) ==
    /\ pg[p] = "primary"
    /\ \E c \in Commit :
        /\ \A n \in Node : c \notin Range(log[n])
        /\ log' = Set(log, p, Append(log[p], c))
    /\ UNCHANGED <<dcs, run, handler, pg, tl, upstream, acked, unnamed>>

\* A commit returns when the standbys that are named have flushed it.
Ack(p) ==
    /\ pg[p] = "primary" /\ sync.leader /= None
    /\ \E c \in Range(log[p]) \ acked :
        /\ ssn[p] = {Star} => \E r \in Node \ {p} : c \in Range(log[r])
        /\ \A r \in ssn[p] \ {Star} : c \in Range(log[r])
        /\ acked' = acked \union {c}
    /\ UNCHANGED <<dcs, run, handler, pg, tl, upstream, log, unnamed>>

Stream(r) ==
    /\ pg[r] = "replica" /\ upstream[r] /= None
    /\ LET p == upstream[r]
       IN /\ pg[p] = "primary" /\ IsStrictPrefix(log[r], log[p])
          /\ log' = Set(log, r, SubSeq(log[p], 1, Len(log[r]) + 1))
    /\ UNCHANGED <<dcs, run, handler, pg, tl, upstream, acked, unnamed>>

Disconnect(r) ==
    /\ pg[r] = "replica" /\ upstream[r] /= None
    /\ upstream' = Set(upstream, r, None)
    /\ UNCHANGED <<dcs, run, handler, pg, tl, log, acked, unnamed>>

\* Postgres fails under a Patroni that goes on.
PostgresCrashes(p) ==
    /\ Fault
    /\ pg[p] = "primary"
    /\ pg' = Set(pg, p, "crashed")
    /\ UNCHANGED <<dcs, run, handler, tl, upstream, log, acked, unnamed>>

\* The machine of a primary goes down, with Postgres and Patroni.  (That of a
\* replica is as good as disconnected.)
Reset(n) ==
    /\ pg' = Set(pg, n, "stopped")
    /\ upstream' = Set(upstream, n, None)
    /\ ready' = Set(ready, n, {})
    /\ flush' = Set(flush, n, 0)
    /\ Sleep(n)

Crash(n) ==
    /\ Fault
    /\ pg[n] \notin {"replica", "stopped"}
    /\ Reset(n)
    /\ UNCHANGED <<key, sync, history, tl, log, acked, unnamed, ssn>>

\* The key expires.  Its owner may just be slow, unless it has a watchdog.
Expire ==
    /\ Fault
    /\ key /= None
    /\ key' = None
    /\ IF Watchdog THEN Reset(key) ELSE UNCHANGED <<pg, upstream, ready, flush, run>>
    /\ UNCHANGED <<sync, history, tl, log, acked, unnamed, ssn>>

-----------------------------------------------------------------------------
(* The store: a write of /sync names the version it replaces.               *)

LoadView(n) ==
    /\ view' = Set(view, n, [leader |-> key, sync |-> sync, tl |-> history])
    /\ fresh' = Set(fresh, n, TRUE)

\* A replica loads the cluster for nothing but follow while there is a leader.
load_cluster_from_dcs(n) ==
    /\ pc[n] = "sleep"
    /\ pg[n] = "primary" \/ (pg[n] = "replica" /\ key \in {None, n})
    /\ LoadView(n)
    /\ pc' = Set(pc, n, "loaded")
    /\ UNCHANGED <<dcs, state, postgres, handler>>

Publish(n, members) == sync' = [leader |-> n, members |-> members]

write_sync_state(n, members) == fresh[n] /\ Publish(n, members)

\* The writer has the new version, everybody else an old one.
Versions(n) == fresh' = [m \in Node |-> m = n]

-----------------------------------------------------------------------------
(* SyncHandler.                                                             *)

\* One candidate (synchronous_node_count is 1): a "sync" one before the others,
\* the furthest ahead among equals.
_ReplicaList(p, eligible) ==
    {r \in eligible : \A s \in eligible :
        \/ r \in ssn[p] /\ s \notin ssn[p]
        \/ (r \in ssn[p]) = (s \in ssn[p]) /\ Len(log[r]) >= Len(log[s])}

\* Mutant: a standby counts as soon as it is named.
ReadyWhenNamed(p, eligible) == ready[p] \union (eligible \intersect ssn[p])

_process_replica_readiness(p, eligible) ==
    ready[p] \union {r \in eligible :
        /\ r \in ssn[p]
        /\ r \in view[p].sync.members \/ Len(log[r]) >= flush[p]}

\* A standby that streams is left out if it asks to be released
\* (while_not_sync_standby), is starting, or may not be synchronous.
current_state(p) ==
    \E eligible \in SUBSET Streams(p) :
        LET now == _process_replica_readiness(p, eligible)
            candidates == _ReplicaList(p, eligible)
        IN /\ ready' = Set(ready, p, now)
           /\ \E picked \in IF candidates = {} THEN {{}} ELSE {{r} : r \in candidates} :
                state' = Set(state, p,
                    [picked |-> picked, allow |-> picked \intersect ssn[p] \intersect now])

\* _handle_synchronous_standby_names_change: who is named now counts when it
\* has what was committed before.
set_synchronous_standby_names(p, names) ==
    /\ ssn' = Set(ssn, p, names)
    /\ IF names = ssn[p] THEN UNCHANGED <<ready, flush>>
       ELSE /\ ready' = Set(ready, p, ready[p] \intersect names)
            /\ flush' = Set(flush, p, Len(log[p]))

-----------------------------------------------------------------------------
(* process_sync_replication of the primary that has updated its lock.       *)

Members(p) == view[p].sync.members

\* The value written is what the rest of the run goes on with.
Saw(p, members, step) ==
    /\ view' = Set(view, p, [leader |-> view[p].leader, sync |-> [leader |-> p, members |-> members], tl |-> view[p].tl])
    /\ pc' = Set(pc, p, step) /\ UNCHANGED state /\ Versions(p)

Refused(p) == ~fresh[p] /\ UNCHANGED sync

EnableSync(p) ==
    /\ pc[p] = "process" /\ view[p].sync.leader = None
    /\ \/ write_sync_state(p, {}) /\ Saw(p, {}, "process")
       \/ Refused(p) /\ Sleep(p)
    /\ UNCHANGED <<key, history, postgres, handler>>

process_sync_replication(p) ==
    /\ pc[p] = "process" /\ view[p].sync.leader /= None
    /\ current_state(p)
    /\ LET s == state'[p]
       IN pc' = Set(pc, p,
            IF s.picked = Members(p) THEN IF s.allow = Members(p) THEN "done" ELSE "temporary"
            ELSE IF Members(p) \subseteq s.allow THEN "assign" ELSE "temporary")
    /\ UNCHANGED <<dcs, view, fresh, postgres, ssn, flush>>

\* A standby is removed from /sync before it is removed from the setting; so is
\* one that is not proven to be synchronous though it is the one picked.
WriteCommon(p) ==
    /\ pc[p] = "temporary"
    /\ LET common == Members(p) \intersect state[p].allow
       IN \/ write_sync_state(p, common) /\ Saw(p, common, "assign")
          \/ Refused(p) /\ Goto(p, "done")
    /\ UNCHANGED <<key, history, postgres, handler>>

Assign(p) ==
    /\ pc[p] = "assign"
    /\ LET picked == IF Strict /\ state[p].picked = {} THEN {Star} ELSE state[p].picked
       IN /\ set_synchronous_standby_names(p, picked)
          /\ Goto(p, IF picked \notin {{}, {Star}, state[p].allow} THEN "wait" ELSE "publish")
    /\ UNCHANGED <<dcs, postgres>>

WaitReady(p) ==
    /\ pc[p] = "wait"
    /\ current_state(p)
    /\ pc' = Set(pc, p, "publish")
    /\ UNCHANGED <<dcs, view, fresh, postgres, ssn, flush>>

\* And it is added to /sync after it is in the setting.
WriteAssigned(p) ==
    /\ pc[p] = "publish"
    /\ IF state[p].allow \in {{}, Members(p)} THEN UNCHANGED sync
       ELSE write_sync_state(p, state[p].allow) \/ Refused(p)
    /\ pc' = Set(pc, p, "done")
    /\ fresh' = IF sync' = sync THEN fresh ELSE [m \in Node |-> m = p]
    /\ UNCHANGED <<view, state>>
    /\ UNCHANGED <<key, history, postgres, handler>>

update_cluster_history(p) ==
    /\ pc[p] = "done"
    /\ history' = IF tl[p] > view[p].tl THEN tl[p] ELSE history
    /\ Sleep(p)
    /\ UNCHANGED <<key, sync, postgres, handler>>

-----------------------------------------------------------------------------
(* The rest of run_cycle.                                                   *)

\* A primary that has not the lock demotes.
Lose(n) == IF pg[n] = "primary" THEN Goto(n, "demote") ELSE Sleep(n)

update_lock(n) ==
    /\ pc[n] = "loaded" /\ view[n].leader = n
    /\ IF key = n THEN Goto(n, "enforce") ELSE Lose(n)
    /\ UNCHANGED <<dcs, postgres, handler>>

Names(s, n) == s.leader = None \/ n \in s.members \union {s.leader}

\* Once /sync is active only the nodes it names may race.
sync_allows(n) == Names(view[n].sync, n)

\* The others may not answer.  A primary does not ask /sync, only /history.
is_healthiest_node(n) ==
    /\ pc[n] = "loaded" /\ view[n].leader = None
    /\ \/ /\ \/ pg[n] = "primary" /\ tl[n] >= view[n].tl
             \/ pg[n] = "replica" /\ sync_allows(n)
          /\ Goto(n, "acquire")
       \/ pg[n] /= "primary" /\ Sleep(n)
    /\ UNCHANGED <<dcs, postgres, handler>>

acquire_lock(n) ==
    /\ pc[n] = "acquire"
    /\ IF key = None
       THEN key' = n /\ Goto(n, "reload") /\ unnamed' = (unnamed \/ ~Names(sync, n))
       ELSE Lose(n) /\ UNCHANGED <<key, unnamed>>
    /\ UNCHANGED <<sync, history, pg, tl, upstream, log, acked, handler>>

\* The cluster is loaded again once the key is ours.
process_unhealthy_cluster(n) ==
    /\ pc[n] = "reload"
    /\ LoadView(n)
    /\ pc' = Set(pc, n, "enforce")
    /\ UNCHANGED <<key, sync, history, state, postgres, handler>>

\* A replica makes itself the only one /sync names, and promotes.  Whether
\* /sync named it is not asked again.
enforce_primary_role(n) ==
    /\ pc[n] = "enforce"
    /\ \/ /\ pg[n] = "primary" /\ Goto(n, "process")
          /\ unnamed' = (unnamed \/ ~sync_allows(n))
          /\ UNCHANGED <<sync, pg, handler>>
       \/ /\ pg[n] = "replica" /\ write_sync_state(n, {})
          /\ pg' = Set(pg, n, "promoting")
          /\ set_synchronous_standby_names(n, IF Strict THEN {Star} ELSE {})
          /\ unnamed' = (unnamed \/ view[n].sync.leader = None \/ ~sync_allows(n))
          /\ pc' = Set(pc, n, "sleep") /\ view' = Set(view, n, NoView)
          /\ fresh' = [m \in Node |-> FALSE] /\ UNCHANGED state
       \/ /\ pg[n] = "replica" => Refused(n)
          /\ pg[n] /= "primary" /\ Sleep(n)
          /\ UNCHANGED <<sync, pg, handler, unnamed>>
    /\ UNCHANGED <<key, history, tl, upstream, log, acked>>

\* The thread of the promotion, unless the lock has gone before.
promote(n) ==
    /\ pg[n] = "promoting" /\ tl[n] < MaxTimeline
    /\ pg' = Set(pg, n, "primary")
    /\ tl' = Set(tl, n, tl[n] + 1)
    /\ upstream' = Set(upstream, n, None)
    /\ UNCHANGED <<dcs, run, log, acked, unnamed, handler>>

CancelPromote(n) ==
    /\ pg[n] = "promoting" /\ key /= n
    /\ pg' = Set(pg, n, "replica")
    /\ UNCHANGED <<dcs, run, tl, upstream, log, acked, unnamed, handler>>

demote(n) ==
    /\ pc[n] = "demote" \/ (pc[n] = "loaded" /\ view[n].leader /= n)
    /\ pg[n] = "primary"
    /\ pg' = Set(pg, n, "replica")
    /\ ssn' = Set(ssn, n, {}) /\ ready' = Set(ready, n, {}) /\ flush' = Set(flush, n, 0)
    /\ Sleep(n)
    /\ UNCHANGED <<dcs, tl, upstream, log, acked, unnamed>>

\* Postgres is started as the primary it was if the lock is still there, else
\* as a replica, which names no standbys unless it has the lock.
recover(n) ==
    /\ pg[n] \in {"crashed", "stopped"} /\ pc[n] = "sleep"
    /\ IF pg[n] = "crashed" /\ key = n
       THEN pg' = Set(pg, n, "primary") /\ UNCHANGED handler
       ELSE /\ pg' = Set(pg, n, "replica")
            /\ ssn' = Set(ssn, n, IF key = n THEN ssn[n] ELSE {})
            /\ ready' = Set(ready, n, {}) /\ flush' = Set(flush, n, 0)
    /\ UNCHANGED <<dcs, run, tl, upstream, log, acked, unnamed>>

\* follow, with the rewind a diverged log needs.  A run that only follows is
\* one step.
follow(n) ==
    /\ pc[n] = "sleep" /\ pg[n] = "replica"
    /\ key \notin {None, n} /\ pg[key] = "primary" /\ upstream[n] /= key
    /\ upstream' = Set(upstream, n, key)
    /\ tl' = Set(tl, n, tl[key])
    /\ log' = Set(log, n, LongestCommonPrefix({log[n], log[key]}))
    /\ UNCHANGED <<dcs, run, pg, acked, unnamed, handler>>

-----------------------------------------------------------------------------

Cycle(n) ==
    \/ load_cluster_from_dcs(n) \/ update_lock(n)
    \/ EnableSync(n) \/ process_sync_replication(n) \/ WriteCommon(n)
    \/ Assign(n) \/ WaitReady(n) \/ WriteAssigned(n) \/ update_cluster_history(n)
    \/ is_healthiest_node(n) \/ acquire_lock(n) \/ process_unhealthy_cluster(n)
    \/ enforce_primary_role(n) \/ demote(n) \/ recover(n) \/ follow(n)

Next ==
    \/ \E n \in Node :
        \/ /\ \/ Cycle(n) \/ promote(n) \/ CancelPromote(n)
              \/ Write(n) \/ Ack(n) \/ Stream(n) \/ Disconnect(n)
           /\ UNCHANGED faults
        \/ PostgresCrashes(n) \/ Crash(n)
    \/ Expire

Spec == Init /\ [][Next]_vars

-----------------------------------------------------------------------------
(* Properties of PatroniSync. *)

\* Type correctness; SyncHandler counts no standby as ready that is not named.
TypeOK ==
    /\ key \in Node \union {None}
    /\ sync \in [leader : Node \union {None}, members : SUBSET Node]
    /\ ssn \in [Node -> SUBSET (Node \union {Star})]
    /\ \A n \in Node : pg[n] = "primary" => upstream[n] = None /\ ready[n] \subseteq ssn[n]

MayPromote == sync.members \union ({sync.leader} \ {None})

\* docs/replication_modes.rst: a standby is not promoted unless it has every
\* transaction that may have returned to a client.  Who may take the lock has
\* them all, whatever is lost or crashes while the primary moves the role from
\* one standby to another.
AckedSafe == \A n \in MayPromote : acked \subseteq Range(log[n])

\* With one crash or one expiration of the key only one thing breaks that: a
\* node takes the lock or becomes primary that /sync does not name at that moment
\* (or nobody is named yet).  Its check was out of date, or it runs as primary
\* already, and the condition of its write to /sync does not stop it, because
\* process_unhealthy_cluster loads the cluster again in between.
LossNeedsUnnamed == AckedSafe \/ unnamed

\* The invariant in the comment of process_sync_replication: a primary commits
\* only with the standbys that /sync names beside it.
PublishedIsSet ==
    sync.leader /= None /\ pg[sync.leader] = "primary" => sync.members \subseteq ssn[sync.leader]

\* What is lost was promoted by a node that /sync did not name.
SyncSafe == TypeOK /\ LossNeedsUnnamed /\ PublishedIsSet
=============================================================================
