------------------------------- MODULE PatroniHa -------------------------------
(***************************************************************************)
(* The high availability loop of Patroni: the leader key with its ttl, one *)
(* loop per node, the promotion it runs in a thread, the watchdog and      *)
(* failsafe mode.                                                          *)
(*                                                                         *)
(* Time is counted in ticks.  A node may be suspended at any point, so any *)
(* number of ticks may pass between two steps; what happens in time is the *)
(* reset of a node whose watchdog runs out (the watchdog is a device), and *)
(* the store keeps the leader key for at least Ttl.                        *)
(*                                                                         *)
(* Maintenance mode, switchovers and synchronous mode have modules of      *)
(* their own (PatroniSwitchover, PatroniSync).                             *)
(***************************************************************************)
EXTENDS Naturals

CONSTANTS
    Node,
    Ttl,            \* ttl of the leader key
    Timeout,        \* WatchdogConfig.timeout
    Failsafe        \* is failsafe_mode on?

None == "none"
Off == Timeout + 1

ASSUME PatroniHaAssumption ==
    /\ Ttl \in Nat \ {0} /\ Timeout \in 1..Ttl
    /\ Failsafe \in BOOLEAN
    /\ None \notin Node

VARIABLES
    leader,         \* the owner of the leader key
    age,            \* ticks since the key was written
    pc,             \* where run_cycle is
    cluster,        \* the leader run_cycle has loaded, until it has decided what to do
    pg,             \* Postgres on the node
    promoting,      \* is the promotion running in the AsyncExecutor?
    watchdog,       \* ticks until the watchdog fires; Off: not active
    pinged,         \* _failsafe: who called, and how long it counts
    asked,          \* the members check_failsafe_topology waits for
    late,           \* history: was the watchdog activated too late for the key, or
                    \* for one that is contested?
    unheeded,       \* history: ticks for which a call of /failsafe counts that the
                    \* node has accepted and its run_cycle does not know of
    contested       \* history: did such a call count when the key was taken?

vars == <<leader, age, pc, cluster, pg, promoting, watchdog, pinged, asked, late, unheeded, contested>>
key == <<leader, age, contested>>
local == <<promoting, pinged, asked, unheeded>>

Running == {"primary", "replica"}

NoPing == [name |-> None, left |-> 0]

Init ==
    /\ leader = None /\ age = 0
    /\ pc = [n \in Node |-> "sleep"]
    /\ cluster = [n \in Node |-> None]
    /\ pg = [n \in Node |-> "replica"]
    /\ promoting = [n \in Node |-> FALSE]
    /\ watchdog = [n \in Node |-> Off]
    /\ pinged = [n \in Node |-> NoPing]
    /\ asked = [n \in Node |-> {}]
    /\ late = [n \in Node |-> FALSE]
    /\ unheeded = [n \in Node |-> 0]
    /\ contested = FALSE

-----------------------------------------------------------------------------
(* Time, the key and the machines.                                          *)

Fires == {n \in Node : watchdog[n] = 1}
Less(t) == IF t = 0 THEN 0 ELSE t - 1

\* The ticks for which a call that n has accepted counts; it goes on to count when
\* _failsafe is reset.
Counts(n) == IF pinged[n].left > unheeded[n] THEN pinged[n].left ELSE unheeded[n]
Forgets(n) == /\ pinged' = [pinged EXCEPT ![n] = NoPing]
              /\ unheeded' = [unheeded EXCEPT ![n] = Counts(n)]

\* A node whose watchdog fires is reset, with Postgres and Patroni.
Tick ==
    /\ age' = IF leader = None THEN 0 ELSE IF age < Ttl THEN age + 1 ELSE age
    /\ watchdog' = [n \in Node |-> CASE n \in Fires -> Off
                                     [] watchdog[n] = Off -> Off
                                     [] OTHER -> watchdog[n] - 1]
    /\ pinged' = [n \in Node |-> IF n \in Fires \/ pinged[n].left <= 1 THEN NoPing
                                 ELSE [pinged[n] EXCEPT !.left = @ - 1]]
    /\ pc' = [n \in Node |-> IF n \in Fires THEN "sleep" ELSE pc[n]]
    /\ pg' = [n \in Node |-> IF n \in Fires THEN "stopped" ELSE pg[n]]
    /\ promoting' = [n \in Node |-> promoting[n] /\ n \notin Fires]
    /\ asked' = [n \in Node |-> IF n \in Fires THEN {} ELSE asked[n]]
    /\ late' = [n \in Node |-> late[n] /\ n \notin Fires]
    /\ unheeded' = [n \in Node |-> Less(IF n \in Fires THEN Counts(n) ELSE unheeded[n])]
    /\ cluster' = [n \in Node |-> IF n \in Fires THEN None ELSE cluster[n]]
    /\ UNCHANGED <<leader, contested>>

\* The store removes a key that was not written for Ttl.
Expire ==
    /\ leader /= None /\ age = Ttl
    /\ leader' = None /\ age' = 0 /\ contested' = FALSE
    /\ UNCHANGED <<pc, pg, watchdog, late, cluster, local>>

\* Postgres crashes under Patroni.
PostgresCrashes(n) ==
    /\ pg[n] \in Running
    /\ ~promoting[n]
    /\ pg' = [pg EXCEPT ![n] = IF @ = "primary" THEN "crashed" ELSE "stopped"]
    /\ UNCHANGED <<key, pc, watchdog, late, cluster, local>>

-----------------------------------------------------------------------------
(* The steps of run_cycle.                                                  *)

Goto(n, step) == /\ pc' = [pc EXCEPT ![n] = step]
                 /\ cluster' = [cluster EXCEPT ![n] = None]

\* A leader that called recently stands in for the missing one.
update_cluster(n) ==
    IF leader = None /\ Failsafe THEN pinged[n].name ELSE leader

load_cluster_from_dcs(n) ==
    /\ pc[n] = "sleep"
    /\ cluster' = [cluster EXCEPT ![n] = update_cluster(n)]
    /\ unheeded' = [unheeded EXCEPT ![n] = IF pinged[n].left > 0 THEN 0 ELSE @]
    /\ pc' = [pc EXCEPT ![n] = "loaded"]
    /\ UNCHANGED <<key, pg, promoting, watchdog, pinged, asked, late>>

\* Any call of the store may fail, after it has been executed or not.
GetClusterFails(n) ==
    /\ pc[n] = "sleep"
    /\ Goto(n, "error")
    /\ UNCHANGED <<key, pg, watchdog, late, local>>

HasLock(n) == cluster[n] = n

\* Both process_healthy_cluster and handle_long_action_in_progress update the
\* lock they have, and recover does so before it starts a dead Postgres.
BeginUpdateLock(n) ==
    /\ pc[n] = "loaded" /\ HasLock(n)
    /\ Goto(n, "update")
    /\ UNCHANGED <<key, pg, watchdog, late, local>>

\* handle_long_action_in_progress: a promotion is cancelled if the lock has
\* gone before it was executed.
CancelPromote(n) ==
    /\ pc[n] \in {"loaded", "lost"} /\ promoting[n]
    /\ pc[n] = "loaded" => ~HasLock(n)
    /\ promoting' = [promoting EXCEPT ![n] = FALSE]
    /\ Goto(n, "sleep")
    /\ UNCHANGED <<key, pg, watchdog, late, pinged, asked, unheeded>>

\* Postgres is not running: it is started in recovery.
recover(n) ==
    /\ pg[n] \in {"stopped", "crashed"} /\ ~promoting[n]
    /\ \/ pc[n] = "loaded" /\ ~HasLock(n)
       \/ pc[n] = "lost"
       \/ pc[n] = "locked" /\ pg[n] = "stopped"
    /\ pg' = [pg EXCEPT ![n] = "replica"]
    /\ watchdog' = [watchdog EXCEPT ![n] = Off]
    /\ late' = [late EXCEPT ![n] = FALSE]
    /\ Goto(n, "sleep")
    /\ UNCHANGED <<key, local>>

\* "starting primary after failure": the lock has just been updated.
RestartPrimary(n) ==
    /\ pc[n] = "locked" /\ pg[n] = "crashed"
    /\ pg' = [pg EXCEPT ![n] = "primary"]
    /\ Goto(n, "sleep")
    /\ UNCHANGED <<key, watchdog, late, local>>

\* Another member answers that it is the primary, unless it does not answer.
is_healthiest_node(n) ==
    /\ pc[n] = "loaded" /\ cluster[n] = None
    /\ pg[n] \in Running /\ ~promoting[n]
    /\ Goto(n, "acquire")
    /\ UNCHANGED <<key, pg, watchdog, late, local>>

\* process_unhealthy_cluster of a node that is not the healthiest one, and
\* process_healthy_cluster of one that has not the lock: a primary demotes.
follow(n) ==
    /\ pg[n] \in Running /\ ~promoting[n]
    /\ \/ pc[n] = "loaded" /\ ~HasLock(n)
       \/ pc[n] = "lost"
    /\ Goto(n, IF pg[n] = "primary" THEN "demote" ELSE "sleep")
    /\ UNCHANGED <<key, pg, watchdog, late, local>>

Takes(n) ==
    /\ leader = None
    /\ leader' = n /\ age' = 0
    /\ contested' = (unheeded[n] > 0)

attempt_to_acquire_leader(n) ==
    /\ pc[n] = "acquire"
    /\ \/ Takes(n) /\ Goto(n, "enforce")
       \/ leader /= None /\ Goto(n, "lost") /\ UNCHANGED key
    /\ UNCHANGED <<pg, promoting, watchdog, pinged, asked, late, unheeded>>

AcquireFails(n) ==
    /\ pc[n] = "acquire"
    /\ Takes(n) \/ UNCHANGED key
    /\ Goto(n, "error")
    /\ UNCHANGED <<pg, watchdog, late, promoting, pinged, asked, unheeded>>

update_leader(n) ==
    /\ pc[n] = "update"
    /\ \/ leader = n /\ age' = 0 /\ Goto(n, "updated")
       \/ leader /= n /\ Goto(n, "lost") /\ UNCHANGED age
    /\ UNCHANGED <<leader, contested, pg, watchdog, late, local>>

UpdateFails(n) ==
    /\ pc[n] = "update"
    /\ \/ leader = n /\ age' = 0
       \/ UNCHANGED age
    /\ Goto(n, "error")
    /\ UNCHANGED <<leader, contested, pg, watchdog, late, local>>

Fed(n) == IF watchdog[n] = Off THEN Off ELSE Timeout

\* update_lock feeds the watchdog after the key was written, and the run ends
\* with _failsafe reset.
keepalive(n) ==
    /\ pc[n] = "updated"
    /\ watchdog' = [watchdog EXCEPT ![n] = Fed(n)]
    /\ late' = [late EXCEPT ![n] = @ /\ contested]
    /\ Forgets(n)
    /\ Goto(n, IF promoting[n] THEN "sleep"
               ELSE IF pg[n] \in Running THEN "enforce" ELSE "locked")
    /\ UNCHANGED <<key, pg, promoting, asked>>

-----------------------------------------------------------------------------
(* enforce_primary_role.                                                    *)

activate(n) ==
    /\ pc[n] = "enforce"
    /\ watchdog' = [watchdog EXCEPT ![n] = IF @ = Off THEN Timeout ELSE @]
    /\ late' = [late EXCEPT ![n] =
            @ \/ (watchdog[n] = Off /\ (leader /= n \/ contested \/ age + Timeout > Ttl))]
    /\ Goto(n, "active")
    /\ UNCHANGED <<key, pg, local>>

\* The mode is "required": a primary demotes, a replica gives the key back.
ActivateFails(n) ==
    /\ pc[n] = "enforce" /\ pg[n] \in Running
    /\ watchdog[n] = Off
    /\ Goto(n, IF pg[n] = "primary" THEN "demote_immediate" ELSE "release")
    /\ UNCHANGED <<key, pg, watchdog, late, local>>

\* A primary stays what it is; a replica has its promotion started; the query
\* that asks fails if Postgres has just crashed.
enforce_primary_role(n) ==
    /\ pc[n] = "active"
    /\ promoting' = [promoting EXCEPT ![n] = pg[n] = "replica"]
    /\ IF pg[n] = "replica" THEN Forgets(n) ELSE UNCHANGED <<pinged, unheeded>>
    /\ Goto(n, "sleep")
    /\ UNCHANGED <<key, pg, watchdog, late, asked>>

\* The thread: pg_ctl promote.
promote(n) ==
    /\ promoting[n] /\ pg[n] = "replica"
    /\ pg' = [pg EXCEPT ![n] = "primary"]
    /\ promoting' = [promoting EXCEPT ![n] = FALSE]
    /\ UNCHANGED <<key, pc, watchdog, late, cluster, pinged, asked, unheeded>>

\* delete_leader removes the key only if it is ours.
release_leader_key_voluntarily(n) ==
    /\ pc[n] = "release"
    /\ leader' = IF leader = n THEN None ELSE leader
    /\ age' = IF leader = n THEN 0 ELSE age
    /\ contested' = (contested /\ leader /= n)
    /\ Goto(n, "sleep")
    /\ UNCHANGED <<pg, watchdog, late, local>>

\* Mutant: the watchdog is disabled when the demotion begins.
DisableEarly(n) ==
    /\ pc[n] \in {"demote", "demote_immediate"}
    /\ \/ /\ watchdog[n] /= Off
          /\ watchdog' = [watchdog EXCEPT ![n] = Off]
          /\ UNCHANGED <<pc, cluster, pg, late, promoting>>
       \/ /\ watchdog[n] = Off
          /\ pg' = [pg EXCEPT ![n] = "stopped"]
          /\ promoting' = [promoting EXCEPT ![n] = FALSE]
          /\ late' = [late EXCEPT ![n] = FALSE]
          /\ Goto(n, IF pc[n] = "demote" THEN "sleep" ELSE "release")
          /\ UNCHANGED watchdog
    /\ UNCHANGED <<key, pinged, asked, unheeded>>

\* stop reaches its safepoint, where the watchdog is disabled.  The node that
\* still has the key gives it back only then.  recover starts Postgres again.
demote(n) ==
    /\ pc[n] \in {"demote", "demote_immediate"}
    /\ pg' = [pg EXCEPT ![n] = "stopped"]
    /\ watchdog' = [watchdog EXCEPT ![n] = Off]
    /\ late' = [late EXCEPT ![n] = FALSE]
    /\ promoting' = [promoting EXCEPT ![n] = FALSE]
    /\ Goto(n, IF pc[n] = "demote" THEN "sleep" ELSE "release")
    /\ UNCHANGED <<key, pinged, asked, unheeded>>

\* Patroni is asked to stop: Postgres first, then the key.
shutdown(n) ==
    /\ pc[n] = "sleep" /\ ~promoting[n]
    /\ Goto(n, "demote_immediate")
    /\ UNCHANGED <<key, pg, watchdog, late, local>>

-----------------------------------------------------------------------------
(* _handle_dcs_error and failsafe mode.                                     *)

_handle_dcs_error(n) ==
    /\ pc[n] = "error"
    /\ \/ pg[n] /= "primary" /\ Goto(n, "sleep") /\ UNCHANGED asked
       \/ /\ pg[n] = "primary" /\ Failsafe
          /\ Goto(n, "failsafe")
          /\ asked' = [asked EXCEPT ![n] = Node \ {n}]
       \/ pg[n] = "primary" /\ ~Failsafe /\ Goto(n, "demote") /\ UNCHANGED asked
    /\ UNCHANGED <<key, pg, watchdog, late, promoting, pinged, unheeded>>

\* The call counts for Ttl; a run_cycle on its way to the key does not look again.
Racing(n) == pc[n] \in {"loaded", "acquire"} /\ cluster[n] = None
Called(m, n) ==
    /\ pinged' = [pinged EXCEPT ![m] = [name |-> n, left |-> Ttl]]
    /\ unheeded' = [unheeded EXCEPT ![m] = IF Racing(m) THEN Ttl ELSE 0]

\* Mutant: a member that runs as primary accepts the call, too.
AcceptAlways(n, m) ==
    /\ pc[n] = "failsafe" /\ m \in asked[n]
    /\ Called(m, n)
    /\ asked' = [asked EXCEPT ![n] = @ \ {m}]
    /\ UNCHANGED <<key, pc, pg, watchdog, late, cluster, promoting>>

\* The member answers "Accepted" unless it runs as primary itself.
update_failsafe(n, m) ==
    /\ pc[n] = "failsafe" /\ m \in asked[n]
    /\ pg[m] /= "primary" /\ Called(m, n)
    /\ asked' = [asked EXCEPT ![n] = @ \ {m}]
    /\ UNCHANGED <<key, pc, pg, watchdog, late, cluster, promoting>>

\* It refuses, or does not answer in time (and may have got the call).
FailsafeRefused(n, m) ==
    /\ pc[n] = "failsafe" /\ m \in asked[n]
    /\ \/ pg[m] /= "primary" /\ Called(m, n)
       \/ UNCHANGED <<pinged, unheeded>>
    /\ asked' = [asked EXCEPT ![n] = {}]
    /\ Goto(n, "demote")
    /\ UNCHANGED <<key, pg, watchdog, late, promoting>>

\* All members agree: the node goes on as primary.
check_failsafe_topology(n) ==
    /\ pc[n] = "failsafe" /\ asked[n] = {}
    /\ watchdog' = [watchdog EXCEPT ![n] = Fed(n)]
    /\ Goto(n, "sleep")
    /\ UNCHANGED <<key, pg, late, local>>

-----------------------------------------------------------------------------

Cycle(n) ==
    \/ load_cluster_from_dcs(n) \/ GetClusterFails(n)
    \/ BeginUpdateLock(n) \/ CancelPromote(n) \/ recover(n) \/ RestartPrimary(n)
    \/ is_healthiest_node(n) \/ follow(n)
    \/ attempt_to_acquire_leader(n) \/ AcquireFails(n)
    \/ update_leader(n) \/ UpdateFails(n) \/ keepalive(n)
    \/ activate(n) \/ ActivateFails(n) \/ enforce_primary_role(n)
    \/ release_leader_key_voluntarily(n) \/ demote(n)
    \/ _handle_dcs_error(n) \/ check_failsafe_topology(n)
    \/ \E m \in Node : update_failsafe(n, m) \/ FailsafeRefused(n, m)

Next ==
    \/ \E n \in Node : Cycle(n) \/ promote(n) \/ shutdown(n) \/ PostgresCrashes(n)
    \/ Tick \/ Expire

Spec == Init /\ [][Next]_vars

\* Each node's loop goes on, and so does a promotion.
FairSpec == Spec /\ \A n \in Node : WF_vars(Cycle(n)) /\ WF_vars(promote(n))

-----------------------------------------------------------------------------
(* Properties of PatroniHa. *)

Steps == {"sleep", "loaded", "update", "updated", "lost", "acquire", "locked", "enforce",
          "active", "release", "demote", "demote_immediate", "error", "failsafe"}

\* Type correctness; nobody waits for answers but check_failsafe_topology.
TypeOK ==
    /\ leader \in Node \union {None} /\ age \in 0..Ttl
    /\ leader = None => age = 0 /\ ~contested
    /\ pc \in [Node -> Steps]
    /\ cluster \in [Node -> Node \union {None}]
    /\ pg \in [Node -> {"replica", "primary", "stopped", "crashed"}]
    /\ promoting \in [Node -> BOOLEAN]
    /\ watchdog \in [Node -> 1..Off]
    /\ pinged \in [Node -> [name : Node \union {None}, left : 0..Ttl]]
    /\ asked \in [Node -> SUBSET Node]
    /\ \A n \in Node : asked[n] /= {} => pc[n] = "failsafe"
    /\ late \in [Node -> BOOLEAN] /\ contested \in BOOLEAN
    /\ unheeded \in [Node -> 0..Ttl]

Primaries == {n \in Node : pg[n] = "primary"}

\* docs/watchdog.rst promises one primary at a time with a watchdog that fires after
\* half the ttl (HalfTtl).  With such a watchdog two nodes run as primary only if one
\* of them activated its watchdog when the key it had written had not enough time
\* left (enforce_primary_role does not look at the key again), or had taken the key in a
\* run_cycle that had loaded the cluster before the node accepted a call of /failsafe,
\* or after the node had forgotten it (is_healthiest_node and acquire_lock do not look
\* at _failsafe again).  Otherwise the reset comes before the key expires, whatever the
\* store, a crash of Postgres, a demotion or a shutdown does.
HalfTtl == 2 * Timeout <= Ttl + 1
SplitBrainHasCause ==
    \A n, m \in Primaries : n /= m => late[n] \/ late[m]

\* A second primary does not stay: the one without the key finds out, from the
\* store or because the other one refuses its call of /failsafe, and demotes.
SplitBrain(n, m) == leader = m /\ {n, m} \subseteq Primaries
SplitBrainEnds == \A n \in Node : \A m \in Node \ {n} : SplitBrain(n, m) ~> ~SplitBrain(n, m)

\* Types, and two primaries only for a cause.
HaSafe == TypeOK /\ SplitBrainHasCause
=============================================================================
