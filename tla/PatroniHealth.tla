------------------------------ MODULE PatroniHealth ------------------------------
(***************************************************************************)
(* What the health checks of the REST API answer a load balancer, while    *)
(* the HA loop of the node sleeps, waits for the DCS or hangs.  The API's  *)
(* threads ask Postgres for its role and the HA loop's memory for the      *)
(* lock: is_leader compares the clock with the time the loop has written   *)
(* down, so that an answer does not outlive the key when the loop hangs.   *)
(*                                                                         *)
(* Time is counted in units of loop_wait; times are kept relative to now.  *)
(***************************************************************************)
EXTENDS Integers

CONSTANTS Member, Nobody, TTL, LoopWait, NoLoadBalance

ASSUME HealthAssumption == TTL \in Nat \ {0} /\ LoopWait \in Nat /\ Nobody \notin Member

VARIABLES
    paused,     \* maintenance mode
    owner, ttl, \* the leader key and what is left of it
    expiry,     \* what is left until _leader_expiry
    view,       \* the leader in dcs.cluster; "none" without a cluster
    postgres,   \* replica, promoting, primary or down
    ha_loop,    \* the HA loop: sleep, act, wait (for an answer of the DCS) or demote
    renewed,    \* the cycle in progress has renewed or taken the key
    slow,       \* time has passed since the DCS executed the call waited for
    next_run,
    overdue     \* history: an answer that was slow has set _leader_expiry

keys == <<owner, ttl>>
healthVars == <<paused, owner, ttl, expiry, view, postgres, ha_loop, renewed, slow, next_run, overdue>>

Lost == "none"
With(f, n, v) == [f EXCEPT ![n] = v]

HealthInit ==
    /\ paused \in BOOLEAN
    /\ owner \in Member /\ ttl = TTL
    /\ expiry = [n \in Member |-> IF n = owner THEN TTL ELSE 0]
    /\ view = [n \in Member |-> owner]
    /\ postgres = [n \in Member |-> IF n = owner THEN "primary" ELSE "replica"]
    /\ ha_loop = [n \in Member |-> "sleep"]
    /\ renewed = [n \in Member |-> FALSE] /\ slow = [n \in Member |-> FALSE]
    /\ next_run = [n \in Member |-> LoopWait]
    /\ overdue = FALSE

-----------------------------------------------------------------------------
(* The REST API.                                                            *)

\* Variant: the lock as of the last cycle, however long ago that was.
LeaderInView(n) == view[n] = n
is_leader(n) == expiry[n] > 0

\* dcs.cluster is forgotten when it is older than the ttl.
Known(n) == view[n] /= Lost /\ next_run[n] > -TTL

\* Postgres is asked; if it does not answer, the role is the one in memory and the
\* state is not running.
get_postgresql_status(n, answers) ==
    [role |-> IF postgres[n] = "primary" THEN "master" ELSE "replica", running |-> answers /\ postgres[n] /= "down"]

\* The checks of do_GET: for /primary, /leader and /read-write, for /replica (any lag
\* asked for is the client's), and for /read-only.
primary_status(n) ==
    IF ~Known(n) /\ paused THEN get_postgresql_status(n, TRUE).role = "master" ELSE is_leader(n)
replica_status(n, answers) ==
    n \notin NoLoadBalance /\ get_postgresql_status(n, answers) = [role |-> "replica", running |-> TRUE]
do_GET(n, path, answers) ==
    CASE path = "primary" -> primary_status(n)
      [] path = "replica" -> replica_status(n, answers)
      [] path = "read-only" -> primary_status(n) \/ replica_status(n, answers)
      [] path = "health" -> get_postgresql_status(n, answers).running

\* The thresholds of do_GET_liveness.
liveness_threshold(n) == IF postgres[n] = "primary" THEN TTL ELSE 2 * TTL
do_GET_liveness(n) == paused \/ next_run[n] + liveness_threshold(n) > 0

-----------------------------------------------------------------------------
(* The HA loop.                                                             *)

\* schedule_next_run, at once if the cycle took too long.
schedule_next_run(n) == IF next_run[n] + LoopWait > 0 THEN next_run[n] + LoopWait ELSE 0

End(n) ==
    /\ ha_loop' = With(ha_loop, n, "sleep")
    /\ next_run' = With(next_run, n, schedule_next_run(n))
    /\ renewed' = With(renewed, n, FALSE)

\* load_cluster_from_dcs, when it is time or an event has woken the loop.
Load(n) ==
    /\ ha_loop[n] = "sleep"
    /\ next_run' = With(next_run, n, 0)
    /\ view' = With(view, n, owner)
    /\ expiry' = IF owner = n THEN expiry ELSE With(expiry, n, 0)
    /\ ha_loop' = With(ha_loop, n, "act")
    /\ UNCHANGED <<paused, keys, postgres, renewed, slow, overdue>>

\* _handle_dcs_error, after get_cluster has failed.
LoadFails(n) ==
    /\ ha_loop[n] = "sleep"
    /\ view' = With(view, n, Lost)
    /\ IF ~paused /\ postgres[n] = "primary"
       THEN ha_loop' = With(ha_loop, n, "demote") /\ next_run' = With(next_run, n, 0) /\ renewed' = renewed
       ELSE LET next == [next_run EXCEPT ![n] = 0]
            IN ha_loop' = ha_loop /\ next_run' = With(next, n, LoopWait) /\ renewed' = renewed
    /\ UNCHANGED <<paused, keys, expiry, postgres, slow, overdue>>

\* update_lock and acquire_lock: the DCS executes the call, or it does not reach it.
Asks(n) == \/ view[n] = n /\ (paused => postgres[n] = "primary")
           \/ view[n] = Nobody /\ postgres[n] \in {"replica", "primary"} /\ (paused => postgres[n] = "primary")
Call(n) ==
    /\ ha_loop[n] = "act" /\ Asks(n) /\ ~renewed[n]
    /\ ha_loop' = With(ha_loop, n, "wait")
    /\ slow' = With(slow, n, FALSE)
    /\ \/ /\ owner = view[n]
          /\ owner' = n /\ ttl' = TTL
          /\ renewed' = With(renewed, n, TRUE)
       \/ UNCHANGED <<owner, ttl, renewed>>
    /\ UNCHANGED <<paused, expiry, view, postgres, next_run, overdue>>

Standing(n) == IF postgres[n] = "primary" /\ ~paused THEN "demote" ELSE "sleep"

\* The answer, success.
set_is_leader(n) ==
    /\ ha_loop[n] = "wait" /\ renewed[n]
    /\ expiry' = With(expiry, n, TTL)
    /\ view' = With(view, n, n)
    /\ overdue' = (overdue \/ slow[n])
    /\ postgres' = IF postgres[n] = "replica" /\ ~paused THEN With(postgres, n, "promoting") ELSE postgres
    /\ End(n)
    /\ slow' = With(slow, n, FALSE)
    /\ UNCHANGED <<paused, keys>>

\* The answer that it failed.
Refused(n) ==
    /\ ha_loop[n] = "wait" /\ ~renewed[n]
    /\ expiry' = With(expiry, n, 0)
    /\ IF Standing(n) = "demote"
       THEN ha_loop' = With(ha_loop, n, "demote") /\ UNCHANGED <<next_run, renewed>>
       ELSE End(n)
    /\ slow' = With(slow, n, FALSE)
    /\ UNCHANGED <<paused, keys, view, postgres, overdue>>

\* DCSError instead of an answer: what was remembered of the lock stays.
CallFails(n) ==
    /\ ha_loop[n] = "wait"
    /\ IF Standing(n) = "demote"
       THEN ha_loop' = With(ha_loop, n, "demote") /\ UNCHANGED <<next_run, renewed>>
       ELSE End(n)
    /\ slow' = With(slow, n, FALSE)
    /\ UNCHANGED <<paused, keys, expiry, view, postgres, overdue>>

\* A primary without the lock, or a node that has nothing to ask for.  In pause a
\* standby that has the key gives it back.
ha_follow(n) ==
    /\ ha_loop[n] = "act" /\ ~Asks(n)
    /\ IF view[n] = n
       THEN /\ expiry' = With(expiry, n, 0)
            /\ owner' = (IF owner = n THEN Nobody ELSE owner) /\ ttl' = IF owner = n THEN 0 ELSE ttl
            /\ postgres' = postgres
       ELSE /\ UNCHANGED <<expiry, owner, ttl>>
            /\ postgres' = IF postgres[n] = "promoting" THEN With(postgres, n, "replica") ELSE postgres
    /\ IF Standing(n) = "demote"
       THEN ha_loop' = With(ha_loop, n, "demote") /\ UNCHANGED <<next_run, renewed>>
       ELSE End(n)
    /\ UNCHANGED <<paused, view, slow, overdue>>

\* Postgres is stopped, then the lock forgotten; it starts again as a standby.
ha_demote(n) ==
    /\ ha_loop[n] = "demote"
    /\ postgres' = With(postgres, n, "down")
    /\ expiry' = With(expiry, n, 0)
    /\ End(n)
    /\ UNCHANGED <<paused, keys, view, slow, overdue>>

-----------------------------------------------------------------------------
(* Postgres, the key and time.                                              *)

Promoted(n) ==
    /\ postgres[n] = "promoting" \/ (paused /\ postgres[n] = "replica")     \* by an operator
    /\ postgres' = With(postgres, n, "primary")
    /\ UNCHANGED <<paused, keys, expiry, view, ha_loop, renewed, slow, next_run, overdue>>

StandbyStarts(n) ==
    /\ postgres[n] = "down"
    /\ postgres' = With(postgres, n, "replica")
    /\ UNCHANGED <<paused, keys, expiry, view, ha_loop, renewed, slow, next_run, overdue>>

KeyExpires ==
    /\ owner /= Nobody /\ ttl = 0
    /\ owner' = Nobody
    /\ UNCHANGED <<paused, ttl, expiry, view, postgres, ha_loop, renewed, slow, next_run, overdue>>

\* A sleeping loop wakes up in time; any other step may take as long as it likes.
Down(x, low) == IF x > low THEN x - 1 ELSE x
Passes ==
    /\ owner /= Nobody => ttl > 0
    /\ \A n \in Member : ha_loop[n] = "sleep" => next_run[n] /= 0
    /\ ttl' = Down(ttl, 0)
    /\ expiry' = [n \in Member |-> Down(expiry[n], 0)]
    /\ next_run' = [n \in Member |-> Down(next_run[n], -2 * TTL)]
    /\ slow' = [n \in Member |-> ha_loop[n] = "wait"]
    /\ UNCHANGED <<paused, owner, view, postgres, ha_loop, renewed, overdue>>

HealthNext ==
    \/ Passes \/ KeyExpires
    \/ \E n \in Member :
          \/ Load(n) \/ LoadFails(n) \/ Call(n) \/ set_is_leader(n) \/ Refused(n) \/ CallFails(n)
          \/ ha_follow(n) \/ ha_demote(n) \/ Promoted(n) \/ StandbyStarts(n)

HealthSpec == HealthInit /\ [][HealthNext]_healthVars

-----------------------------------------------------------------------------
(* What a load balancer may rely on. *)

\* Types; and a key that is gone has no time
\* left.
HealthTypeOK ==
    /\ paused \in BOOLEAN /\ overdue \in BOOLEAN
    /\ owner \in Member \cup {Nobody} /\ ttl \in 0 .. TTL
    /\ expiry \in [Member -> 0 .. TTL] /\ view \in [Member -> Member \cup {Nobody, Lost}]
    /\ postgres \in [Member -> {"replica", "promoting", "primary", "down"}]
    /\ ha_loop \in [Member -> {"sleep", "act", "wait", "demote"}]
    /\ {renewed, slow} \subseteq [Member -> BOOLEAN]
    /\ next_run \in [Member -> -2 * TTL .. LoopWait]
    /\ owner = Nobody => ttl = 0
    /\ \A n \in Member : ha_loop[n] = "sleep" => next_run[n] >= 0

\* No two nodes answer 200 to GET /primary while both have a Postgres that takes
\* writes, even when the HA loop of one hangs and its Postgres still runs as a
\* primary: _leader_expiry makes is_leader false before another node can have the
\* key.  set_is_leader counts the ttl from the answer though, not from the request:
\* an answer that was slow breaks this (ha.py:222); and in pause a node that does
\* not know the cluster tells the role of its Postgres (api.py:308).
OneWritable ==
    \A n, m \in Member :
       n /= m /\ postgres[n] = "primary" /\ postgres[m] = "primary"
              /\ do_GET(n, "primary", TRUE) /\ do_GET(m, "primary", TRUE)
       => overdue \/ (paused /\ ~(Known(n) /\ Known(m)))

\* A node is in the pool of the primary and in that of the replicas at once only while
\* it is to be promoted: GET /primary goes by the lock alone (api.py:312), whatever the
\* node's Postgres is, and the loop has to forget the lock wherever it gives up, unless
\* a slow answer brings it back.  In pause an operator promotes.  What runs is in the
\* pool of /read-only, except a primary that has lost the lock.
OnePool ==
    \A n \in Member :
       /\ do_GET(n, "primary", TRUE) /\ do_GET(n, "replica", TRUE) 
             => postgres[n] = "promoting" \/ owner = n \/ overdue
       /\ do_GET(n, "health", TRUE) /\ ~do_GET(n, "read-only", TRUE)
             => n \in NoLoadBalance \/ (postgres[n] = "primary" /\ ~is_leader(n))

\* GET /liveness of the node that has the leader key fails only when the key, unless
\* the cycle in progress has renewed it, is about to expire by itself: a restart by
\* the probe takes no key away ("start failing about time when the leader key is
\* expiring", docs/rest_api.rst).
LivenessSparesKey ==
    \A n \in Member : ~do_GET_liveness(n) /\ owner = n => ttl = 0 \/ renewed[n]

\* The load balancer and the probes do no harm.
HealthSafe == HealthTypeOK /\ OneWritable /\ OnePool /\ LivenessSparesKey
=============================================================================
