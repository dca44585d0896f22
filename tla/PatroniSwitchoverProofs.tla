------------------------ MODULE PatroniSwitchoverProofs ------------------------
(***************************************************************************)
(* A switchover makes no second primary and reaches its candidate, for any *)
(* number of nodes, requests and disturbances.  The coordinator of Citus,  *)
(* which hears of the switchovers of the other groups, skips only changes  *)
(* that its table has, for any number of groups, hosts and faults.         *)
(***************************************************************************)
EXTENDS PatroniSwitchover, PatroniCitus, FiniteSetTheorems, WellFoundedInduction, TLAPS

USE PatroniSwitchoverAssumption

-----------------------------------------------------------------------------
(* The inductive invariant.                                                 *)

Owner == Node \union {None}
Key == [id : Request \union {0}, leader : Owner, candidate : Owner, scheduled : BOOLEAN]
View == [leader : Owner, failover : Key, paused : BOOLEAN]
Answered == {"poll", "done", "instead", "failed", "unknown"}
Op == [pc : {"idle", "write", "scheduled"} \union Answered, key : Key, seen : Owner]

Types ==
    /\ leader \in Owner /\ failover \in Key /\ paused \in BOOLEAN /\ due \in BOOLEAN
    /\ pc \in [Node -> {"sleep", "loaded", "race", "removed", "acquired"}]
    /\ view \in [Node -> View]
    /\ pg \in [Node -> {"primary", "replica", "promoting", "stopping", "demoted", "dead"}]
    /\ op \in [Request -> Op]
    /\ toggles \in Nat /\ hands \in Nat /\ deaths \in Nat

\* Nobody but the owner of the key promotes, stops or decides as the leader, and only
\* its Postgres is a primary, unless a role was changed by hand.
Owns ==
    \A n \in Node :
        /\ ~Idle(n) => pc[n] = "sleep"
        /\ pg[n] \in {"promoting", "stopping"} => leader = n
        /\ pc[n] = "loaded" /\ view[n].leader = n => leader = n
        /\ pc[n] = "acquired" => leader = n
        /\ pg[n] = "primary" => leader = n \/ hands > 0

Calm ==
    /\ toggles = 0 => ~paused /\ \A n \in Node : ~view[n].paused
    /\ deaths = 0 => \A n \in Node : pg[n] /= "dead"

\* What a request of the leader First asks for.
Asks(i) ==
    LET k == op[i].key
    IN /\ k.id = i /\ op[i].seen = First
       /\ ~k.scheduled => /\ k.leader \in {None, First} /\ k.candidate /= First
                          /\ k.leader = None => k.candidate /= None

\* The leader First, and the others wait.
FirstLeads ==
    /\ leader = First /\ pc[First] \in {"sleep", "loaded"}
    /\ pc[First] = "loaded" => view[First].leader = First
    /\ \A n \in Node \ {First} : pg[n] = "replica" /\ pc[n] = "sleep"

Before(i) ==
    /\ FirstLeads /\ pg[First] = "primary" /\ failover = NoFailover
    /\ pc[First] = "loaded" => view[First].failover = NoFailover
    /\ op[i].pc = "write" => Asks(i)

\* The stages of a request that some node can serve: the first leader is asked, the
\* key is free, a node has it that the request allows.
Servers(i) == {m \in Node \ {First} : m \notin Lagging /\ op[i].key.candidate \in {None, m}}

Asked(i) ==
    /\ FirstLeads /\ pg[First] \in {"primary", "stopping"} /\ failover = op[i].key
    /\ pc[First] = "loaded" => view[First].failover \in {NoFailover, op[i].key}

Waiting(n) == pg[n] \in {"replica", "demoted"} /\ pc[n] \in {"sleep", "race"}

Free(i) ==
    /\ leader = None /\ failover = op[i].key
    /\ \A n \in Node : Waiting(n) /\ (pc[n] = "race" => view[n].failover = op[i].key)

Served(i) ==
    /\ leader \notin {None, First} /\ op[i].key.candidate \in {None, leader}
    /\ \A n \in Node \ {leader} : Waiting(n)
    /\ pc[leader] \in {"sleep", "loaded", "acquired"}
    /\ pc[leader] = "loaded" => view[leader].leader = leader /\ view[leader].failover = NoFailover
    /\ IF pc[leader] = "acquired" THEN pg[leader] = "replica" /\ view[leader].failover = op[i].key
       ELSE failover = NoFailover /\ pg[leader] \in {"promoting", "primary"}

After(i) ==
    /\ Asks(i) /\ ~op[i].key.scheduled
    /\ Servers(i) /= {} =>
        /\ op[i].pc \notin {"instead", "failed"}
        /\ Asked(i) \/ Free(i) \/ Served(i)

Undisturbed(i) ==
    /\ toggles = 0 /\ hands = 0 /\ deaths = 0
    /\ \A j \in Request \ {i} : op[j].pc = "idle"

Reaches(i) ==
    /\ op[i].pc \in {"idle", "write"} => Before(i)
    /\ op[i].pc \in Answered => After(i)

Alone == \A i \in Request : Undisturbed(i) => Reaches(i)

IInv == Types /\ Owns /\ Calm /\ Alone

-----------------------------------------------------------------------------
(* Types.                                                                   *)

\* What is not there is a key and a view like another.
LEMMA NoKey == NoFailover \in Key /\ NoView \in View /\ NoRequest \in Op /\ None \in Owner
  BY DEF NoFailover, NoView, NoRequest, Key, View, Op, Owner, Request, Answered

\* A key that is cleaned up, or rewritten by the new leader, is a key.
LEMMA KeyWritten ==
  ASSUME Types, NEW n \in Node, CleanUp(n) \/ UpdateFailover(n)
  PROVE  failover' \in Key
<1>1. view[n].failover \in Key
  BY DEF Types, View
<1>2. [view[n].failover EXCEPT !.leader = None] \in Key
  BY <1>1 DEF Key, Owner
<1> QED
  BY <1>1, <1>2, NoKey DEF Types, CleanUp, UpdateFailover, Put

\* The types are kept by every step.
LEMMA TypesStep == Types /\ [Next]_vars => Types'
<1> SUFFICES ASSUME Types, [Next]_vars PROVE Types'
  OBVIOUS
<1> USE NoKey
<1>1. ASSUME NEW n \in Node, load_cluster_from_dcs(n) PROVE Types'
  <2>1. [leader |-> leader, failover |-> failover, paused |-> paused] \in View
    BY DEF Types, View
  <2> QED
    BY <1>1, <2>1 DEF Types, load_cluster_from_dcs, dcs, bounds
<1>2. ASSUME NEW n \in Node, RemoveStale(n) PROVE Types'
  BY <1>2, KeyWritten DEF Types, RemoveStale, bounds
<1>3. ASSUME NEW n \in Node, acquire_lock(n) PROVE Types'
  BY <1>3 DEF Types, acquire_lock, bounds, Owner
<1>4. ASSUME NEW n \in Node, process_unhealthy_cluster(n) PROVE Types'
  BY <1>4, KeyWritten DEF Types, process_unhealthy_cluster, Sleep, bounds
<1>5. ASSUME NEW n \in Node, follow(n) PROVE Types'
  BY <1>5 DEF Types, follow, Sleep, dcs, bounds
<1>6. ASSUME NEW n \in Node, NotLeader(n) PROVE Types'
  BY <1>6 DEF Types, NotLeader, Sleep, dcs, bounds
<1>7. ASSUME NEW n \in Node, _delete_leader(n) PROVE Types'
  BY <1>7 DEF Types, _delete_leader, Sleep, bounds
<1>8. ASSUME NEW n \in Node, enforce_primary_role(n) PROVE Types'
  BY <1>8 DEF Types, enforce_primary_role, Sleep, dcs, bounds
<1>9. ASSUME NEW n \in Node, process_manual_failover_from_leader(n) PROVE Types'
  <2>1. failover' \in Key
    BY <1>9, KeyWritten DEF Types, process_manual_failover_from_leader
  <2>2. pg' \in [Node -> {"primary", "replica", "promoting", "stopping", "demoted", "dead"}]
    BY <1>9 DEF Types, process_manual_failover_from_leader
  <2> QED
    BY <1>9, <2>1, <2>2 DEF Types, process_manual_failover_from_leader, Sleep, bounds
<1>10. ASSUME NEW n \in Node, release_leader_key_voluntarily(n) PROVE Types'
  BY <1>10 DEF Types, release_leader_key_voluntarily, run, bounds
<1>11. ASSUME NEW n \in Node, StartAfterDemotion(n) PROVE Types'
  BY <1>11 DEF Types, StartAfterDemotion, dcs, run, bounds
<1>12. ASSUME NEW n \in Node, promote(n) PROVE Types'
  BY <1>12 DEF Types, promote, dcs, run, bounds
<1>13. ASSUME NEW n \in Node, Hand(n) PROVE Types'
  BY <1>13 DEF Types, Hand, dcs, run
<1>14. ASSUME NEW n \in Node, Dies(n) PROVE Types'
  BY <1>14 DEF Types, Dies
<1>15. ASSUME NEW n \in Node, Returns(n) PROVE Types'
  BY <1>15 DEF Types, Returns, dcs, run, bounds
<1>16. ASSUME NEW i \in Request, do_POST_failover(i) PROVE Types'
  <2> PICK l \in Owner, c \in Owner, s \in BOOLEAN :
        op' = [op EXCEPT ![i] = [pc |-> "write", seen |-> leader,
                 key |-> [id |-> i, leader |-> l, candidate |-> c, scheduled |-> s]]]
    BY <1>16 DEF do_POST_failover, Owner
  <2> DEFINE k == [id |-> i, leader |-> l, candidate |-> c, scheduled |-> s]
  <2>1. k \in Key
    BY DEF Key
  <2>2. [pc |-> "write", key |-> k, seen |-> leader] \in Op
    BY <2>1 DEF Op, Types
  <2>3. op' \in [Request -> Op]
    BY <2>2 DEF Types
  <2> QED
    BY <1>16, <2>3 DEF Types, do_POST_failover, dcs, run, bounds
<1>17. ASSUME NEW i \in Request, manual_failover(i) PROVE Types'
  BY <1>17 DEF Types, manual_failover, Put, Op, Answered, run, bounds
<1>18. ASSUME NEW i \in Request, poll_failover_result(i) PROVE Types'
  BY <1>18 DEF Types, poll_failover_result, Op, Answered, dcs, run, bounds
<1>19. CASE do_DELETE_switchover
  BY <1>19 DEF Types, do_DELETE_switchover, Put, run, bounds
<1>20. CASE toggle_pause
  BY <1>20 DEF Types, toggle_pause, run
<1>21. CASE Time
  BY <1>21 DEF Types, Time, dcs, run, bounds
<1>22. CASE UNCHANGED vars
  BY <1>22 DEF Types, vars, dcs, run, bounds
<1> QED
  BY <1>1, <1>2, <1>3, <1>4, <1>5, <1>6, <1>7, <1>8, <1>9, <1>10, <1>11, <1>12, <1>13,
     <1>14, <1>15, <1>16, <1>17, <1>18, <1>19, <1>20, <1>21, <1>22 DEF Next, Cycle, Thread

-----------------------------------------------------------------------------
(* The owner of the key, and an undisturbed cluster.                        *)

\* Only the owner of the key promotes, stops or decides as the leader: the key is
\* taken when it is free, and it leaves its owner after Postgres has stopped.
LEMMA OwnsStep == Types /\ Owns /\ [Next]_vars => Owns'
<1> SUFFICES ASSUME Types, Owns, [Next]_vars PROVE Owns'
  OBVIOUS
<1>1. ASSUME NEW n \in Node, load_cluster_from_dcs(n) PROVE Owns'
  BY <1>1 DEF Types, Owns, load_cluster_from_dcs, dcs, bounds, Idle
<1>2. ASSUME NEW n \in Node, RemoveStale(n) PROVE Owns'
  BY <1>2 DEF Types, Owns, RemoveStale, bounds, Idle
<1>3. ASSUME NEW n \in Node, acquire_lock(n) PROVE Owns'
  BY <1>3 DEF Types, Owns, acquire_lock, bounds, Idle
<1>4. ASSUME NEW n \in Node, process_unhealthy_cluster(n) PROVE Owns'
  BY <1>4 DEF Types, Owns, process_unhealthy_cluster, Sleep, bounds, Idle
<1>5. ASSUME NEW n \in Node, follow(n) PROVE Owns'
  BY <1>5 DEF Types, Owns, follow, Sleep, dcs, bounds, Idle
<1>6. ASSUME NEW n \in Node, NotLeader(n) PROVE Owns'
  BY <1>6 DEF Types, Owns, NotLeader, Sleep, dcs, bounds, Idle
<1>7. ASSUME NEW n \in Node, _delete_leader(n) PROVE Owns'
  BY <1>7 DEF Types, Owns, _delete_leader, Sleep, bounds, Idle
<1>8. ASSUME NEW n \in Node, enforce_primary_role(n) PROVE Owns'
  BY <1>8 DEF Types, Owns, enforce_primary_role, Leads, Sleep, dcs, bounds, Idle
<1>9. ASSUME NEW n \in Node, process_manual_failover_from_leader(n) PROVE Owns'
  BY <1>9 DEF Types, Owns, process_manual_failover_from_leader, Leads, Sleep, bounds, Idle
<1>10. ASSUME NEW n \in Node, release_leader_key_voluntarily(n) PROVE Owns'
  BY <1>10 DEF Types, Owns, release_leader_key_voluntarily, run, bounds, Idle
<1>11. ASSUME NEW n \in Node, StartAfterDemotion(n) PROVE Owns'
  BY <1>11 DEF Types, Owns, StartAfterDemotion, dcs, run, bounds, Idle
<1>12. ASSUME NEW n \in Node, promote(n) PROVE Owns'
  BY <1>12 DEF Types, Owns, promote, dcs, run, bounds, Idle
<1>13. ASSUME NEW n \in Node, Hand(n) PROVE Owns'
  BY <1>13 DEF Types, Owns, Hand, dcs, run, Idle
<1>14. ASSUME NEW n \in Node, Dies(n) PROVE Owns'
  BY <1>14 DEF Types, Owns, Dies, Idle
<1>15. ASSUME NEW n \in Node, Returns(n) PROVE Owns'
  BY <1>15 DEF Types, Owns, Returns, dcs, run, bounds, Idle
<1>16. ASSUME NEW i \in Request, do_POST_failover(i) PROVE Owns'
  BY <1>16 DEF Owns, do_POST_failover, dcs, run, bounds, Idle
<1>17. ASSUME NEW i \in Request, manual_failover(i) PROVE Owns'
  BY <1>17 DEF Owns, manual_failover, Put, run, bounds, Idle
<1>18. ASSUME NEW i \in Request, poll_failover_result(i) PROVE Owns'
  BY <1>18 DEF Owns, poll_failover_result, dcs, run, bounds, Idle
<1>19. CASE do_DELETE_switchover
  BY <1>19 DEF Owns, do_DELETE_switchover, Put, run, bounds, Idle
<1>20. CASE toggle_pause
  BY <1>20 DEF Owns, toggle_pause, run, Idle
<1>21. CASE Time
  BY <1>21 DEF Owns, Time, dcs, run, bounds, Idle
<1>22. CASE UNCHANGED vars
  BY <1>22 DEF Owns, vars, dcs, run, bounds, Idle
<1> QED
  BY <1>1, <1>2, <1>3, <1>4, <1>5, <1>6, <1>7, <1>8, <1>9, <1>10, <1>11, <1>12,
     <1>13, <1>14, <1>15, <1>16, <1>17, <1>18, <1>19, <1>20, <1>21, <1>22 DEF Next, Cycle, Thread

\* Without a pause nobody has loaded one, and without a death every node answers.
LEMMA CalmStep == Types /\ Calm /\ [Next]_vars => Calm'
<1> SUFFICES ASSUME Types, Calm, [Next]_vars PROVE Calm'
  OBVIOUS
<1>1. ASSUME NEW n \in Node, load_cluster_from_dcs(n) PROVE Calm'
  BY <1>1 DEF Types, Calm, load_cluster_from_dcs, dcs, bounds, NoView
<1>2. ASSUME NEW n \in Node, RemoveStale(n) PROVE Calm'
  BY <1>2 DEF Types, Calm, RemoveStale, bounds, NoView
<1>3. ASSUME NEW n \in Node, acquire_lock(n) PROVE Calm'
  BY <1>3 DEF Types, Calm, acquire_lock, bounds, NoView
<1>4. ASSUME NEW n \in Node, process_unhealthy_cluster(n) PROVE Calm'
  BY <1>4 DEF Types, Calm, process_unhealthy_cluster, Sleep, bounds, NoView
<1>5. ASSUME NEW n \in Node, follow(n) PROVE Calm'
  BY <1>5 DEF Types, Calm, follow, Sleep, dcs, bounds, NoView
<1>6. ASSUME NEW n \in Node, NotLeader(n) PROVE Calm'
  BY <1>6 DEF Types, Calm, NotLeader, Sleep, dcs, bounds, NoView
<1>7. ASSUME NEW n \in Node, _delete_leader(n) PROVE Calm'
  BY <1>7 DEF Types, Calm, _delete_leader, Sleep, bounds, NoView
<1>8. ASSUME NEW n \in Node, enforce_primary_role(n) PROVE Calm'
  BY <1>8 DEF Types, Calm, enforce_primary_role, Leads, Sleep, dcs, bounds, NoView
<1>9. ASSUME NEW n \in Node, process_manual_failover_from_leader(n) PROVE Calm'
  BY <1>9 DEF Types, Calm, process_manual_failover_from_leader, Leads, Sleep, bounds, NoView
<1>10. ASSUME NEW n \in Node, release_leader_key_voluntarily(n) PROVE Calm'
  BY <1>10 DEF Types, Calm, release_leader_key_voluntarily, run, bounds, NoView
<1>11. ASSUME NEW n \in Node, StartAfterDemotion(n) PROVE Calm'
  BY <1>11 DEF Types, Calm, StartAfterDemotion, dcs, run, bounds, NoView
<1>12. ASSUME NEW n \in Node, promote(n) PROVE Calm'
  BY <1>12 DEF Types, Calm, promote, dcs, run, bounds, NoView
<1>13. ASSUME NEW n \in Node, Hand(n) PROVE Calm'
  BY <1>13 DEF Types, Calm, Hand, dcs, run, NoView
<1>14. ASSUME NEW n \in Node, Dies(n) PROVE Calm'
  BY <1>14 DEF Types, Calm, Dies, NoView
<1>15. ASSUME NEW n \in Node, Returns(n) PROVE Calm'
  BY <1>15 DEF Types, Calm, Returns, dcs, run, bounds, NoView
<1>16. ASSUME NEW i \in Request, do_POST_failover(i) PROVE Calm'
  BY <1>16 DEF Calm, do_POST_failover, dcs, run, bounds, NoView
<1>17. ASSUME NEW i \in Request, manual_failover(i) PROVE Calm'
  BY <1>17 DEF Calm, manual_failover, Put, run, bounds, NoView
<1>18. ASSUME NEW i \in Request, poll_failover_result(i) PROVE Calm'
  BY <1>18 DEF Calm, poll_failover_result, dcs, run, bounds, NoView
<1>19. CASE do_DELETE_switchover
  BY <1>19 DEF Calm, do_DELETE_switchover, Put, run, bounds, NoView
<1>20. CASE toggle_pause
  BY <1>20 DEF Types, Calm, toggle_pause, run, NoView
<1>21. CASE Time
  BY <1>21 DEF Calm, Time, dcs, run, bounds, NoView
<1>22. CASE UNCHANGED vars
  BY <1>22 DEF Calm, vars, dcs, run, bounds, NoView
<1> QED
  BY <1>1, <1>2, <1>3, <1>4, <1>5, <1>6, <1>7, <1>8, <1>9, <1>10, <1>11, <1>12,
     <1>13, <1>14, <1>15, <1>16, <1>17, <1>18, <1>19, <1>20, <1>21, <1>22 DEF Next, Cycle, Thread

-----------------------------------------------------------------------------
(* The stages of a request that meets no disturbance.                       *)

\* In an undisturbed cluster nobody is dead and no pause has been loaded.
LEMMA Undisturbing ==
  ASSUME Types, Calm, NEW i \in Request, Undisturbed(i)
  PROVE  Alive = Node /\ ~paused /\ \A n \in Node : ~view[n].paused
  BY DEF Types, Calm, Undisturbed, Alive

\* What was undisturbed after a step was so before it.
LEMMA WasUndisturbed ==
  ASSUME Types, [Next]_vars, NEW i \in Request, Undisturbed(i)'
  PROVE  Undisturbed(i)
<1>1. toggles = 0 /\ hands = 0 /\ deaths = 0
  BY DEF Undisturbed, Types, Next, vars, bounds, Cycle, Thread, load_cluster_from_dcs,
     RemoveStale, acquire_lock, process_unhealthy_cluster, follow, NotLeader, _delete_leader,
     enforce_primary_role, process_manual_failover_from_leader, release_leader_key_voluntarily,
     StartAfterDemotion, promote, Hand, Dies, Returns, do_POST_failover, manual_failover,
     poll_failover_result, do_DELETE_switchover, toggle_pause, Time
<1>2. ASSUME NEW j \in Request, op[j].pc /= "idle" PROVE op'[j].pc /= "idle"
  <2>1. CASE \E k \in Request : do_POST_failover(k)
    BY <1>2, <2>1 DEF Types, do_POST_failover
  <2>2. CASE \E k \in Request : manual_failover(k)
    BY <1>2, <2>2 DEF Types, Op, manual_failover
  <2>3. CASE \E k \in Request : poll_failover_result(k)
    BY <1>2, <2>3 DEF Types, Op, poll_failover_result
  <2>4. CASE op' = op
    BY <1>2, <2>4
  <2> QED
    BY <2>1, <2>2, <2>3, <2>4 DEF Next, vars, Cycle, Thread, load_cluster_from_dcs,
       RemoveStale, acquire_lock, process_unhealthy_cluster, follow, NotLeader,
       _delete_leader, enforce_primary_role, process_manual_failover_from_leader,
       release_leader_key_voluntarily, StartAfterDemotion, promote, Hand, Dies, Returns,
       do_DELETE_switchover, toggle_pause, Time
<1> QED
  BY <1>1, <1>2 DEF Undisturbed

\* Until the request is written, the first leader just leads.
LEMMA BeforeStep ==
  ASSUME Types, Owns, Calm, NEW i \in Request, Undisturbed(i), Before(i),
         NEW n \in Node, Cycle(n) \/ Thread(n)
  PROVE  Before(i)'
<1> USE Undisturbing
<1>1. load_cluster_from_dcs(n) \/ enforce_primary_role(n)
  BY DEF Before, FirstLeads, Types, Idle, Cycle, Thread,
     RemoveStale, acquire_lock, process_unhealthy_cluster, follow, NotLeader, _delete_leader,
     Leads, process_manual_failover_from_leader, release_leader_key_voluntarily,
     StartAfterDemotion, promote
<1>2. CASE load_cluster_from_dcs(n)
  BY <1>2 DEF Before, FirstLeads, Asks, Types, load_cluster_from_dcs, dcs, bounds
<1>3. CASE enforce_primary_role(n)
  BY <1>3 DEF Before, FirstLeads, Asks, Types, enforce_primary_role, Leads, Sleep, dcs, bounds
<1> QED
  BY <1>1, <1>2, <1>3

\* The first leader is fit to serve the request it has loaded: it demotes, and its
\* key goes.
LEMMA AskedStep ==
  ASSUME Types, Owns, Calm, NEW i \in Request, Undisturbed(i), Asks(i), ~op[i].key.scheduled,
         Servers(i) /= {}, Asked(i), NEW n \in Node, Cycle(n) \/ Thread(n)
  PROVE  Asked(i)' \/ Free(i)'
<1> USE Undisturbing
<1>1. \/ load_cluster_from_dcs(n) \/ enforce_primary_role(n)
      \/ process_manual_failover_from_leader(n) \/ release_leader_key_voluntarily(n)
  BY DEF Asked, FirstLeads, Types, Idle, Cycle, Thread,
     RemoveStale, acquire_lock, process_unhealthy_cluster, follow, NotLeader, _delete_leader,
     StartAfterDemotion, promote
<1>2. CASE load_cluster_from_dcs(n)
  BY <1>2 DEF Asked, FirstLeads, Types, load_cluster_from_dcs, dcs, bounds
<1>3. CASE enforce_primary_role(n)
  BY <1>3 DEF Asked, FirstLeads, Types, Idle, enforce_primary_role, Leads, Sleep, dcs, bounds
<1>4. CASE process_manual_failover_from_leader(n)
  <2>1. n = First /\ view[First].failover = op[i].key
    BY <1>4 DEF Asked, FirstLeads, Types, Idle, Leads, process_manual_failover_from_leader
  <2>2. Servable(First)
    BY <2>1 DEF Servable, is_failover_possible, Servers, Asks
  <2>3. pg' = [pg EXCEPT ![First] = "stopping"] /\ UNCHANGED failover
    BY <1>4, <2>1, <2>2 DEF process_manual_failover_from_leader
  <2> QED
    BY <1>4, <2>1, <2>3
    DEF Asked, FirstLeads, Types, process_manual_failover_from_leader, Sleep, bounds
<1>5. CASE release_leader_key_voluntarily(n)
  <2>1. n = First /\ pc[First] = "sleep"
    BY <1>5 DEF Asked, FirstLeads, Owns, Idle, release_leader_key_voluntarily
  <2> QED
    BY <1>5, <2>1
    DEF Asked, Free, Waiting, FirstLeads, Types, release_leader_key_voluntarily, run, bounds
<1> QED
  BY <1>1, <1>2, <1>3, <1>4, <1>5

\* While the key is free only a node that the request allows takes it.
LEMMA FreeStep ==
  ASSUME Types, Owns, Calm, NEW i \in Request, Undisturbed(i), Asks(i), ~op[i].key.scheduled,
         Servers(i) /= {}, Free(i), NEW n \in Node, Cycle(n) \/ Thread(n)
  PROVE  Free(i)' \/ Served(i)'
<1> USE Undisturbing
<1>1. \/ load_cluster_from_dcs(n) \/ acquire_lock(n) \/ follow(n) \/ StartAfterDemotion(n)
  BY DEF Free, Waiting, Types, Leads, Cycle, Thread,
     RemoveStale, process_unhealthy_cluster, NotLeader, _delete_leader, enforce_primary_role,
     process_manual_failover_from_leader, release_leader_key_voluntarily, promote
<1>2. CASE load_cluster_from_dcs(n)
  BY <1>2 DEF Free, Waiting, Types, load_cluster_from_dcs, dcs, bounds
<1>3. CASE acquire_lock(n)
  <2>1. pg[n] = "replica" /\ view[n].failover = op[i].key
    BY <1>3 DEF Free, Waiting, Idle, acquire_lock
  <2>2. manual_failover_process_no_leader(n)
    BY <1>3, <2>1 DEF acquire_lock, is_healthiest_node, Asks, NoFailover, Request
  <2>3. op[i].key.candidate \in {None, n}
    BY <2>1, <2>2 DEF manual_failover_process_no_leader, Types, Op, Key, Owner
  <2>4. n /= First
    BY <2>1, <2>2 DEF manual_failover_process_no_leader, is_failover_possible, Servers, Asks
  <2> QED
    BY <1>3, <2>1, <2>3, <2>4
    DEF Free, Served, Waiting, Types, acquire_lock, bounds
<1>4. CASE follow(n)
  BY <1>4 DEF Free, Waiting, Types, follow, Sleep, dcs, bounds
<1>5. CASE StartAfterDemotion(n)
  BY <1>5 DEF Free, Waiting, Types, StartAfterDemotion, dcs, run, bounds
<1> QED
  BY <1>1, <1>2, <1>3, <1>4, <1>5

\* The new leader removes the request and keeps the key.
LEMMA ServedStep ==
  ASSUME Types, Owns, Calm, NEW i \in Request, Undisturbed(i), Asks(i), ~op[i].key.scheduled,
         Served(i), NEW n \in Node, Cycle(n) \/ Thread(n)
  PROVE  Served(i)'
<1> USE Undisturbing
<1>1. \/ load_cluster_from_dcs(n) \/ process_unhealthy_cluster(n) \/ follow(n)
      \/ enforce_primary_role(n) \/ StartAfterDemotion(n) \/ promote(n)
  BY DEF Served, Waiting, Types, Leads, Idle, Cycle, Thread,
     RemoveStale, acquire_lock, NotLeader, _delete_leader,
     process_manual_failover_from_leader, release_leader_key_voluntarily
<1>2. CASE load_cluster_from_dcs(n)
  BY <1>2 DEF Served, Waiting, Types, load_cluster_from_dcs, dcs, bounds
<1>3. CASE process_unhealthy_cluster(n)
  <2>1. n = leader /\ view[n].failover = op[i].key /\ op[i].key /= NoFailover
    BY <1>3 DEF process_unhealthy_cluster, Served, Waiting, Asks, NoFailover, Request
  <2>2. failover' = NoFailover
    BY <1>3, <2>1 DEF process_unhealthy_cluster, UpdateFailover, Put
  <2> QED
    BY <1>3, <2>1, <2>2 DEF Served, Waiting, Types, process_unhealthy_cluster, Sleep, bounds
<1>4. CASE follow(n)
  BY <1>4 DEF Served, Waiting, Types, follow, Sleep, dcs, bounds
<1>5. CASE enforce_primary_role(n)
  BY <1>5 DEF Served, Waiting, Types, Idle, enforce_primary_role, Leads, Sleep, dcs, bounds
<1>6. CASE StartAfterDemotion(n)
  BY <1>6 DEF Served, Waiting, Types, StartAfterDemotion, dcs, run, bounds
<1>7. CASE promote(n)
  BY <1>7 DEF Served, Waiting, Types, promote, dcs, run, bounds
<1> QED
  BY <1>1, <1>2, <1>3, <1>4, <1>5, <1>6, <1>7

\* A request is asked, and what it asks is written and awaited.
LEMMA OperatorStep ==
  ASSUME Types, Calm, NEW i \in Request, Undisturbed(i), Reaches(i),
         do_POST_failover(i) \/ manual_failover(i) \/ poll_failover_result(i)
  PROVE  Reaches(i)'
<1> USE Undisturbing
<1>1. CASE do_POST_failover(i)
  <2>1. Before(i)
    BY <1>1 DEF Reaches, do_POST_failover
  <2>2. op'[i].pc = "write" /\ Asks(i)'
    BY <1>1, <2>1 DEF do_POST_failover, Acceptable, Asks, Before, FirstLeads, Types
  <2> QED
    BY <1>1, <2>1, <2>2
    DEF Reaches, Before, FirstLeads, Answered, do_POST_failover, dcs, run, bounds
<1>2. CASE manual_failover(i)
  <2>1. Before(i) /\ Asks(i)
    BY <1>2 DEF Reaches, Before, manual_failover
  <2>2. op'[i].key = op[i].key /\ op'[i].seen = op[i].seen
    BY <1>2 DEF manual_failover, Types, Op
  <2>3. CASE op[i].key.scheduled
    BY <1>2, <2>3 DEF Reaches, Answered, manual_failover, Types, Op
  <2>4. CASE ~op[i].key.scheduled
    <3>1. op'[i].pc = "poll" /\ Asked(i)'
      BY <1>2, <2>1, <2>2, <2>4
      DEF manual_failover, Put, Before, Asked, FirstLeads, Types, run, bounds
    <3> QED
      BY <2>1, <2>2, <2>4, <3>1 DEF Reaches, After, Asks, Answered
  <2> QED
    BY <2>3, <2>4
<1>3. CASE poll_failover_result(i)
  <2>1. After(i)
    BY <1>3 DEF Reaches, Answered, poll_failover_result
  <2>2. op'[i].key = op[i].key /\ op'[i].seen = op[i].seen
    BY <1>3 DEF poll_failover_result, Types, Op
  <2>3. op'[i].pc \in Answered
    BY <1>3 DEF Answered, poll_failover_result, Types, Op
  <2>4. ASSUME Servers(i) /= {} PROVE op'[i].pc \notin {"instead", "failed"}
    <3>1. failover = NoFailover => Served(i)
      BY <2>1, <2>4 DEF After, Asked, Free, Asks, NoFailover, Request
    <3>2. leader \notin {None, First} => Served(i)
      BY <2>1, <2>4 DEF After, Asked, Free, FirstLeads
    <3>3. op[i].seen = First
      BY <2>1 DEF After, Asks
    <3> QED
      BY <1>3, <3>1, <3>2, <3>3 DEF poll_failover_result, Served, Types, Op
  <2>5. Asks(i)' /\ Servers(i)' = Servers(i)
    BY <2>1, <2>2 DEF After, Asks, Servers
  <2>6. /\ Asked(i) => Asked(i)'
        /\ Free(i) => Free(i)'
        /\ Served(i) => Served(i)'
    BY <1>3, <2>2
    DEF Asked, Free, Served, FirstLeads, Waiting, poll_failover_result, dcs, run
  <2> QED
    BY <2>1, <2>2, <2>3, <2>4, <2>5, <2>6 DEF Reaches, After, Answered
<1> QED
  BY <1>1, <1>2, <1>3

\* A step that changes neither request nor counters keeps what the request asks for.
LEMMA SameRequest ==
  ASSUME NEW i \in Request, op' = op
  PROVE  /\ Asks(i)' = Asks(i) /\ Servers(i)' = Servers(i)
         /\ op'[i].pc = op[i].pc /\ op'[i].key = op[i].key
  BY DEF Asks, Servers

\* Every node's step keeps a request on its way.
LEMMA NodeStep ==
  ASSUME Types, Owns, Calm, NEW i \in Request, Undisturbed(i), Reaches(i),
         NEW n \in Node, Cycle(n) \/ Thread(n)
  PROVE  Reaches(i)'
<1>1. op' = op
  BY DEF Cycle, Thread, load_cluster_from_dcs, RemoveStale, acquire_lock,
     process_unhealthy_cluster, follow, NotLeader, _delete_leader, enforce_primary_role,
     process_manual_failover_from_leader, release_leader_key_voluntarily,
     StartAfterDemotion, promote
<1>2. Before(i) => Before(i)'
  BY BeforeStep
<1>3. ASSUME After(i) PROVE After(i)'
  <2>1. Asks(i) /\ ~op[i].key.scheduled
    BY <1>3 DEF After
  <2>2. ASSUME Servers(i) /= {} PROVE Asked(i)' \/ Free(i)' \/ Served(i)'
    BY <1>3, <2>1, <2>2, AskedStep, FreeStep, ServedStep DEF After
  <2> QED
    BY <1>1, <1>3, <2>2, SameRequest DEF After
<1> QED
  BY <1>1, <1>2, <1>3 DEF Reaches

\* Whatever step is taken, a request that stays undisturbed stays on its way.
LEMMA AloneStep == Types /\ Owns /\ Calm /\ Alone /\ [Next]_vars => Alone'
<1> SUFFICES ASSUME Types, Owns, Calm, Alone, [Next]_vars, NEW i \in Request, Undisturbed(i)'
             PROVE  Reaches(i)'
  BY DEF Alone
<1>1. Undisturbed(i) /\ Reaches(i)
  BY WasUndisturbed DEF Alone
<1>2. CASE \E n \in Node : Cycle(n) \/ Thread(n)
  BY <1>1, <1>2, NodeStep
<1>3. CASE \E n \in Node : Hand(n) \/ Dies(n) \/ Returns(n)
  BY <1>1, <1>3 DEF Undisturbed, Calm, Types, Hand, Dies, Returns
<1>4. CASE \E j \in Request : do_POST_failover(j) \/ manual_failover(j) \/ poll_failover_result(j)
  <2> PICK j \in Request : do_POST_failover(j) \/ manual_failover(j) \/ poll_failover_result(j)
    BY <1>4
  <2>1. op'[j].pc /= "idle"
    <3>1. CASE do_POST_failover(j)
      BY <3>1 DEF do_POST_failover, Types
    <3>2. CASE manual_failover(j)
      BY <3>2 DEF manual_failover, Types, Op
    <3>3. CASE poll_failover_result(j)
      BY <3>3 DEF poll_failover_result, Types, Op
    <3> QED
      BY <3>1, <3>2, <3>3
  <2>2. j = i
    BY <2>1 DEF Undisturbed
  <2> QED
    BY <1>1, <2>2, OperatorStep
<1>5. CASE do_DELETE_switchover
  <2>1. /\ Before(i) => Before(i)'
        /\ After(i) => After(i)'
    BY <1>5, SameRequest
    DEF do_DELETE_switchover, Put, Before, After, Asked, Free, Served, FirstLeads, Waiting,
        Asks, Servers, NoFailover, run
  <2> QED
    BY <1>1, <1>5, <2>1 DEF Reaches, do_DELETE_switchover
<1>6. CASE toggle_pause
  BY <1>1, <1>6 DEF Undisturbed, Types, toggle_pause
<1>7. CASE Time \/ UNCHANGED vars
  BY <1>1, <1>7
  DEF Time, vars, dcs, run, bounds, Reaches, Before, After, Asked, Free, Served, FirstLeads,
      Waiting, Asks, Servers
<1> QED
  BY <1>2, <1>3, <1>4, <1>5, <1>6, <1>7 DEF Next

-----------------------------------------------------------------------------
(* The theorem.                                                             *)

\* The invariant holds at first.
LEMMA IInvInit == Init => IInv
<1> SUFFICES ASSUME Init PROVE IInv
  OBVIOUS
<1>1. Types
  BY NoKey DEF Init, Types, Owner, Request
<1>2. Owns /\ Calm
  BY DEF Init, Owns, Calm, Idle, NoView
<1>3. ASSUME NEW i \in Request PROVE Reaches(i)
  BY <1>3 DEF Init, Reaches, Before, FirstLeads, NoRequest, Answered
<1> QED
  BY <1>1, <1>2, <1>3 DEF IInv, Alone

\* With no role changed by hand every primary owns the key.
LEMMA OnePrimary == Types /\ Owns => SinglePrimary
<1> SUFFICES ASSUME Types, Owns, hands = 0 PROVE Cardinality(Primaries) <= 1
  BY DEF SinglePrimary
<1>1. Primaries \subseteq {leader}
  BY DEF Owns, Primaries
<1>2. IsFiniteSet({leader}) /\ Cardinality({leader}) = 1
  BY FS_Singleton
<1>3. Cardinality(Primaries) <= Cardinality({leader})
  BY <1>1, <1>2, FS_Subset
<1> QED
  BY <1>2, <1>3

\* An undisturbed request that some member can serve is on its way to that member.
LEMMA AloneReaches == Types /\ Alone => RequestReaches
<1> SUFFICES ASSUME Types, Alone, NEW i \in Request, op[i].pc \in {"instead", "failed"},
                    deaths = 0, hands = 0, toggles = 0,
                    \A j \in Request \ {i} : op[j].pc = "idle"
             PROVE  \/ \A m \in Node \ {op[i].seen} :
                         m \in Lagging /\ op[i].key.candidate \in {None, m}
                    \/ op[i].key.candidate \in Lagging
  BY DEF RequestReaches, Types
<1>1. After(i)
  BY DEF Alone, Undisturbed, Reaches, Answered
<1>2. Servers(i) = {} /\ op[i].seen = First
  BY <1>1 DEF After, Asks
<1>3. op[i].key.candidate \in Owner /\ op[i].key.candidate /= First
  BY <1>1 DEF After, Asks, Types, Op, Key
<1> QED
  BY <1>2, <1>3 DEF Servers, Owner

\* A switchover makes no second primary: the old one has stopped before its key goes, and who
\* promotes owns it.  And a request that is alone and undisturbed is never
\* answered with another leader, nor as failed, while some member is fit for it.
THEOREM SwitchoverIsSafe == Spec => []SwitchoverSafe
<1>1. IInv /\ [Next]_vars => IInv'
  BY TypesStep, OwnsStep, CalmStep, AloneStep DEF IInv
<1>2. IInv => SwitchoverSafe
  <2>1. Types /\ Owns => TypeOK
    BY DEF Types, Owns, TypeOK, Owner, Key
  <2> QED
    BY <2>1, OnePrimary, AloneReaches DEF IInv, SwitchoverSafe
<1> QED
  BY <1>1, <1>2, IInvInit, PTL DEF Spec

HIDE PatroniSwitchoverAssumption

-----------------------------------------------------------------------------
(* Citus: the inductive invariant.                                         *)

\* A task of a group: its address is one of the group, paused before a demotion
\* only, and the coordinator is only registered.
IsTask(t) ==
    /\ t \in Task /\ t.row.host \in CitusHosts[t.group]
    /\ (t.row.demoted <=> t.event = "before_demote") /\ (t.group = 0 => t.event = "after_promote")

Tasks(ts) ==
    /\ ts \in Seq(Task) /\ \A i \in DOMAIN ts : IsTask(ts[i])
    /\ \A i, j \in DOMAIN ts : ts[i].group = ts[j].group => i = j

Working == stage \in {"update", "commit", "finish"}
Committed == stage = "finish" /\ changed = TRUE
Opened == stage = "finish" /\ changed = FALSE
Registers == serving \in {"primary", "down"} /\ ~orphaned
Queued(g) == \E i \in DOMAIN tasks : tasks[i].group = g
Pending(g) == in_flight /= Nothing /\ in_flight.group = g

CitusTypes ==
    /\ db \in Rows /\ tx \in Rows \cup {Nothing}
    /\ serving \in {"primary", "stopping", "demoted", "down", "replica"}
    /\ \A g \in CitusGroup : group_leader[g] \in CitusHosts[g]
    /\ group_leader \in [CitusGroup -> UNION {CitusHosts[g] : g \in CitusGroup}]
    /\ cache \in [CitusGroup -> {Nothing} \cup Entry]
    /\ Tasks(tasks)
    /\ in_flight /= Nothing => IsTask(in_flight) /\ in_flight.event /= "after_promote"
    /\ stage \in {"wait", "next", "load", "update", "commit", "finish"}
    /\ load \in BOOLEAN /\ orphaned \in BOOLEAN /\ faults \in 0 .. MaxFaults
    /\ synced \subseteq CitusGroup \ {0}

\* The thread.  The task in hand stays where it was found, unless on_demote
\* has taken all of them.
InHand ==
    /\ Working <=> hand /= Nothing
    /\ Working => IsTask(hand) /\ idx \in Nat \ {0}
    /\ stage \notin {"commit", "finish"} => changed = Nothing
    /\ stage = "commit" => changed = TRUE
    /\ stage = "finish" => changed \in {TRUE, FALSE, Nothing}
    /\ stage \in {"commit", "finish"} /\ changed = TRUE => hand.event = "after_promote"
    /\ Opened => hand.event /= "after_promote"
    /\ stage = "load" => in_flight = Nothing
    /\ stage = "finish" /\ changed = Nothing => in_flight = Nothing
    /\ Working /\ in_flight /= Nothing => in_flight.group = hand.group /\ tasks /= <<>>
    /\ Working /\ serving \in {"primary", "down", "replica"} => idx \in DOMAIN tasks /\ tasks[idx].group = hand.group

\* A transaction that the handler keeps track of is the one of the group in
\* flight, and holds nothing else that the table does not have.
TxKnown ==
    /\ in_flight /= Nothing /\ ~Committed => tx /= Nothing
    /\ Opened => tx /= Nothing
    /\ tx /= Nothing => in_flight /= Nothing \/ Opened
    /\ tx /= Nothing => \A g \in CitusGroup : tx[g] /= db[g] => Pending(g) \/ (Opened /\ g = hand.group)
    /\ in_flight /= Nothing /\ in_flight.event = "before_promote" /\ stage \notin {"commit", "finish"}
          => tx[in_flight.group] = in_flight.row
    /\ Opened /\ hand.event = "before_promote" => tx[hand.group] = hand.row
    /\ stage = "commit" => Now[hand.group] = hand.row
    /\ Committed => tx = Nothing /\ db[hand.group] = hand.row
    /\ serving = "replica" => stage /= "commit" /\ ~Committed
          /\ (in_flight /= Nothing => in_flight.event = "before_demote")
          /\ (Opened => hand.event = "before_demote")
Tx == (serving \in {"down", "demoted"} => tx = Nothing) /\ (~orphaned => TxKnown)

\* The cache of the primary is the table, save for the task in hand.
CacheRight ==
    Registers /\ ~load /\ stage /= "load" => \A g \in CitusGroup :
        cache[g] /= Nothing => cache[g].row = db[g] \/ (stage \in {"commit", "finish"} /\ changed = TRUE /\ hand.group = g)

\* What the HA loop has asked for is queued, in flight or done.
AskedFor ==
    /\ \A g \in synced : \A i \in DOMAIN tasks : tasks[i].group = g => tasks[i].row.host = group_leader[g]
    /\ Registers => \A g \in synced : Queued(g) \/ Pending(g) \/ db[g] = Row(group_leader[g], FALSE)

CitusIInv == CitusTypes /\ InHand /\ Tx /\ CacheRight /\ AskedFor

-----------------------------------------------------------------------------
(* Citus: sequences of tasks.                                              *)

LEMMA FirstOfIs ==
  ASSUME NEW n \in Nat, NEW S \in SUBSET (1 .. n)
  PROVE  /\ S = {} => FirstOf(S) = 0
         /\ S /= {} => FirstOf(S) \in S /\ \A x \in S : FirstOf(S) <= x
  <1>1. S = {} => FirstOf(S) = 0
    BY DEF FirstOf
  <1>2. ASSUME S /= {} PROVE FirstOf(S) \in S /\ \A x \in S : FirstOf(S) <= x
    <2>0. S \subseteq Nat
      OBVIOUS
    <2>1. PICK x \in S : \A y \in S : ~(<<y, x>> \in OpToRel(<, Nat))
      BY <1>2, <2>0, WFMin, NatLessThanWellFounded
    <2>2. ASSUME NEW y \in S PROVE x <= y
      <3>1. ~(y < x)
        BY <2>0, <2>1 DEF OpToRel
      <3> QED BY <2>0, <3>1
    <2>3. FirstOf(S) = CHOOSE z \in S : \A y \in S : z <= y
      BY <1>2 DEF FirstOf, Min
    <2> QED BY <2>2, <2>3
  <1> QED BY <1>1, <1>2

LEMMA FindIs ==
  ASSUME NEW ts \in Seq(Task), NEW g
  PROVE  LET i == find_task_by_group(ts, g)
         IN  /\ i \in 0 .. Len(ts)
             /\ i = 0 => \A j \in DOMAIN ts : ts[j].group /= g
             /\ i /= 0 => i \in DOMAIN ts /\ ts[i].group = g
  <1> DEFINE S == {i \in DOMAIN ts : ts[i].group = g}
  <1>1. Len(ts) \in Nat /\ S \in SUBSET (1 .. Len(ts)) /\ DOMAIN ts = 1 .. Len(ts)
    OBVIOUS
  <1>2. find_task_by_group(ts, g) = FirstOf(S)
    BY DEF find_task_by_group
  <1> HIDE DEF S
  <1>3. /\ S = {} => FirstOf(S) = 0
        /\ S /= {} => FirstOf(S) \in S
    BY <1>1, FirstOfIs
  <1>4. CASE S = {}
    <2>1. FirstOf(S) = 0
      BY <1>3, <1>4
    <2>2. \A j \in DOMAIN ts : ts[j].group /= g
      BY <1>4 DEF S
    <2> QED BY <1>1, <1>2, <2>1, <2>2
  <1>5. CASE S /= {}
    <2>1. FirstOf(S) \in S
      BY <1>3, <1>5
    <2>2. FirstOf(S) \in DOMAIN ts /\ ts[FirstOf(S)].group = g
      BY <2>1 DEF S
    <2> QED BY <1>1, <1>2, <2>2
  <1> QED BY <1>4, <1>5

LEMMA RemoveAtIs ==
  ASSUME NEW ts \in Seq(Task), NEW i \in DOMAIN ts
  PROVE  /\ RemoveAt(ts, i) \in Seq(Task) /\ Len(RemoveAt(ts, i)) = Len(ts) - 1
         /\ \A j \in DOMAIN RemoveAt(ts, i) : RemoveAt(ts, i)[j] = IF j < i THEN ts[j] ELSE ts[j + 1]
  <1> DEFINE p == SubSeq(ts, 1, i - 1)
             q == SubSeq(ts, i + 1, Len(ts))
  <1>1. i \in Nat /\ 1 <= i /\ i <= Len(ts) /\ Len(ts) \in Nat
    OBVIOUS
  <1>2. p \in Seq(Task) /\ Len(p) = i - 1 /\ \A j \in 1 .. i - 1 : p[j] = ts[j]
    BY <1>1
  <1>3. q \in Seq(Task) /\ Len(q) = Len(ts) - i /\ \A j \in 1 .. Len(ts) - i : q[j] = ts[i + j]
    BY <1>1
  <1>4. RemoveAt(ts, i) = p \o q
    BY DEF RemoveAt
  <1> HIDE DEF p, q
  <1>5. p \o q \in Seq(Task) /\ Len(p \o q) = Len(ts) - 1
    BY <1>1, <1>2, <1>3
  <1>6. DOMAIN (p \o q) = 1 .. Len(ts) - 1
    BY <1>5
  <1>7. ASSUME NEW j \in 1 .. Len(ts) - 1, j < i PROVE (p \o q)[j] = ts[j]
    BY <1>1, <1>2, <1>3, <1>7
  <1>8. ASSUME NEW j \in 1 .. Len(ts) - 1, j >= i PROVE (p \o q)[j] = ts[j + 1]
    <2>1. (p \o q)[j] = q[j - (i - 1)] /\ j - (i - 1) \in 1 .. Len(ts) - i
      BY <1>1, <1>2, <1>3, <1>8
    <2>2. q[j - (i - 1)] = ts[i + (j - (i - 1))] /\ i + (j - (i - 1)) = j + 1
      BY <1>1, <1>3, <2>1
    <2> QED BY <2>1, <2>2
  <1> DEFINE r == p \o q
  <1>9. r \in Seq(Task) /\ Len(r) = Len(ts) - 1 /\ DOMAIN r = 1 .. Len(ts) - 1 /\ RemoveAt(ts, i) = r
    BY <1>4, <1>5, <1>6
  <1>10. \A j \in 1 .. Len(ts) - 1 : r[j] = IF j < i THEN ts[j] ELSE ts[j + 1]
    <2>1. \A j \in 1 .. Len(ts) - 1 : (j < i => r[j] = ts[j]) /\ (j >= i => r[j] = ts[j + 1])
      BY <1>7, <1>8
    <2>2. \A j \in 1 .. Len(ts) - 1 : j < i \/ j >= i
      BY <1>1
    <2> HIDE DEF r
    <2> QED BY <2>1, <2>2
  <1> HIDE DEF r
  <1> QED BY <1>9, <1>10

\* Taking one task away leaves tasks of different groups.
LEMMA RemoveAtTasks ==
  ASSUME NEW ts, Tasks(ts), NEW i \in DOMAIN ts
  PROVE  /\ Tasks(RemoveAt(ts, i))
         /\ \A j \in DOMAIN RemoveAt(ts, i) : \E k \in DOMAIN ts : RemoveAt(ts, i)[j] = ts[k]
         /\ \A k \in DOMAIN ts : k = i \/ \E j \in DOMAIN RemoveAt(ts, i) : RemoveAt(ts, i)[j] = ts[k]
  <1> DEFINE us == RemoveAt(ts, i)
  <1>1. ts \in Seq(Task) /\ \A j \in DOMAIN ts : IsTask(ts[j])
    BY DEF Tasks
  <1>2. \A j, k \in DOMAIN ts : ts[j].group = ts[k].group => j = k
    BY DEF Tasks
  <1>3. /\ us \in Seq(Task) /\ Len(us) = Len(ts) - 1
        /\ \A j \in DOMAIN us : us[j] = IF j < i THEN ts[j] ELSE ts[j + 1]
    BY <1>1, RemoveAtIs
  <1>4. Len(ts) \in Nat /\ DOMAIN ts = 1 .. Len(ts) /\ i \in 1 .. Len(ts) /\ DOMAIN us = 1 .. Len(ts) - 1
    BY <1>1, <1>3
  <1> HIDE DEF us
  <1> DEFINE At(j) == IF j < i THEN j ELSE j + 1
  <1>5. \A j \in DOMAIN us : At(j) \in DOMAIN ts /\ us[j] = ts[At(j)]
    BY <1>3, <1>4
  <1>6. \A j, k \in DOMAIN us : At(j) = At(k) => j = k
    BY <1>4
  <1>7. \A j \in DOMAIN us : IsTask(us[j])
    <2> HIDE DEF At
    <2> QED BY <1>1, <1>5
  <1>8. \A j, k \in DOMAIN us : us[j].group = us[k].group => j = k
    <2> HIDE DEF At
    <2> QED BY <1>2, <1>5, <1>6
  <1>9. ASSUME NEW k \in DOMAIN ts, k /= i PROVE \E j \in DOMAIN us : us[j] = ts[k]
    <2>1. CASE k < i
      <3>1. k \in DOMAIN us /\ us[k] = ts[k]
        BY <1>3, <1>4, <2>1
      <3> QED BY <3>1
    <2>2. CASE k > i
      <3>1. k - 1 \in DOMAIN us /\ us[k - 1] = ts[(k - 1) + 1] /\ (k - 1) + 1 = k
        BY <1>3, <1>4, <2>2
      <3>2. us[k - 1] = ts[k]
        BY <3>1
      <3> QED BY <3>1, <3>2
    <2> QED BY <1>4, <1>9, <2>1, <2>2
  <1>10. \A j \in DOMAIN us : \E k \in DOMAIN ts : us[j] = ts[k]
    <2> HIDE DEF At
    <2> QED BY <1>5
  <1>11. Tasks(us)
    BY <1>3, <1>7, <1>8 DEF Tasks
  <1> QED BY <1>9, <1>10, <1>11 DEF us

\* What is kept of the tasks from one of them on.
LEMMA SubSeqTasks ==
  ASSUME NEW ts, Tasks(ts), NEW i \in DOMAIN ts
  PROVE  /\ Tasks(SubSeq(ts, i, Len(ts)))
         /\ \A j \in DOMAIN SubSeq(ts, i, Len(ts)) : \E k \in DOMAIN ts : SubSeq(ts, i, Len(ts))[j] = ts[k]
         /\ \A k \in DOMAIN ts : k < i \/ \E j \in DOMAIN SubSeq(ts, i, Len(ts)) : SubSeq(ts, i, Len(ts))[j] = ts[k]
  <1> DEFINE us == SubSeq(ts, i, Len(ts))
  <1>1. ts \in Seq(Task) /\ \A j \in DOMAIN ts : IsTask(ts[j])
    BY DEF Tasks
  <1>2. \A j, k \in DOMAIN ts : ts[j].group = ts[k].group => j = k
    BY DEF Tasks
  <1>3. Len(ts) \in Nat /\ DOMAIN ts = 1 .. Len(ts) /\ i \in 1 .. Len(ts)
    BY <1>1
  <1>4. us \in Seq(Task) /\ Len(us) = Len(ts) - i + 1 /\ \A j \in 1 .. Len(ts) - i + 1 : us[j] = ts[i + j - 1]
    BY <1>1, <1>3
  <1> HIDE DEF us
  <1>5. DOMAIN us = 1 .. Len(ts) - i + 1
    BY <1>4
  <1>6. \A j \in DOMAIN us : i + j - 1 \in DOMAIN ts /\ us[j] = ts[i + j - 1]
    BY <1>3, <1>4, <1>5
  <1>7. \A j \in DOMAIN us : IsTask(us[j])
    BY <1>1, <1>6
  <1>8. \A j, k \in DOMAIN us : us[j].group = us[k].group => j = k
    <2> SUFFICES ASSUME NEW j \in DOMAIN us, NEW k \in DOMAIN us, us[j].group = us[k].group
                 PROVE  j = k
      OBVIOUS
    <2>1. i + j - 1 = i + k - 1
      BY <1>2, <1>6
    <2> QED BY <1>3, <1>5, <2>1
  <1>9. ASSUME NEW k \in DOMAIN ts, ~(k < i) PROVE \E j \in DOMAIN us : us[j] = ts[k]
    <2>1. k - i + 1 \in DOMAIN us /\ us[k - i + 1] = ts[i + (k - i + 1) - 1] /\ i + (k - i + 1) - 1 = k
      BY <1>3, <1>4, <1>5, <1>9
    <2>2. us[k - i + 1] = ts[k]
      BY <2>1
    <2> QED BY <2>1, <2>2
  <1>10. \A j \in DOMAIN us : \E k \in DOMAIN ts : us[j] = ts[k]
    BY <1>6
  <1>11. Tasks(us)
    BY <1>4, <1>7, <1>8 DEF Tasks
  <1> QED BY <1>9, <1>10, <1>11 DEF us

LEMMA NoTasks == Tasks(<<>>)
  BY DEF Tasks

USE CitusAssumption

\* The tasks from the first one on that is not the cache.
Unlike(ts) == {i \in DOMAIN ts : ~Equal(ts[i], cache[ts[i].group])}
From(ts) == IF FirstOf(Unlike(ts)) = 0 THEN <<>> ELSE SubSeq(ts, FirstOf(Unlike(ts)), Len(ts))

LEMMA FromIs ==
  ASSUME NEW ts, Tasks(ts)
  PROVE  /\ Tasks(From(ts))
         /\ \A j \in DOMAIN From(ts) : \E k \in DOMAIN ts : From(ts)[j] = ts[k]
         /\ \A k \in DOMAIN ts : Equal(ts[k], cache[ts[k].group]) \/ \E j \in DOMAIN From(ts) : From(ts)[j] = ts[k]
  <1> DEFINE first == FirstOf(Unlike(ts))
  <1>1. ts \in Seq(Task) /\ Len(ts) \in Nat /\ DOMAIN ts = 1 .. Len(ts)
    BY DEF Tasks
  <1>2. Unlike(ts) \in SUBSET (1 .. Len(ts))
    BY <1>1 DEF Unlike
  <1>3. /\ Unlike(ts) = {} => first = 0
        /\ Unlike(ts) /= {} => first \in Unlike(ts) /\ \A x \in Unlike(ts) : first <= x
    BY <1>1, <1>2, FirstOfIs
  <1>4. CASE Unlike(ts) = {}
    <2>1. From(ts) = <<>>
      BY <1>3, <1>4 DEF From
    <2>2. \A k \in DOMAIN ts : Equal(ts[k], cache[ts[k].group])
      BY <1>4 DEF Unlike
    <2>3. \A j \in DOMAIN From(ts) : FALSE
      BY <2>1
    <2> QED BY <2>1, <2>2, <2>3, NoTasks
  <1>5. CASE Unlike(ts) /= {}
    <2>1. first \in DOMAIN ts /\ first /= 0
      BY <1>1, <1>2, <1>3, <1>5
    <2>2. From(ts) = SubSeq(ts, first, Len(ts))
      BY <2>1 DEF From
    <2>3. \A k \in DOMAIN ts : k < first => Equal(ts[k], cache[ts[k].group])
      <3>1. \A k \in DOMAIN ts : k < first => k \notin Unlike(ts)
        BY <1>1, <1>2, <1>3, <1>5, <2>1
      <3> QED BY <3>1 DEF Unlike
    <2> DEFINE us == SubSeq(ts, first, Len(ts))
    <2> HIDE DEF first
    <2>4. /\ Tasks(us)
          /\ \A j \in DOMAIN us : \E k \in DOMAIN ts : us[j] = ts[k]
          /\ \A k \in DOMAIN ts : k < first \/ \E j \in DOMAIN us : us[j] = ts[k]
      BY <2>1, SubSeqTasks
    <2>5. From(ts) = us
      BY <2>2
    <2> HIDE DEF us
    <2> QED BY <2>3, <2>4, <2>5
  <1> QED BY <1>4, <1>5

\* What pick_task leaves are tasks of before, and those it drops are the cache.
LEMMA KeptIs ==
  ASSUME Tasks(tasks)
  PROVE  /\ Tasks(Kept)
         /\ \A j \in DOMAIN Kept : \E k \in DOMAIN tasks : Kept[j] = tasks[k]
         /\ \A k \in DOMAIN tasks : \/ in_flight = Nothing /\ Equal(tasks[k], cache[tasks[k].group])
                                    \/ \E j \in DOMAIN Kept : Kept[j] = tasks[k]
  <1> DEFINE zero == find_task_by_group(tasks, 0)
             matches == zero /= 0 /\ Equal(tasks[zero], cache[0])
             rest == IF matches THEN RemoveAt(tasks, zero) ELSE tasks
  <1>1. CASE in_flight /= Nothing \/ (zero /= 0 /\ ~matches)
    <2>1. Kept = tasks
      BY <1>1 DEF Kept
    <2> QED BY <2>1
  <1>2. CASE ~(in_flight /= Nothing \/ (zero /= 0 /\ ~matches))
    <2>1. Kept = From(rest)
      BY <1>2 DEF Kept, From, Unlike
    <2>2. zero /= 0 => zero \in DOMAIN tasks /\ tasks[zero].group = 0
      BY FindIs DEF Tasks
    <2> DEFINE Same(t) == Equal(t, cache[t.group])
    <2>3. /\ Tasks(rest)
          /\ \A j \in DOMAIN rest : \E k \in DOMAIN tasks : rest[j] = tasks[k]
          /\ \A k \in DOMAIN tasks : Same(tasks[k]) \/ \E j \in DOMAIN rest : rest[j] = tasks[k]
      <3>1. CASE matches
        <4>1. rest = RemoveAt(tasks, zero) /\ zero \in DOMAIN tasks
          BY <2>2, <3>1
        <4>2. Same(tasks[zero])
          BY <2>2, <3>1
        <4> HIDE DEF rest, Same, zero
        <4> QED BY <4>1, <4>2, RemoveAtTasks
      <3>2. CASE ~matches
        BY <3>2
      <3> QED BY <3>1, <3>2
    <2> HIDE DEF rest
    <2>4. /\ Tasks(From(rest))
          /\ \A j \in DOMAIN From(rest) : \E k \in DOMAIN rest : From(rest)[j] = rest[k]
          /\ \A k \in DOMAIN rest : Same(rest[k]) \/ \E j \in DOMAIN From(rest) : From(rest)[j] = rest[k]
      BY <2>3, FromIs
    <2> DEFINE left == From(rest)
    <2> HIDE DEF Same, left
    <2>5. \A j \in DOMAIN left : \E k \in DOMAIN tasks : left[j] = tasks[k]
      BY <2>3, <2>4 DEF left
    <2>6. \A k \in DOMAIN tasks : Same(tasks[k]) \/ \E j \in DOMAIN left : left[j] = tasks[k]
      BY <2>3, <2>4 DEF left
    <2>7. in_flight = Nothing
      BY <1>2
    <2> QED BY <2>1, <2>4, <2>5, <2>6, <2>7 DEF Same, left
  <1> QED BY <1>1, <1>2

\* What process_tasks leaves; it takes the task in hand or none.
LEMMA PoppedIs ==
  ASSUME Tasks(tasks), idx \in Nat \ {0}
  PROVE  /\ Tasks(Popped(tasks))
         /\ \A j \in DOMAIN Popped(tasks) : \E k \in DOMAIN tasks : Popped(tasks)[j] = tasks[k]
         /\ \A k \in DOMAIN tasks :
               \/ k = idx /\ tasks[k].group = hand.group /\ tasks[k].row = hand.row /\ tasks[k].event = hand.event
               \/ \E j \in DOMAIN Popped(tasks) : Popped(tasks)[j] = tasks[k]
  <1> DEFINE found == idx <= Len(tasks) /\ tasks[idx].event = hand.event /\ tasks[idx].row = hand.row /\ tasks[idx].group = hand.group
  <1>1. CASE found
    <2>1. Popped(tasks) = RemoveAt(tasks, idx)
      BY <1>1 DEF Popped
    <2>2. idx \in DOMAIN tasks
      BY <1>1 DEF Tasks
    <2> QED BY <1>1, <2>1, <2>2, RemoveAtTasks
  <1>2. CASE ~found
    <2>1. Popped(tasks) = tasks
      BY <1>2 DEF Popped
    <2> QED BY <2>1
  <1> QED BY <1>1, <1>2

\* _add_task keeps the place of every group; a task that is not refused is
\* queued or not wanted.
LEMMA AddIs ==
  ASSUME Tasks(tasks), NEW task, IsTask(task), _add_task(task)
  PROVE  /\ Tasks(tasks')
         /\ \A i \in DOMAIN tasks : i \in DOMAIN tasks' /\ tasks'[i].group = tasks[i].group
         /\ \A i \in DOMAIN tasks' : tasks'[i] = task \/ (i \in DOMAIN tasks /\ tasks'[i] = tasks[i])
         /\ ~Yields(task, find_task_by_group(tasks, task.group)) =>
               /\ \A i \in DOMAIN tasks' : tasks'[i].group = task.group => tasks'[i].row = task.row
               /\ (\E i \in DOMAIN tasks' : tasks'[i].group = task.group) \/ ~Wanted(task)
  <1> DEFINE i == find_task_by_group(tasks, task.group)
             Differs == tasks[i].event /= task.event \/ tasks[i].row /= task.row
             Y == Yields(task, i)
  <1>1. /\ tasks \in Seq(Task) /\ Len(tasks) \in Nat /\ DOMAIN tasks = 1 .. Len(tasks) /\ task \in Task
        /\ \A j \in DOMAIN tasks : IsTask(tasks[j])
    BY DEF Tasks, IsTask
  <1>2. \A j, k \in DOMAIN tasks : tasks[j].group = tasks[k].group => j = k
    BY DEF Tasks
  <1>3. /\ i \in 0 .. Len(tasks)
        /\ i = 0 => \A j \in DOMAIN tasks : tasks[j].group /= task.group
        /\ i /= 0 => i \in DOMAIN tasks /\ tasks[i].group = task.group
    BY <1>1, FindIs
  <1>4. tasks' = IF Y THEN tasks
                 ELSE IF i /= 0 THEN (IF Differs THEN [tasks EXCEPT ![i] = task] ELSE tasks)
                 ELSE IF Wanted(task) THEN Append(tasks, task) ELSE tasks
    BY DEF _add_task
  <1> HIDE DEF i, Y
  <1>5. CASE Y
    BY <1>4, <1>5 DEF i, Y
  <1>6. CASE ~Y /\ i /= 0 /\ Differs
    <2>1. tasks' = [tasks EXCEPT ![i] = task] /\ i \in DOMAIN tasks /\ tasks[i].group = task.group
      BY <1>3, <1>4, <1>6
    <2> HIDE DEF Differs
    <2>2. tasks' \in Seq(Task) /\ DOMAIN tasks' = DOMAIN tasks /\ \A j \in DOMAIN tasks : tasks'[j] = IF j = i THEN task ELSE tasks[j]
      BY <1>1, <2>1
    <2>3. \A j \in DOMAIN tasks : tasks'[j].group = tasks[j].group
      BY <2>1, <2>2
    <2>4. \A j \in DOMAIN tasks' : IsTask(tasks'[j])
      BY <1>1, <2>2
    <2>5. \A j, k \in DOMAIN tasks' : tasks'[j].group = tasks'[k].group => j = k
      BY <1>2, <2>2, <2>3
    <2>6. Tasks(tasks')
      BY <2>2, <2>4, <2>5 DEF Tasks
    <2>7. \A j \in DOMAIN tasks' : tasks'[j].group = task.group => tasks'[j].row = task.row
      BY <1>2, <2>1, <2>2, <2>3
    <2>8. i \in DOMAIN tasks' /\ tasks'[i].group = task.group
      BY <2>1, <2>2
    <2> QED BY <2>2, <2>3, <2>6, <2>7, <2>8
  <1>7. CASE ~Y /\ i /= 0 /\ ~Differs
    <2>1. tasks' = tasks /\ i \in DOMAIN tasks /\ tasks[i].group = task.group /\ tasks[i].row = task.row
      BY <1>3, <1>4, <1>7
    <2>2. \A j \in DOMAIN tasks : tasks[j].group = task.group => tasks[j].row = task.row
      BY <1>2, <2>1
    <2> QED BY <2>1, <2>2
  <1>8. CASE ~Y /\ i = 0 /\ Wanted(task)
    <2>1. tasks' = Append(tasks, task)
      BY <1>4, <1>8
    <2> DEFINE n == Len(tasks) + 1
    <2>2. tasks' \in Seq(Task) /\ DOMAIN tasks' = 1 .. n /\ tasks'[n] = task
      BY <1>1, <2>1
    <2>3. \A j \in 1 .. Len(tasks) : tasks'[j] = tasks[j]
      BY <1>1, <2>1
    <2>4. 1 .. n = DOMAIN tasks \cup {n} /\ n \notin DOMAIN tasks
      BY <1>1
    <2> HIDE DEF n
    <2>5. \A j \in DOMAIN tasks' : IsTask(tasks'[j])
      BY <1>1, <2>2, <2>3, <2>4
    <2>6. \A j \in DOMAIN tasks : tasks[j].group /= task.group
      BY <1>3, <1>8
    <2>7. \A j, k \in DOMAIN tasks' : tasks'[j].group = tasks'[k].group => j = k
      BY <1>1, <1>2, <2>2, <2>3, <2>4, <2>6
    <2>8. Tasks(tasks')
      BY <2>2, <2>5, <2>7 DEF Tasks
    <2>9. \A j \in DOMAIN tasks' : tasks'[j].group = task.group => tasks'[j].row = task.row
      BY <1>1, <2>2, <2>3, <2>4, <2>6
    <2> QED BY <1>1, <2>2, <2>3, <2>4, <2>8, <2>9
  <1>9. CASE ~Y /\ i = 0 /\ ~Wanted(task)
    <2>1. tasks' = tasks /\ \A j \in DOMAIN tasks : tasks[j].group /= task.group
      BY <1>3, <1>4, <1>9
    <2> QED BY <1>9, <2>1
  <1> QED BY <1>5, <1>6, <1>7, <1>8, <1>9

-----------------------------------------------------------------------------
(* Citus: requests and the thread.                                         *)

LEMMA NothingIs ==
    Nothing \notin Rows /\ Nothing \notin Address /\ Nothing \notin Task /\ Nothing \notin Entry /\ Nothing \notin BOOLEAN
  OBVIOUS

LEMMA RowIs ==
  ASSUME NEW g \in CitusGroup, NEW h \in CitusHosts[g], NEW d \in BOOLEAN
  PROVE  Row(h, d) \in Address /\ Row(h, d) /= Nothing /\ Row(h, d).host = h /\ Row(h, d).demoted = d
  <1>1. h \in UNION {CitusHosts[k] : k \in CitusGroup}
    OBVIOUS
  <1>2. Row(h, d) = [host |-> h, demoted |-> d]
    BY DEF Row
  <1>3. Row(h, d) \in Address
    BY <1>1, <1>2 DEF Address
  <1>4. Row(h, d).host = h /\ Row(h, d).demoted = d
    BY <1>2
  <1>5. Row(h, d) /= Nothing
    BY <1>3, NothingIs
  <1> QED BY <1>3, <1>4, <1>5

LEMMA LeaderRow ==
  ASSUME NEW g \in CitusGroup, NEW h \in CitusHosts[g]
  PROVE  Row(h, FALSE) \in Address /\ Row(h, FALSE).host = h /\ ~Row(h, FALSE).demoted
  <1> DEFINE d == FALSE
  <1>1. d \in BOOLEAN /\ ~d
    OBVIOUS
  <1> HIDE DEF d
  <1>2. Row(h, d) \in Address /\ Row(h, d).host = h /\ Row(h, d).demoted = d
    BY <1>1, RowIs
  <1>3. ~Row(h, d).demoted
    BY <1>1, <1>2, Zenon
  <1> QED BY <1>2, <1>3 DEF d

LEMMA PgDistNodeIs ==
  ASSUME NEW g \in CitusGroup, NEW h \in CitusHosts[g], NEW event \in Event, NEW rest \in BOOLEAN,
         g = 0 => event = "after_promote", NEW task, task = PgDistNode(g, h, event, rest)
  PROVE  /\ IsTask(task) /\ task.group = g /\ task.row.host = h /\ task.event = event
         /\ task.row = Row(h, event = "before_demote")
  <1> DEFINE d == event = "before_demote"
             e == ~rest
  <1>1. d \in BOOLEAN /\ e \in BOOLEAN
    OBVIOUS
  <1>3. task = [group |-> g, row |-> Row(h, d), event |-> event, rest |-> rest, known |-> FALSE, expired |-> e]
    BY DEF PgDistNode
  <1>6. d <=> event = "before_demote"
    OBVIOUS
  <1> HIDE DEF d, e
  <1>2. Row(h, d) \in Address /\ Row(h, d).host = h /\ Row(h, d).demoted = d
    BY <1>1, RowIs
  <1>4. task \in Task
    BY <1>1, <1>2, <1>3 DEF Task
  <1>5. task.group = g /\ task.row = Row(h, d) /\ task.event = event
    BY <1>3
  <1>7. task.row.demoted <=> event = "before_demote"
    <2>1. task.row.demoted = d
      BY <1>2, <1>5
    <2> QED BY <1>6, <2>1, Zenon
  <1> QED BY <1>2, <1>4, <1>5, <1>7 DEF IsTask, d

LEMMA InitCitusIInv == CitusInit => CitusIInv
  <1> SUFFICES ASSUME CitusInit PROVE CitusIInv
    OBVIOUS
  <1> USE DEF CitusInit
  <1>1. Row(Self, FALSE) \in Address
    <2> DEFINE g == 0
    <2>1. g \in CitusGroup /\ Self \in CitusHosts[g]
      OBVIOUS
    <2> HIDE DEF g
    <2> QED BY <2>1, LeaderRow
  <1>2. CitusTypes
    <2>1. db \in Rows
      BY <1>1 DEF Bootstrapped, Rows
    <2>2. cache \in [CitusGroup -> {Nothing} \cup Entry]
      OBVIOUS
    <2>3. Tasks(tasks)
      BY NoTasks
    <2>4. 0 \in 0 .. MaxFaults
      OBVIOUS
    <2> QED BY <2>1, <2>2, <2>3, <2>4 DEF CitusTypes
  <1>3. InHand
    BY DEF InHand, Working, Opened
  <1>4. Tx
    <2>1. TxKnown
      BY DEF TxKnown, Opened, Committed
    <2> QED BY <2>1 DEF Tx
  <1>5. CacheRight /\ AskedFor
    BY DEF CacheRight, AskedFor
  <1> QED BY <1>2, <1>3, <1>4, <1>5 DEF CitusIInv

\* What an added task leaves as it was.
LEMMA AddSteps ==
  ASSUME CitusIInv, NEW task, IsTask(task), _add_task(task),
         UNCHANGED <<db, tx, serving, group_leader, cache, in_flight, load, stage, hand, idx, changed, orphaned, faults>>
  PROVE  /\ InHand' /\ Tx' /\ CacheRight'
         /\ \A g \in CitusGroup : Queued(g) => Queued(g)'
         /\ synced' \subseteq CitusGroup \ {0} => CitusTypes'
  <1>1. CitusTypes /\ InHand /\ Tx /\ CacheRight /\ Tasks(tasks)
    BY DEF CitusIInv, CitusTypes
  <1>2. /\ Tasks(tasks')
        /\ \A i \in DOMAIN tasks : i \in DOMAIN tasks' /\ tasks'[i].group = tasks[i].group
    BY <1>1, AddIs
  <1>3. tasks /= <<>> => tasks' /= <<>>
    <2>1. tasks \in Seq(Task)
      BY <1>1 DEF Tasks
    <2>2. tasks /= <<>> => 1 \in DOMAIN tasks
      BY <2>1
    <2> QED BY <1>2, <2>2
  <1>4. InHand'
    BY <1>1, <1>2, <1>3 DEF InHand, Working, Opened
  <1>5. Tx'
    BY <1>1 DEF Tx, TxKnown, Now, Opened, Committed, Pending
  <1>6. CacheRight'
    BY <1>1 DEF CacheRight, Registers
  <1>7. \A g \in CitusGroup : Queued(g) => Queued(g)'
    BY <1>2 DEF Queued
  <1>8. synced' \subseteq CitusGroup \ {0} => CitusTypes'
    BY <1>1, <1>2 DEF CitusTypes
  <1> QED BY <1>4, <1>5, <1>6, <1>7, <1>8

LEMMA HandleEventStep ==
  ASSUME CitusIInv, NEW g \in CitusGroup, NEW event \in Event, handle_event(g, event)
  PROVE  CitusIInv'
  <1> DEFINE task == PgDistNode(g, group_leader[g], event, TRUE)
  <1>0. /\ g /= 0 /\ _add_task(task)
        /\ UNCHANGED <<db, tx, serving, group_leader, cache, in_flight, load, stage, hand, idx, changed, orphaned, faults, synced>>
    BY DEF handle_event, thread, history
  <1>1. CitusTypes /\ AskedFor /\ Tasks(tasks) /\ group_leader[g] \in CitusHosts[g] /\ synced \subseteq CitusGroup \ {0}
    BY DEF CitusIInv, CitusTypes
  <1>2. IsTask(task) /\ task.group = g /\ task.row.host = group_leader[g]
    <2> DEFINE rest == TRUE
    <2>1. rest \in BOOLEAN /\ task = PgDistNode(g, group_leader[g], event, rest)
      OBVIOUS
    <2> HIDE DEF rest, task
    <2> QED BY <1>0, <1>1, <2>1, PgDistNodeIs
  <1> HIDE DEF task
  <1>3. \A i \in DOMAIN tasks' : tasks'[i] = task \/ (i \in DOMAIN tasks /\ tasks'[i] = tasks[i])
    BY <1>0, <1>1, <1>2, AddIs
  <1>4. InHand' /\ Tx' /\ CacheRight' /\ CitusTypes' /\ \A k \in CitusGroup : Queued(k) => Queued(k)'
    BY <1>0, <1>1, <1>2, AddSteps
  <1>5. AskedFor'
    <2>1. ASSUME NEW k \in synced', NEW i \in DOMAIN tasks', tasks'[i].group = k
          PROVE  tasks'[i].row.host = group_leader'[k]
      BY <1>0, <1>1, <1>2, <1>3, <2>1 DEF AskedFor
    <2>2. ASSUME Registers', NEW k \in synced'
          PROVE  Queued(k)' \/ Pending(k)' \/ db'[k] = Row(group_leader'[k], FALSE)
      BY <1>0, <1>1, <1>4, <2>2 DEF AskedFor, Registers, Pending
    <2> QED BY <2>1, <2>2 DEF AskedFor
  <1> QED BY <1>4, <1>5 DEF CitusIInv

LEMMA SyncMetaDataStep ==
  ASSUME CitusIInv, NEW g \in CitusGroup, NEW h \in CitusHosts[g], sync_meta_data(g, h)
  PROVE  CitusIInv'
  <1> DEFINE task == PgDistNode(g, h, "after_promote", FALSE)
             Y == Yields(task, find_task_by_group(tasks, g))
  <1>0. /\ _add_task(task)
        /\ synced' = IF h = group_leader[g] /\ stage /= "load" /\ ~Y THEN synced \cup ({g} \ {0}) ELSE synced \ {g}
        /\ UNCHANGED <<db, tx, serving, group_leader, cache, in_flight, load, stage, hand, idx, changed, orphaned, faults>>
    BY DEF sync_meta_data, thread
  <1>1. CitusTypes /\ InHand /\ CacheRight /\ AskedFor /\ Tasks(tasks) /\ synced \subseteq CitusGroup \ {0} /\ load \in BOOLEAN
    BY DEF CitusIInv, CitusTypes
  <1>2. IsTask(task) /\ task.group = g /\ task.row.host = h /\ task.event = "after_promote" /\ task.row = Row(h, FALSE)
    <2> DEFINE event == "after_promote"
               rest == FALSE
    <2>1. event \in Event /\ rest \in BOOLEAN /\ event = "after_promote" /\ task = PgDistNode(g, h, event, rest)
      BY DEF Event
    <2>2. task.row = Row(h, FALSE)
      BY DEF PgDistNode
    <2> HIDE DEF event, rest, task
    <2>3. IsTask(task) /\ task.group = g /\ task.row.host = h /\ task.event = event
      BY <2>1, PgDistNodeIs
    <2> QED BY <2>1, <2>2, <2>3
  <1> HIDE DEF task
  <1>3. /\ \A i \in DOMAIN tasks' : tasks'[i] = task \/ (i \in DOMAIN tasks /\ tasks'[i] = tasks[i])
        /\ ~Y => /\ \A i \in DOMAIN tasks' : tasks'[i].group = g => tasks'[i].row = task.row
                 /\ Queued(g)' \/ ~Wanted(task)
    BY <1>0, <1>1, <1>2, AddIs DEF Queued
  <1> HIDE DEF Y
  <1>4. synced' \subseteq CitusGroup \ {0} /\ synced' \subseteq synced \cup {g}
    BY <1>0, <1>1
  <1>5. InHand' /\ Tx' /\ CacheRight' /\ CitusTypes' /\ \A k \in CitusGroup : Queued(k) => Queued(k)'
    BY <1>0, <1>2, <1>4, AddSteps
  <1>6. g \in synced' => h = group_leader[g] /\ stage /= "load" /\ ~Y
    BY <1>0
  <1>7. ASSUME NEW k \in synced', NEW i \in DOMAIN tasks', tasks'[i].group = k
        PROVE  tasks'[i].row.host = group_leader'[k]
    <2>1. CASE k = g
      BY <1>0, <1>2, <1>3, <1>6, <1>7, <2>1
    <2>2. CASE k /= g
      <3>1. k \in synced /\ i \in DOMAIN tasks /\ tasks'[i] = tasks[i]
        BY <1>2, <1>3, <1>4, <1>7, <2>2
      <3> QED BY <1>0, <1>1, <1>7, <3>1 DEF AskedFor
    <2> QED BY <2>1, <2>2
  <1>8. ASSUME Registers', NEW k \in synced'
        PROVE  Queued(k)' \/ Pending(k)' \/ db'[k] = Row(group_leader'[k], FALSE)
    <2>1. Registers
      BY <1>0, <1>8 DEF Registers
    <2>2. CASE k = g /\ Wanted(task)
      BY <1>3, <1>6, <2>2
    <2>3. CASE k = g /\ ~Wanted(task)
      <3>1. ~load /\ cache[g] /= Nothing /\ cache[g].row = Row(h, FALSE)
        BY <1>2, <2>3 DEF Wanted, Equal
      <3>2. cache[g].row = db[g] \/ (stage \in {"commit", "finish"} /\ hand.group = g)
        BY <1>1, <1>6, <2>1, <2>3, <3>1 DEF CacheRight
      <3>3. CASE cache[g].row = db[g]
        BY <1>0, <1>6, <2>3, <3>1, <3>3
      <3>4. CASE stage \in {"commit", "finish"} /\ hand.group = g
        <4>1. idx \in DOMAIN tasks /\ tasks[idx].group = g
          BY <1>1, <2>1, <3>4 DEF InHand, Working, Registers
        <4>2. Queued(g)
          BY <4>1 DEF Queued
        <4> QED BY <1>5, <2>3, <4>2
      <3> QED BY <3>2, <3>3, <3>4
    <2>4. CASE k /= g
      <3>1. k \in synced /\ k \in CitusGroup
        BY <1>1, <1>4, <2>4
      <3>2. Queued(k) \/ Pending(k) \/ db[k] = Row(group_leader[k], FALSE)
        BY <1>1, <2>1, <3>1 DEF AskedFor
      <3> QED BY <1>0, <1>5, <3>1, <3>2 DEF Pending
    <2> QED BY <2>2, <2>3, <2>4
  <1>9. AskedFor'
    BY <1>7, <1>8 DEF AskedFor
  <1> QED BY <1>5, <1>9 DEF CitusIInv

LEMMA DeadlineStep == ASSUME CitusIInv, Deadline PROVE CitusIInv'
  <1>0. /\ in_flight /= Nothing /\ in_flight' = [in_flight EXCEPT !.expired = TRUE]
        /\ UNCHANGED <<db, tx, serving, group_leader, cache, tasks, load, stage, hand, idx, changed, orphaned, synced, faults>>
    BY DEF Deadline, thread, history
  <1>1. CitusTypes /\ InHand /\ Tx /\ CacheRight /\ AskedFor /\ IsTask(in_flight)
    BY <1>0 DEF CitusIInv, CitusTypes
  <1>2. /\ in_flight' \in Task /\ in_flight'.group = in_flight.group
        /\ in_flight'.row = in_flight.row /\ in_flight'.event = in_flight.event
    BY <1>0, <1>1 DEF IsTask, Task
  <1>3. IsTask(in_flight)' /\ in_flight' /= Nothing
    BY <1>1, <1>2, NothingIs DEF IsTask
  <1>4. CitusTypes'
    BY <1>0, <1>1, <1>2, <1>3 DEF CitusTypes
  <1>5. InHand'
    BY <1>0, <1>1, <1>2, <1>3 DEF InHand, Working, Opened
  <1>6. Tx'
    BY <1>0, <1>1, <1>2, <1>3 DEF Tx, TxKnown, Now, Opened, Committed, Pending
  <1>7. CacheRight'
    BY <1>0, <1>1 DEF CacheRight, Registers
  <1>8. AskedFor'
    BY <1>0, <1>1, <1>2, <1>3 DEF AskedFor, Registers, Queued, Pending
  <1> QED BY <1>4, <1>5, <1>6, <1>7, <1>8 DEF CitusIInv

\* A closed connection outside of a task in hand: no transaction, nothing in flight.
LEMMA DropStep ==
  ASSUME CitusIInv, tx' = Nothing, in_flight' = Nothing, load' \in BOOLEAN, ~load' => ~load, stage /= "load" \/ load',
         stage \in {"wait", "load"}, stage' \in {"wait", "next"}, faults' \in 0 .. MaxFaults,
         synced' = synced \ (IF in_flight = Nothing THEN {} ELSE {in_flight.group}),
         UNCHANGED <<db, serving, group_leader, cache, tasks, hand, idx, changed, orphaned>>
  PROVE  CitusIInv'
  <1>1. CitusTypes /\ InHand /\ Tx /\ CacheRight /\ AskedFor
    BY DEF CitusIInv
  <1>2. CitusTypes'
    BY <1>1 DEF CitusTypes
  <1>3. InHand'
    BY <1>1 DEF InHand, Working, Opened
  <1>4. Tx'
    BY <1>1, <1>3 DEF Tx, TxKnown, InHand, Working, Opened, Committed
  <1>5. CacheRight'
    BY <1>1 DEF CacheRight, Registers
  <1>6. AskedFor'
    BY <1>1 DEF AskedFor, Registers, Queued, Pending
  <1> QED BY <1>2, <1>3, <1>4, <1>5, <1>6 DEF CitusIInv

\* A query adds one fault at most.
LEMMA FaultIs ==
  ASSUME faults \in 0 .. MaxFaults, May \/ faults' = faults
  PROVE  faults' \in 0 .. MaxFaults
  BY DEF May

LEMMA RollbackStep == ASSUME CitusIInv, Rollback PROVE CitusIInv'
  <1>1. faults \in 0 .. MaxFaults /\ load \in BOOLEAN
    BY DEF CitusIInv, CitusTypes
  <1>2. faults' \in 0 .. MaxFaults
    BY <1>1, FaultIs DEF Rollback, MaySucceed, MayFail
  <1>3. TRUE \in BOOLEAN
    OBVIOUS
  <1> QED BY <1>1, <1>2, <1>3, DropStep DEF Rollback, Failed

LEMMA WakeStep == ASSUME CitusIInv, Wake PROVE CitusIInv'
  <1>0. /\ stage = "wait" /\ stage' = "next"
        /\ UNCHANGED <<db, tx, serving, group_leader, cache, tasks, in_flight, load, hand, idx, changed, orphaned, synced, faults>>
    BY DEF Wake, history
  <1>1. CitusTypes /\ InHand /\ Tx /\ CacheRight /\ AskedFor
    BY DEF CitusIInv
  <1>2. CitusTypes'
    BY <1>0, <1>1 DEF CitusTypes
  <1>3. InHand'
    BY <1>0, <1>1 DEF InHand, Working, Opened
  <1>4. Tx'
    BY <1>0, <1>1 DEF Tx, TxKnown, Now, Opened, Committed, Pending
  <1>5. CacheRight'
    BY <1>0, <1>1 DEF CacheRight, Registers
  <1>6. AskedFor'
    BY <1>0, <1>1 DEF AskedFor, Registers, Queued, Pending
  <1> QED BY <1>2, <1>3, <1>4, <1>5, <1>6 DEF CitusIInv

LEMMA LoadBeginsStep == ASSUME CitusIInv, LoadBegins PROVE CitusIInv'
  <1>0. /\ stage = "next" /\ in_flight = Nothing /\ load' = FALSE /\ stage' = "load"
        /\ UNCHANGED <<db, tx, serving, group_leader, cache, tasks, in_flight, hand, idx, changed, orphaned, synced, faults>>
    BY DEF LoadBegins, history
  <1>1. CitusTypes /\ InHand /\ Tx /\ CacheRight /\ AskedFor
    BY DEF CitusIInv
  <1>2. CitusTypes'
    BY <1>0, <1>1 DEF CitusTypes
  <1>3. InHand'
    BY <1>0, <1>1 DEF InHand, Working, Opened
  <1>4. Tx'
    BY <1>0, <1>1 DEF Tx, TxKnown, Now, Opened, Committed, Pending
  <1>5. CacheRight'
    BY <1>0 DEF CacheRight
  <1>6. AskedFor'
    BY <1>0, <1>1 DEF AskedFor, Registers, Queued, Pending
  <1> QED BY <1>2, <1>3, <1>4, <1>5, <1>6 DEF CitusIInv

LEMMA CachedIs ==
  ASSUME NEW row \in Address
  PROVE  Cached(row) \in Entry /\ Cached(row).row = row
  BY DEF Cached, Entry

LEMMA LoadStep == ASSUME CitusIInv, load_pg_dist_node PROVE CitusIInv'
  <1>1. CitusTypes /\ InHand /\ Tx /\ CacheRight /\ AskedFor
    BY DEF CitusIInv
  <1>2. stage = "load" /\ in_flight = Nothing /\ faults \in 0 .. MaxFaults /\ load \in BOOLEAN /\ Now \in Rows
    BY <1>1 DEF load_pg_dist_node, InHand, CitusTypes, Now
  <1>3. CASE MayFail(FALSE) /\ Failed /\ stage' = "wait" /\ UNCHANGED <<cache, orphaned, synced>>
    <2>1. faults' \in 0 .. MaxFaults
      BY <1>2, <1>3, FaultIs DEF MayFail
    <2>2. TRUE \in BOOLEAN
      OBVIOUS
    <2> QED BY <1>2, <1>3, <2>1, <2>2, DropStep DEF load_pg_dist_node, Failed
  <1>4. CASE /\ MaySucceed(FALSE) /\ stage' = "next"
             /\ orphaned' = (tx /= Nothing) /\ synced' = IF orphaned THEN {} ELSE synced
             /\ cache' = [g \in CitusGroup |-> IF Now[g] = Nothing THEN Nothing ELSE Cached(Now[g])]
             /\ UNCHANGED <<tx, in_flight, load>>
    <2>0. /\ stage' = "next" /\ synced' = IF orphaned THEN {} ELSE synced
          /\ UNCHANGED <<db, tx, serving, group_leader, tasks, in_flight, load, hand, idx, changed, faults>>
      BY <1>4 DEF load_pg_dist_node, MaySucceed
    <2>1. (orphaned' <=> tx /= Nothing) /\ orphaned' \in BOOLEAN
      BY <1>4, Zenon
    <2>2. \A g \in CitusGroup : cache'[g] /= Nothing => Now[g] \in Address /\ cache'[g] = Cached(Now[g])
      BY <1>2, <1>4 DEF Rows
    <2>3. cache' \in [CitusGroup -> {Nothing} \cup Entry]
      <3>1. \A g \in CitusGroup : (IF Now[g] = Nothing THEN Nothing ELSE Cached(Now[g])) \in {Nothing} \cup Entry
        BY <1>2, CachedIs DEF Rows
      <3> QED BY <1>4, <3>1
    <2>4. CitusTypes'
      BY <1>1, <2>0, <2>1, <2>3 DEF CitusTypes
    <2>5. InHand'
      BY <1>1, <1>2, <2>0 DEF InHand, Working, Opened
    <2>6. Tx'
      BY <1>1, <1>2, <2>0, <2>1 DEF Tx, TxKnown, Opened, Committed
    <2>7. CacheRight'
      <3>1. ASSUME Registers', NEW g \in CitusGroup, cache'[g] /= Nothing PROVE cache'[g].row = db'[g]
        <4>1. Now[g] = db[g]
          BY <2>1, <3>1 DEF Registers, Now
        <4>2. cache'[g].row = Now[g]
          BY <2>2, <3>1, CachedIs
        <4> QED BY <2>0, <4>1, <4>2
      <3> QED BY <3>1 DEF CacheRight
    <2>8. AskedFor'
      BY <1>1, <1>2, <2>0 DEF AskedFor, Registers, Queued, Pending
    <2> QED BY <2>4, <2>5, <2>6, <2>7, <2>8 DEF CitusIInv
  <1> QED BY <1>3, <1>4 DEF load_pg_dist_node

LEMMA PickTaskStep == ASSUME CitusIInv, pick_task PROVE CitusIInv'
  <1>1. CitusTypes /\ InHand /\ Tx /\ CacheRight /\ AskedFor /\ Tasks(tasks) /\ cache \in [CitusGroup -> {Nothing} \cup Entry]
    BY DEF CitusIInv, CitusTypes
  <1> DEFINE i == IF in_flight /= Nothing THEN find_task_by_group(Kept, in_flight.group)
                  ELSE IF find_task_by_group(Kept, 0) /= 0 THEN find_task_by_group(Kept, 0)
                  ELSE IF Kept /= <<>> THEN 1 ELSE 0
             nodeid(t) == IF cache[t.group] /= Nothing THEN cache[t.group].known ELSE t.known
  <1>2. /\ stage = "next" /\ (in_flight /= Nothing \/ ~load) /\ tasks' = Kept
        /\ UNCHANGED <<db, tx, serving, group_leader, cache, in_flight, load, changed, orphaned, synced, faults>>
    BY DEF pick_task, history
  <1>3. IF i = 0 THEN stage' = "wait" /\ UNCHANGED <<hand, idx>>
        ELSE hand' = [Kept[i] EXCEPT !.known = nodeid(Kept[i])] /\ idx' = i /\ stage' = "update"
    BY DEF pick_task
  <1>4. /\ Tasks(Kept) /\ Kept \in Seq(Task)
        /\ \A j \in DOMAIN Kept : \E k \in DOMAIN tasks : Kept[j] = tasks[k]
        /\ \A k \in DOMAIN tasks : \/ in_flight = Nothing /\ Equal(tasks[k], cache[tasks[k].group])
                                   \/ \E j \in DOMAIN Kept : Kept[j] = tasks[k]
    BY <1>1, KeptIs DEF Tasks
  <1>5. i /= 0 => /\ i \in DOMAIN Kept /\ i \in Nat \ {0}
                  /\ in_flight /= Nothing => Kept[i].group = in_flight.group
    <2>1. CASE in_flight /= Nothing
      BY <1>4, <2>1, FindIs
    <2>2. CASE in_flight = Nothing
      BY <1>4, <2>2, FindIs
    <2> QED BY <2>1, <2>2
  <1> HIDE DEF i
  <1>6. stage' = "wait" \/ stage' = "update"
    BY <1>3
  <1>7. CitusTypes'
    BY <1>1, <1>2, <1>4, <1>6 DEF CitusTypes
  <1>8. InHand'
    <2>1. CASE i = 0
      <3>1. stage' = "wait" /\ UNCHANGED <<hand, idx>>
        BY <1>3, <2>1
      <3> QED BY <1>1, <1>2, <3>1 DEF InHand, Working, Opened
    <2>2. CASE i /= 0
      <3>1. IsTask(Kept[i]) /\ Kept[i] \in Task /\ Kept[i].group \in CitusGroup
        BY <1>4, <1>5, <2>2 DEF Tasks, IsTask, Task
      <3>2. nodeid(Kept[i]) \in BOOLEAN
        BY <1>1, <3>1 DEF Task, Entry
      <3> HIDE DEF nodeid
      <3>3. hand' = [Kept[i] EXCEPT !.known = nodeid(Kept[i])] /\ idx' = i /\ stage' = "update"
        BY <1>3, <2>2
      <3>4. /\ hand' \in Task /\ hand'.group = Kept[i].group
            /\ hand'.row = Kept[i].row /\ hand'.event = Kept[i].event
        BY <3>1, <3>2, <3>3 DEF Task
      <3>5. IsTask(hand)' /\ hand' /= Nothing
        BY <3>1, <3>4, NothingIs DEF IsTask
      <3>6. idx' \in DOMAIN tasks' /\ tasks'[idx'].group = hand'.group /\ tasks' /= <<>> /\ idx' \in Nat \ {0}
        BY <1>2, <1>5, <2>2, <3>3, <3>4
      <3>7. in_flight' /= Nothing => in_flight'.group = hand'.group
        BY <1>2, <1>5, <2>2, <3>4
      <3>8. changed' = Nothing
        BY <1>1, <1>2 DEF InHand
      <3> QED BY <3>3, <3>5, <3>6, <3>7, <3>8 DEF InHand, Working, Opened
    <2> QED BY <2>1, <2>2
  <1>9. Tx'
    BY <1>1, <1>2, <1>6 DEF Tx, TxKnown, Now, Opened, Committed, Pending
  <1>10. CacheRight'
    BY <1>1, <1>2, <1>6 DEF CacheRight, Registers
  <1>11. AskedFor'
    <2>1. ASSUME NEW g \in synced', NEW j \in DOMAIN tasks', tasks'[j].group = g
          PROVE  tasks'[j].row.host = group_leader'[g]
      BY <1>1, <1>2, <1>4, <2>1 DEF AskedFor
    <2>2. ASSUME Registers', NEW g \in synced'
          PROVE  Queued(g)' \/ Pending(g)' \/ db'[g] = Row(group_leader'[g], FALSE)
      <3>1. Registers /\ g \in synced /\ g \in CitusGroup
        BY <1>1, <1>2, <2>2 DEF Registers, CitusTypes
      <3>2. CASE ~Queued(g)
        BY <1>1, <1>2, <3>1, <3>2 DEF AskedFor, Pending
      <3>3. CASE Queued(g)
        <4>1. PICK k \in DOMAIN tasks : tasks[k].group = g
          BY <3>3 DEF Queued
        <4>2. CASE \E j \in DOMAIN Kept : Kept[j] = tasks[k]
          BY <1>2, <4>1, <4>2 DEF Queued
        <4>3. CASE in_flight = Nothing /\ Equal(tasks[k], cache[tasks[k].group])
          <5>1. cache[g] /= Nothing /\ tasks[k].event = "after_promote" /\ tasks[k].row = cache[g].row
            BY <4>1, <4>3 DEF Equal
          <5>2. cache[g].row = db[g]
            BY <1>1, <1>2, <3>1, <4>3, <5>1 DEF CacheRight
          <5>3. tasks[k].row \in Address /\ ~tasks[k].row.demoted /\ tasks[k].row.host = group_leader[g]
            BY <1>1, <3>1, <4>1, <5>1 DEF Tasks, IsTask, Task, AskedFor
          <5>4. tasks[k].row = Row(group_leader[g], FALSE)
            BY <5>3 DEF Address, Row
          <5> QED BY <1>2, <5>1, <5>2, <5>4
        <4> QED BY <1>4, <4>1, <4>2, <4>3
      <3> QED BY <3>2, <3>3
    <2> QED BY <2>1, <2>2 DEF AskedFor
  <1> QED BY <1>7, <1>8, <1>9, <1>10, <1>11 DEF CitusIInv

-----------------------------------------------------------------------------
(* Citus: the task in hand.                                                *)

\* What is in hand and in flight, seen from a task.
LEMMA HandIs ==
  ASSUME CitusIInv, Working
  PROVE  /\ IsTask(hand) /\ hand \in Task /\ hand.group \in CitusGroup /\ hand.row \in Address /\ hand.row \in {Nothing} \cup Address
         /\ hand.event \in Event
         /\ hand.event = "after_promote" => ~hand.row.demoted
         /\ Registers => Queued(hand.group)
  <1>1. CitusTypes /\ InHand
    BY DEF CitusIInv
  <1>2. IsTask(hand)
    BY <1>1 DEF InHand
  <1>3. Registers => Queued(hand.group)
    BY <1>1 DEF InHand, Registers, Queued
  <1> QED BY <1>2, <1>3 DEF IsTask, Task

LEMMA UpdateIs ==
  ASSUME NEW t, t.group \in CitusGroup, t.row \in Address, NEW rows \in Rows
  PROVE  /\ update_node(t, rows) \in Rows
         /\ \A g \in CitusGroup : g /= t.group => update_node(t, rows)[g] = rows[g]
         /\ Touches(t) => update_node(t, rows)[t.group] = t.row
  BY DEF update_node, Rows

\* A query of the task in hand that fails.
LEMMA RaisesStep ==
  ASSUME CitusIInv, Raises, stage \in {"update", "commit"}, faults' \in 0 .. MaxFaults,
         UNCHANGED <<serving, group_leader, cache, tasks, idx, orphaned, synced>>
  PROVE  CitusIInv' /\ db' = db
  <1>0. tx' = Nothing /\ in_flight' = Nothing /\ load' = TRUE /\ changed' = Nothing /\ stage' = "finish" /\ UNCHANGED <<db, hand>>
    BY DEF Raises, Failed
  <1>1. CitusTypes /\ InHand /\ Tx /\ CacheRight /\ AskedFor /\ Working
    BY DEF CitusIInv, Working
  <1>2. Registers => Queued(hand.group)
    BY <1>1, HandIs
  <1>3. ~Opened' /\ ~Committed'
    BY <1>0, NothingIs DEF Opened, Committed
  <1>4. CitusTypes'
    BY <1>0, <1>1 DEF CitusTypes
  <1>5. InHand'
    BY <1>0, <1>1, <1>3 DEF InHand, Working, Committed
  <1>6. Tx'
    BY <1>0, <1>1, <1>3, <1>5 DEF Tx, TxKnown
  <1>7. CacheRight'
    BY <1>0 DEF CacheRight
  <1>8. AskedFor'
    <2>1. in_flight /= Nothing => in_flight.group = hand.group
      BY <1>1 DEF InHand
    <2> QED BY <1>0, <1>1, <1>2, <2>1 DEF AskedFor, Registers, Queued, Pending
  <1> QED BY <1>0, <1>4, <1>5, <1>6, <1>7, <1>8 DEF CitusIInv

LEMMA ProcessTaskStep == ASSUME CitusIInv, process_task PROVE CitusIInv' /\ CommitsNoPause
  <1> DEFINE opens == hand.event /= "after_promote"
             skip == ~opens /\ AlreadyDone(hand)
             rows == update_node(hand, Now)
  <1>1. CitusTypes /\ InHand /\ Tx /\ CacheRight /\ AskedFor /\ Working /\ stage = "update" /\ changed = Nothing
    BY DEF CitusIInv, Working, process_task, InHand
  <1>2. UNCHANGED <<serving, group_leader, cache, tasks, idx, orphaned, synced>>
    BY DEF process_task
  <1>3. faults \in 0 .. MaxFaults /\ Now \in Rows
    BY <1>1 DEF CitusTypes, Now
  <1>4. /\ IsTask(hand) /\ hand \in Task /\ hand.group \in CitusGroup /\ hand.row \in Address /\ hand.event \in Event
        /\ hand.event = "after_promote" => ~hand.row.demoted
        /\ Registers => Queued(hand.group)
    BY <1>1, HandIs
  <1>5. /\ rows \in Rows
        /\ \A g \in CitusGroup : g /= hand.group => rows[g] = Now[g]
        /\ Touches(hand) => rows[hand.group] = hand.row
    BY <1>3, <1>4, UpdateIs
  <1>6. CASE Raises /\ UNCHANGED db
    <2>1. faults' \in 0 .. MaxFaults
      <3>1. May \/ faults' = faults
        BY NothingIs, <1>6 DEF process_task, MayFail, MaySucceed
      <3> QED BY <1>3, <3>1, FaultIs
    <2>2. CitusIInv' /\ db' = db
      BY <1>1, <1>2, <1>6, <2>1, RaisesStep
    <2> QED BY <2>2 DEF CommitsNoPause
  <1>7. CASE /\ skip \/ Applies(hand, Now)
             /\ IF skip THEN faults' = faults /\ UNCHANGED <<db, tx>>
                ELSE /\ MaySucceed(Touches(hand))
                     /\ IF tx /= Nothing \/ (opens /\ in_flight = Nothing) THEN tx' = rows /\ db' = db
                        ELSE db' = rows /\ tx' = tx
             /\ hand' = [hand EXCEPT !.known = @ \/ (~skip /\ Touches(hand))]
             /\ changed' = ~opens /\ stage' = IF opens THEN "finish" ELSE "commit"
             /\ UNCHANGED <<in_flight, load>>
    <2>1. /\ faults' = faults /\ in_flight' = in_flight /\ load' = load
          /\ ~skip => serving \in {"primary", "stopping", "replica"} /\ (serving = "replica" => ~Touches(hand))
      BY <1>7 DEF MaySucceed, Answers
    <2>2. opens => changed' = FALSE /\ stage' = "finish"
      BY <1>7, Zenon
    <2>3. ~opens => changed' = TRUE /\ stage' = "commit"
      BY <1>7, Zenon
    <2>4. /\ hand' \in Task /\ hand'.group = hand.group /\ hand'.row = hand.row /\ hand'.event = hand.event
          /\ IsTask(hand)' /\ hand' /= Nothing
      <3> DEFINE has_id == hand.known \/ (~skip /\ Touches(hand))
      <3>1. has_id \in BOOLEAN
        OBVIOUS
      <3>2. hand' = [hand EXCEPT !.known = has_id]
        BY <1>7
      <3> HIDE DEF has_id
      <3>3. hand' \in Task /\ hand'.group = hand.group /\ hand'.row = hand.row /\ hand'.event = hand.event
        BY <1>4, <3>1, <3>2 DEF Task
      <3> QED BY <1>4, <3>3, NothingIs DEF IsTask
    <2>5. skip => /\ ~opens /\ db' = db /\ tx' = tx /\ in_flight /= Nothing /\ in_flight.row = hand.row
      BY <1>7 DEF AlreadyDone
    <2>6. ~skip => \/ (tx /= Nothing \/ (opens /\ in_flight = Nothing)) /\ tx' = rows /\ db' = db
                   \/ tx = Nothing /\ ~(opens /\ in_flight = Nothing) /\ db' = rows /\ tx' = tx
      BY <1>7
    <2>7. ~opens <=> hand.event = "after_promote"
      OBVIOUS
    <2>8. Touches(hand) <=> hand.known \/ hand.event /= "before_demote"
      BY DEF Touches
    <2> HIDE DEF opens, skip, rows
    <2>9. db' \in Rows /\ tx' \in Rows \cup {Nothing}
      BY <1>1, <1>5, <2>5, <2>6 DEF CitusTypes
    <2>10. CitusTypes'
      BY <1>1, <1>2, <2>1, <2>2, <2>3, <2>9 DEF CitusTypes
    <2>11. InHand'
      <3>1. Working' /\ ~(stage' = "load") /\ ~(changed' = Nothing)
        BY <2>2, <2>3, NothingIs DEF Working
      <3>2. in_flight /= Nothing => in_flight.group = hand.group /\ tasks /= <<>>
        BY <1>1 DEF InHand
      <3>3. serving \in {"primary", "down", "replica"} => idx \in DOMAIN tasks /\ tasks[idx].group = hand.group
        BY <1>1 DEF InHand
      <3>4. idx \in Nat \ {0}
        BY <1>1 DEF InHand
      <3>5. Opened' => hand'.event /= "after_promote"
        BY <2>2, <2>3, <2>4, <2>7 DEF Opened
      <3>6. stage' \in {"commit", "finish"} /\ changed' = TRUE => hand'.event = "after_promote"
        BY <2>2, <2>3, <2>4, <2>7
      <3>7. stage' = "commit" => changed' = TRUE
        BY <2>2, <2>3
      <3>8. changed' \in {TRUE, FALSE, Nothing}
        BY <2>2, <2>3
      <3> QED BY <1>2, <2>1, <2>2, <2>3, <2>4, <3>1, <3>2, <3>3, <3>4, <3>5, <3>6, <3>7, <3>8 DEF InHand
    <2>12. ~orphaned => TxKnown' /\ (db' /= db => ~opens) /\ (\A g \in CitusGroup : db'[g] /= db[g] => g = hand.group /\ db'[g] = hand.row)
      <3> SUFFICES ASSUME ~orphaned
                   PROVE  TxKnown' /\ (db' /= db => ~opens) /\ (\A g \in CitusGroup : db'[g] /= db[g] => g = hand.group /\ db'[g] = hand.row)
        OBVIOUS
      <3>1. TxKnown /\ ~Opened /\ ~Committed
        BY <1>1 DEF Tx, Opened, Committed
      <3>2. (in_flight /= Nothing <=> tx /= Nothing) /\ (in_flight /= Nothing => in_flight.group = hand.group)
        BY <1>1, <3>1 DEF TxKnown, InHand
      <3>3. tx /= Nothing => \A g \in CitusGroup : tx[g] /= db[g] => g = hand.group
        BY <3>1, <3>2 DEF TxKnown, Pending
      <3>4. in_flight /= Nothing => in_flight \in Task /\ in_flight.event \in Event /\ (in_flight.event /= "before_demote" => in_flight.event = "before_promote")
        BY <1>1 DEF CitusTypes, IsTask, Task, Event
      <3>5. CASE skip
        <4>1. ~opens /\ db' = db /\ tx' = tx /\ in_flight /= Nothing /\ in_flight.row = hand.row /\ tx /= Nothing
          BY <2>5, <3>2, <3>5
        <4>2. in_flight.event = "before_promote"
          BY <1>1, <1>4, <2>7, <3>4, <4>1 DEF CitusTypes, IsTask
        <4>3. tx[hand.group] = hand.row
          BY <1>1, <3>1, <3>2, <4>1, <4>2 DEF TxKnown
        <4>4. Now'[hand'.group] = hand'.row
          BY <2>4, <4>1, <4>3 DEF Now
        <4>5. serving /= "replica"
          BY <3>1, <4>1, <4>2 DEF TxKnown
        <4>6. ~Opened' /\ ~Committed' /\ stage' = "commit"
          BY <2>3, <4>1 DEF Opened, Committed
        <4>7. TxKnown'
          BY <1>2, <2>1, <3>2, <3>3, <4>1, <4>4, <4>5, <4>6 DEF TxKnown, Pending
        <4> QED BY <4>1, <4>7
      <3>6. CASE ~skip /\ opens
        <4>1. tx' = rows /\ db' = db /\ tx' /= Nothing
          BY <1>5, <2>6, <3>2, <3>6, NothingIs
        <4>2. Opened' /\ ~Committed' /\ stage' = "finish"
          BY <2>2, <3>6 DEF Opened, Committed
        <4>3. \A g \in CitusGroup : tx'[g] /= db[g] => g = hand.group
          <5>1. \A g \in CitusGroup : Now[g] /= db[g] => g = hand.group
            BY <3>3 DEF Now
          <5> QED BY <1>5, <4>1, <5>1
        <4>4. hand.event = "before_promote" => tx'[hand.group] = hand.row
          BY <1>5, <2>8, <4>1
        <4>5. serving = "replica" => hand.event = "before_demote"
          BY <2>1, <2>8, <3>6
        <4>6. serving = "replica" => (in_flight /= Nothing => in_flight.event = "before_demote")
          BY <3>1 DEF TxKnown
        <4>7. TxKnown'
          BY <1>2, <2>1, <2>4, <4>1, <4>2, <4>3, <4>4, <4>5, <4>6 DEF TxKnown, Pending
        <4> QED BY <4>1, <4>7
      <3>7. CASE ~skip /\ ~opens
        <4>1. Touches(hand) /\ serving /= "replica" /\ rows[hand.group] = hand.row
          BY <1>5, <2>1, <2>7, <2>8, <3>7
        <4>2. ~Opened' /\ ~Committed' /\ stage' = "commit"
          BY <2>3, <3>7 DEF Opened, Committed
        <4>3. CASE tx /= Nothing
          <5>1. tx' = rows /\ db' = db /\ tx' /= Nothing
            BY <1>5, <2>6, <3>7, <4>3, NothingIs
          <5>2. \A g \in CitusGroup : tx'[g] /= db[g] => g = hand.group
            BY <1>5, <3>3, <4>3, <5>1 DEF Now
          <5>3. Now'[hand'.group] = hand'.row
            BY <2>4, <4>1, <5>1 DEF Now
          <5>4. in_flight' /= Nothing /\ in_flight'.group = hand'.group
            BY <2>1, <2>4, <3>2, <4>3
          <5>5. TxKnown'
            BY <1>2, <2>1, <2>4, <4>1, <4>2, <5>1, <5>2, <5>3, <5>4 DEF TxKnown, Pending
          <5> QED BY <5>1, <5>5
        <4>4. CASE tx = Nothing
          <5>1. db' = rows /\ tx' = Nothing /\ Now = db /\ in_flight' = Nothing
            BY <2>1, <2>6, <3>2, <3>7, <4>4 DEF Now
          <5>2. Now'[hand'.group] = hand'.row
            BY <2>4, <4>1, <5>1 DEF Now
          <5>3. TxKnown'
            BY <1>2, <4>1, <4>2, <5>1, <5>2 DEF TxKnown
          <5>4. \A g \in CitusGroup : db'[g] /= db[g] => g = hand.group /\ db'[g] = hand.row
            BY <1>5, <4>1, <5>1
          <5> QED BY <3>7, <5>3, <5>4
        <4> QED BY <4>3, <4>4
      <3> QED BY <3>5, <3>6, <3>7
    <2>13. Tx'
      <3>1. serving' \in {"down", "demoted"} => tx' = Nothing
        <4>1. skip => tx' = tx
          BY <2>5
        <4>2. serving \in {"down", "demoted"} => skip
          BY <2>1
        <4> QED BY <1>1, <1>2, <4>1, <4>2 DEF Tx
      <3> QED BY <1>2, <2>12, <3>1 DEF Tx
    <2>14. CommitsNoPause
      <3> SUFFICES ASSUME ~orphaned, NEW g \in CitusGroup, db'[g] /= db[g], db'[g].demoted
                   PROVE  FALSE
        BY DEF CommitsNoPause
      <3>1. ~opens /\ db'[g] = hand.row
        BY <2>12
      <3> QED BY <1>4, <2>7, <3>1
    <2>15. CacheRight'
      <3> SUFFICES ASSUME Registers', ~load', NEW g \in CitusGroup, cache'[g] /= Nothing, cache'[g].row /= db'[g]
                   PROVE  stage' \in {"commit", "finish"} /\ changed' = TRUE /\ hand'.group = g
        BY DEF CacheRight
      <3>1. Registers /\ ~orphaned
        BY <1>2 DEF Registers
      <3>2. cache[g].row = db[g]
        BY <1>1, <1>2, <2>1, <3>1 DEF CacheRight
      <3>3. db'[g] /= db[g] /\ ~opens /\ g = hand.group
        BY <1>2, <2>12, <3>1, <3>2
      <3> QED BY <2>3, <2>4, <3>3
    <2>16. AskedFor'
      <3>1. ASSUME Registers', NEW g \in synced' PROVE Queued(g)' \/ Pending(g)' \/ db'[g] = Row(group_leader'[g], FALSE)
        <4>1. Registers /\ ~orphaned /\ g \in synced /\ g \in CitusGroup
          BY <1>1, <1>2, <3>1 DEF Registers, CitusTypes
        <4>2. Queued(g) => Queued(g)'
          BY <1>2 DEF Queued
        <4>3. CASE g = hand.group
          BY <1>4, <4>1, <4>2, <4>3
        <4>4. CASE g /= hand.group
          <5>1. db'[g] = db[g]
            BY <2>12, <4>1, <4>4
          <5> QED BY <1>1, <1>2, <2>1, <4>1, <4>2, <5>1 DEF AskedFor, Pending
        <4> QED BY <4>3, <4>4
      <3> QED BY <1>1, <1>2, <3>1 DEF AskedFor
    <2> QED BY <2>10, <2>11, <2>13, <2>14, <2>15, <2>16 DEF CitusIInv
  <1> QED BY <1>6, <1>7 DEF process_task, Raises

LEMMA CommitStep == ASSUME CitusIInv, Commit PROVE CitusIInv' /\ CommitsNoPause
  <1>1. CitusTypes /\ InHand /\ Tx /\ CacheRight /\ AskedFor /\ Working /\ stage = "commit" /\ changed = TRUE /\ hand.event = "after_promote"
    BY DEF CitusIInv, Working, Commit, InHand
  <1>2. UNCHANGED <<serving, group_leader, cache, tasks, idx, orphaned, synced>>
    BY DEF Commit
  <1>3. faults \in 0 .. MaxFaults /\ db \in Rows /\ Now \in Rows
    BY <1>1 DEF CitusTypes, Now
  <1>4. /\ hand.group \in CitusGroup /\ hand.row \in Address /\ ~hand.row.demoted
        /\ Registers => Queued(hand.group)
    BY <1>1, HandIs
  <1>5. CASE in_flight /= Nothing /\ MayFail(FALSE) /\ Raises
    <2>1. faults' \in 0 .. MaxFaults
      BY <1>3, <1>5, FaultIs DEF MayFail
    <2>2. CitusIInv' /\ db' = db
      BY <1>1, <1>2, <1>5, <2>1, RaisesStep
    <2> QED BY <2>2 DEF CommitsNoPause
  <1>6. CASE /\ stage' = "finish" /\ UNCHANGED <<in_flight, load, changed, hand>>
             /\ \/ in_flight = Nothing /\ faults' = faults /\ UNCHANGED <<db, tx>>
                \/ in_flight /= Nothing /\ MaySucceed(FALSE) /\ db' = Now /\ tx' = Nothing
    <2>1. faults' = faults /\ Committed' /\ ~Opened'
      BY <1>1, <1>6 DEF MaySucceed, Committed, Opened
    <2>2. db' \in Rows /\ tx' \in Rows \cup {Nothing}
      BY <1>1, <1>3, <1>6 DEF CitusTypes
    <2>3. CitusTypes'
      BY <1>1, <1>2, <1>6, <2>1, <2>2 DEF CitusTypes
    <2>4. InHand'
      BY <1>1, <1>2, <1>6, <2>1, NothingIs DEF InHand, Working
    <2>5. ~orphaned => /\ tx' = Nothing /\ db' = Now /\ Now[hand.group] = hand.row /\ serving /= "replica"
                       /\ \A g \in CitusGroup : Now[g] /= db[g] => g = hand.group
      <3> SUFFICES ASSUME ~orphaned
                   PROVE  /\ tx' = Nothing /\ db' = Now /\ Now[hand.group] = hand.row /\ serving /= "replica"
                          /\ \A g \in CitusGroup : Now[g] /= db[g] => g = hand.group
        OBVIOUS
      <3>1. TxKnown /\ ~Opened
        BY <1>1 DEF Tx, Opened
      <3>2. in_flight = Nothing => tx = Nothing
        BY <3>1 DEF TxKnown
      <3>3. tx' = Nothing /\ db' = Now
        BY <1>6, <3>2 DEF Now
      <3>4. Now[hand.group] = hand.row /\ serving /= "replica"
        BY <1>1, <3>1 DEF TxKnown
      <3>5. \A g \in CitusGroup : Now[g] /= db[g] => g = hand.group
        BY <1>1, <3>1 DEF TxKnown, Now, Pending, InHand
      <3> QED BY <3>3, <3>4, <3>5
    <2>6. Tx'
      <3>1. tx = Nothing => tx' = Nothing
        BY <1>6
      <3>2. ~orphaned => TxKnown'
        BY <1>2, <1>6, <2>1, <2>5 DEF TxKnown
      <3> QED BY <1>1, <1>2, <3>1, <3>2 DEF Tx
    <2>7. CommitsNoPause
      BY <1>4, <2>5 DEF CommitsNoPause
    <2>8. CacheRight'
      <3> SUFFICES ASSUME Registers', ~load', NEW g \in CitusGroup, cache'[g] /= Nothing, cache'[g].row /= db'[g]
                   PROVE  hand'.group = g
        BY <1>1, <1>6 DEF CacheRight
      <3>1. Registers /\ ~orphaned
        BY <1>2 DEF Registers
      <3>2. cache[g].row = db[g] \/ hand.group = g
        BY <1>1, <1>2, <1>6, <3>1 DEF CacheRight
      <3> QED BY <1>2, <1>6, <2>5, <3>1, <3>2
    <2>9. AskedFor'
      <3>1. ASSUME Registers', NEW g \in synced' PROVE Queued(g)' \/ Pending(g)' \/ db'[g] = Row(group_leader'[g], FALSE)
        <4>1. Registers /\ ~orphaned /\ g \in synced /\ g \in CitusGroup
          BY <1>1, <1>2, <3>1 DEF Registers, CitusTypes
        <4>2. Queued(g) => Queued(g)'
          BY <1>2 DEF Queued
        <4>3. CASE g = hand.group
          BY <1>4, <4>1, <4>2, <4>3
        <4>4. CASE g /= hand.group
          <5>1. db'[g] = db[g]
            BY <2>5, <4>1, <4>4
          <5> QED BY <1>1, <1>2, <1>6, <4>1, <4>2, <5>1 DEF AskedFor, Pending
        <4> QED BY <4>3, <4>4
      <3> QED BY <1>1, <1>2, <3>1 DEF AskedFor
    <2> QED BY <2>3, <2>4, <2>6, <2>7, <2>8, <2>9 DEF CitusIInv
  <1> QED BY <1>5, <1>6 DEF Commit

LEMMA ProcessTasksStep == ASSUME CitusIInv, process_tasks PROVE CitusIInv'
  <1>1. CitusTypes /\ InHand /\ Tx /\ CacheRight /\ AskedFor /\ Working /\ stage = "finish"
    BY DEF CitusIInv, Working, process_tasks
  <1>2. /\ stage' = "next" /\ hand' = Nothing /\ idx' = 0 /\ changed' = Nothing
        /\ UNCHANGED <<db, tx, serving, group_leader, load, faults>>
    BY DEF process_tasks
  <1>3. /\ synced' = synced \ (IF changed = Nothing \/ orphaned THEN {hand.group} ELSE {})
        /\ orphaned' = (orphaned \/ (tasks = <<>> /\ tx /= Nothing))
    BY DEF process_tasks
  <1>4. /\ IsTask(hand) /\ hand \in Task /\ hand.group \in CitusGroup /\ hand.row \in Address
        /\ hand.event = "after_promote" => ~hand.row.demoted
    BY <1>1, HandIs
  <1>5. orphaned' \in BOOLEAN /\ (orphaned' <=> orphaned \/ (tasks = <<>> /\ tx /= Nothing))
    BY <1>3, Zenon
  <1>6. changed \in {TRUE, FALSE, Nothing} /\ idx \in Nat \ {0}
    BY <1>1 DEF InHand
  <1>7. ~Working' /\ ~Opened' /\ ~Committed'
    BY <1>2 DEF Working, Opened, Committed
  <1>8. InHand'
    BY <1>2, <1>7 DEF InHand
  <1>9. CASE tasks = <<>>
    <2>1. UNCHANGED <<cache, in_flight, tasks>>
      BY <1>9 DEF process_tasks
    <2>2. in_flight = Nothing /\ ~(serving \in {"primary", "down", "replica"})
      BY <1>1, <1>9 DEF InHand
    <2>3. CitusTypes'
      BY <1>1, <1>2, <1>3, <1>5, <2>1 DEF CitusTypes
    <2>4. Tx'
      <3>1. ~orphaned' => tx = Nothing
        BY <1>5, <1>9
      <3> QED BY <1>1, <1>2, <1>7, <2>1, <2>2, <3>1 DEF Tx, TxKnown
    <2>5. ~Registers'
      BY <1>2, <2>2 DEF Registers
    <2>6. AskedFor'
      BY <1>1, <1>2, <1>3, <2>1, <2>5 DEF AskedFor
    <2> QED BY <1>8, <2>3, <2>4, <2>5, <2>6 DEF CitusIInv, CacheRight
  <1>10. CASE tasks /= <<>>
    <2>1. /\ cache' = IF changed = TRUE THEN [cache EXCEPT ![hand.group] = [row |-> hand.row, known |-> hand.known]] ELSE cache
          /\ in_flight' = IF changed = FALSE THEN [hand EXCEPT !.known = FALSE] ELSE Nothing
          /\ tasks' = Popped(tasks)
      BY <1>10 DEF process_tasks
    <2>2. (orphaned' <=> orphaned) /\ orphaned' \in BOOLEAN
      BY <1>5, <1>10
    <2>3. /\ Tasks(tasks) /\ Tasks(tasks')
          /\ \A j \in DOMAIN tasks' : \E k \in DOMAIN tasks : tasks'[j] = tasks[k]
          /\ \A k \in DOMAIN tasks :
                \/ k = idx /\ tasks[k].group = hand.group /\ tasks[k].row = hand.row /\ tasks[k].event = hand.event
                \/ \E j \in DOMAIN tasks' : tasks'[j] = tasks[k]
      BY <1>1, <1>6, <2>1, PoppedIs DEF CitusTypes
    <2>4. ASSUME Opened
          PROVE  /\ in_flight' /= Nothing /\ IsTask(in_flight)' /\ in_flight'.group = hand.group /\ in_flight'.row = hand.row
                 /\ in_flight'.event = hand.event /\ hand.event /= "after_promote" /\ cache' = cache
      <3>1. in_flight' = [hand EXCEPT !.known = FALSE] /\ cache' = cache
        BY <2>1, <2>4 DEF Opened
      <3>2. in_flight' \in Task /\ in_flight'.group = hand.group /\ in_flight'.row = hand.row /\ in_flight'.event = hand.event
        BY <1>4, <3>1 DEF Task
      <3>3. hand.event /= "after_promote"
        BY <1>1, <2>4 DEF InHand
      <3> QED BY <1>4, <3>1, <3>2, <3>3, NothingIs DEF IsTask
    <2>5. ASSUME Committed
          PROVE  /\ in_flight' = Nothing /\ ~Opened /\ cache' \in [CitusGroup -> {Nothing} \cup Entry]
                 /\ \A g \in CitusGroup : g /= hand.group => cache'[g] = cache[g]
                 /\ cache'[hand.group].row = hand.row /\ hand.event = "after_promote"
      <3> DEFINE e == [row |-> hand.row, known |-> hand.known]
      <3>1. in_flight' = Nothing /\ cache' = [cache EXCEPT ![hand.group] = e] /\ ~Opened
        BY <2>1, <2>5 DEF Committed, Opened
      <3>2. e \in Entry /\ e.row = hand.row
        BY <1>4 DEF Entry, Task
      <3>3. cache \in [CitusGroup -> {Nothing} \cup Entry] /\ hand.event = "after_promote"
        BY <1>1, <2>5 DEF CitusTypes, InHand, Committed
      <3> HIDE DEF e
      <3> QED BY <1>4, <3>1, <3>2, <3>3
    <2>6. ASSUME ~Opened, ~Committed
          PROVE  in_flight' = Nothing /\ cache' = cache /\ changed = Nothing /\ in_flight = Nothing
      <3>1. changed = Nothing
        BY <1>1, <1>6, <2>6 DEF Opened, Committed
      <3>2. in_flight = Nothing
        BY <1>1, <3>1 DEF InHand
      <3> QED BY <2>1, <3>1, <3>2, NothingIs
    <2>7. CitusTypes'
      <3>1. cache' \in [CitusGroup -> {Nothing} \cup Entry]
        BY <1>1, <2>4, <2>5, <2>6 DEF CitusTypes
      <3>2. in_flight' /= Nothing => IsTask(in_flight)' /\ in_flight'.event /= "after_promote"
        BY <2>4, <2>5, <2>6
      <3> QED BY <1>1, <1>2, <1>3, <2>2, <2>3, <3>1, <3>2 DEF CitusTypes
    <2>8. Tx'
      <3>1. ASSUME ~orphaned PROVE TxKnown'
        <4>1. TxKnown
          BY <1>1, <3>1 DEF Tx
        <4>2. CASE Opened
          <5>1. tx /= Nothing /\ \A g \in CitusGroup : tx[g] /= db[g] => g = hand.group
            BY <1>1, <4>1, <4>2 DEF TxKnown, Pending, InHand
          <5>2. hand.event = "before_promote" => tx[hand.group] = hand.row
            BY <4>1, <4>2 DEF TxKnown
          <5>3. serving = "replica" => hand.event = "before_demote"
            BY <4>1, <4>2 DEF TxKnown
          <5> QED BY <1>2, <1>7, <2>4, <4>2, <5>1, <5>2, <5>3 DEF TxKnown, Pending
        <4>3. CASE Committed
          <5>1. tx = Nothing
            BY <4>1, <4>3 DEF TxKnown
          <5> QED BY <1>2, <1>7, <2>5, <4>3, <5>1 DEF TxKnown
        <4>4. CASE ~Opened /\ ~Committed
          <5>1. tx = Nothing
            BY <2>6, <4>1, <4>4 DEF TxKnown
          <5> QED BY <1>2, <1>7, <2>6, <4>4, <5>1 DEF TxKnown
        <4> QED BY <4>2, <4>3, <4>4
      <3> QED BY <1>1, <1>2, <2>2, <3>1 DEF Tx
    <2>9. CacheRight'
      <3> SUFFICES ASSUME Registers', ~load', NEW g \in CitusGroup, cache'[g] /= Nothing
                   PROVE  cache'[g].row = db'[g]
        BY DEF CacheRight
      <3>1. Registers /\ ~orphaned /\ TxKnown
        BY <1>1, <1>2, <2>2 DEF Registers, Tx
      <3>2. CASE Committed /\ g = hand.group
        BY <1>2, <2>5, <3>1, <3>2 DEF TxKnown
      <3>3. CASE ~(Committed /\ g = hand.group)
        <4>1. cache'[g] = cache[g]
          BY <2>4, <2>5, <2>6, <3>3
        <4>2. cache[g].row = db[g]
          BY <1>1, <1>2, <3>1, <3>3, <4>1 DEF CacheRight, Committed
        <4> QED BY <1>2, <4>1, <4>2
      <3> QED BY <3>2, <3>3
    <2>10. AskedFor'
      <3>1. ASSUME NEW g \in synced', NEW j \in DOMAIN tasks', tasks'[j].group = g
            PROVE  tasks'[j].row.host = group_leader'[g]
        <4>1. g \in synced
          BY <1>3
        <4> QED BY <1>1, <1>2, <2>3, <3>1, <4>1 DEF AskedFor
      <3>2. ASSUME Registers', NEW g \in synced' PROVE Queued(g)' \/ Pending(g)' \/ db'[g] = Row(group_leader'[g], FALSE)
        <4>1. Registers /\ ~orphaned /\ g \in synced /\ g \in CitusGroup /\ TxKnown
          BY <1>1, <1>2, <1>3, <2>2, <3>2 DEF Registers, CitusTypes, Tx
        <4>2. idx \in DOMAIN tasks /\ tasks[idx].group = hand.group
          BY <1>1, <4>1 DEF InHand, Registers
        <4>3. ASSUME NEW k \in DOMAIN tasks, tasks[k].group = g
              PROVE  Queued(g)' \/ Pending(g)' \/ db'[g] = Row(group_leader'[g], FALSE)
          <5>1. CASE \E j \in DOMAIN tasks' : tasks'[j] = tasks[k]
            BY <4>3, <5>1 DEF Queued
          <5>2. CASE tasks[k].group = hand.group /\ tasks[k].row = hand.row
            <6>1. CASE Opened
              BY <2>4, <4>3, <5>2, <6>1 DEF Pending
            <6>2. CASE Committed
              <7>1. db[g] = hand.row /\ ~hand.row.demoted
                BY <1>4, <2>5, <4>1, <4>3, <5>2, <6>2 DEF TxKnown
              <7>2. hand.row.host = group_leader[g]
                BY <1>1, <4>1, <4>3, <5>2 DEF AskedFor
              <7>3. hand.row = Row(group_leader[g], FALSE)
                BY <1>4, <7>1, <7>2 DEF Address, Row
              <7> QED BY <1>2, <7>1, <7>3
            <6>3. CASE ~Opened /\ ~Committed
              <7>1. g \notin synced'
                BY <1>3, <2>6, <4>3, <5>2, <6>3
              <7> QED BY <3>2, <7>1
            <6> QED BY <6>1, <6>2, <6>3
          <5> QED BY <2>3, <5>1, <5>2
        <4>4. CASE Pending(g)
          <5>1. hand.group = g
            BY <1>1, <4>4 DEF Pending, InHand
          <5> QED BY <4>2, <4>3, <5>1
        <4>5. CASE Queued(g)
          BY <4>3, <4>5 DEF Queued
        <4>6. CASE db[g] = Row(group_leader[g], FALSE)
          BY <1>2, <4>6
        <4> QED BY <1>1, <4>1, <4>4, <4>5, <4>6 DEF AskedFor
      <3> QED BY <3>1, <3>2 DEF AskedFor
    <2> QED BY <1>8, <2>7, <2>8, <2>9, <2>10 DEF CitusIInv
  <1> QED BY <1>9, <1>10

-----------------------------------------------------------------------------
(* Citus: Postgres and the other groups.                                   *)

LEMMA OnDemoteStep == ASSUME CitusIInv, on_demote PROVE CitusIInv'
  <1>0. /\ serving = "primary" /\ serving' = "stopping" /\ May
        /\ cache' = [g \in CitusGroup |-> Nothing] /\ tasks' = <<>> /\ in_flight' = Nothing
        /\ UNCHANGED <<db, tx, group_leader, load, stage, hand, idx, changed, synced>>
    BY DEF on_demote, thread
  <1>1. CitusTypes /\ InHand /\ Tx /\ AskedFor /\ faults \in 0 .. MaxFaults
    BY DEF CitusIInv, CitusTypes
  <1>2. orphaned' \in BOOLEAN /\ (orphaned' <=> orphaned \/ tx /= Nothing)
    <2>1. orphaned' = (orphaned \/ tx /= Nothing)
      BY DEF on_demote
    <2> QED BY <2>1, Zenon
  <1>3. faults' \in 0 .. MaxFaults
    BY <1>0, <1>1, FaultIs
  <1>4. CitusTypes'
    <2>1. cache' \in [CitusGroup -> {Nothing} \cup Entry]
      BY <1>0
    <2>2. Tasks(tasks')
      BY <1>0, NoTasks
    <2> QED BY <1>0, <1>1, <1>2, <1>3, <2>1, <2>2 DEF CitusTypes
  <1>5. InHand'
    BY <1>0, <1>1 DEF InHand, Working, Opened
  <1>6. Tx'
    <2>1. ~orphaned' => tx = Nothing /\ TxKnown
      BY <1>1, <1>2 DEF Tx
    <2>2. ~orphaned' => TxKnown'
      BY <1>0, <2>1 DEF TxKnown, Now, Opened, Committed
    <2> QED BY <1>0, <2>2 DEF Tx
  <1>7. CacheRight' /\ AskedFor'
    <2>1. ~Registers'
      BY <1>0 DEF Registers
    <2>2. DOMAIN tasks' = {}
      BY <1>0
    <2> QED BY <2>1, <2>2 DEF CacheRight, AskedFor
  <1> QED BY <1>4, <1>5, <1>6, <1>7 DEF CitusIInv

LEMMA PostgresStopsStep == ASSUME CitusIInv, PostgresStops PROVE CitusIInv'
  <1>0. /\ serving' \in {"demoted", "down"} /\ (serving' = "down" => serving = "primary")
        /\ May \/ faults' = faults
        /\ tx' = Nothing
        /\ UNCHANGED <<db, group_leader, cache, tasks, in_flight, load, stage, hand, idx, changed, synced>>
    BY DEF PostgresStops, thread
  <1>1. CitusTypes /\ InHand /\ Tx /\ CacheRight /\ AskedFor /\ faults \in 0 .. MaxFaults
    BY DEF CitusIInv, CitusTypes
  <1>2. orphaned' \in BOOLEAN /\ (orphaned' <=> orphaned \/ tx /= Nothing)
    <2>1. orphaned' = (orphaned \/ tx /= Nothing)
      BY DEF PostgresStops
    <2> QED BY <2>1, Zenon
  <1>3. faults' \in 0 .. MaxFaults
    BY <1>0, <1>1, FaultIs
  <1>4. CitusTypes'
    BY <1>0, <1>1, <1>2, <1>3 DEF CitusTypes
  <1>5. InHand'
    BY <1>0, <1>1 DEF InHand, Working, Opened
  <1>6. Tx'
    <2>1. ~orphaned' => tx = Nothing /\ TxKnown
      BY <1>1, <1>2 DEF Tx
    <2>2. ~orphaned' => TxKnown'
      BY <1>0, <2>1 DEF TxKnown, Now, Opened, Committed
    <2> QED BY <1>0, <2>2 DEF Tx
  <1>7. Registers' => Registers
    BY <1>0, <1>2 DEF Registers
  <1>8. CacheRight'
    BY <1>0, <1>1, <1>7 DEF CacheRight
  <1>9. AskedFor'
    BY <1>0, <1>1, <1>7 DEF AskedFor, Queued, Pending
  <1> QED BY <1>4, <1>5, <1>6, <1>8, <1>9 DEF CitusIInv

LEMMA StartStep == ASSUME CitusIInv, NEW kind \in {"primary", "replica"}, Start(kind) PROVE CitusIInv'
  <1>0. /\ stage \in {"wait", "next"} /\ serving \in {"down", "demoted"} /\ serving' \in {"primary", "replica"}
        /\ serving' = "primary" => serving = "down"
        /\ UNCHANGED <<db, tx, group_leader, cache, tasks, in_flight, load, stage, hand, idx, changed, orphaned, synced, faults>>
    BY DEF Start, thread, history
  <1>1. CitusTypes /\ InHand /\ Tx /\ CacheRight /\ AskedFor
    BY DEF CitusIInv
  <1>2. CitusTypes'
    BY <1>0, <1>1 DEF CitusTypes
  <1>3. InHand'
    BY <1>0, <1>1 DEF InHand, Working, Opened
  <1>4. Tx'
    <2>1. tx = Nothing /\ ~Committed /\ ~Opened
      BY <1>0, <1>1 DEF Tx, Committed, Opened
    <2>2. ~orphaned => TxKnown /\ in_flight = Nothing
      BY <1>1, <2>1 DEF Tx, TxKnown
    <2>3. ~orphaned => TxKnown'
      BY <1>0, <2>1, <2>2 DEF TxKnown, Committed, Opened
    <2> QED BY <1>0, <2>1, <2>3 DEF Tx
  <1>5. Registers' => Registers
    BY <1>0 DEF Registers
  <1>6. CacheRight'
    BY <1>0, <1>1, <1>5 DEF CacheRight
  <1>7. AskedFor'
    BY <1>0, <1>1, <1>5 DEF AskedFor, Queued, Pending
  <1> QED BY <1>2, <1>3, <1>4, <1>6, <1>7 DEF CitusIInv

LEMMA ElsewhereStep ==
  ASSUME CitusIInv, NEW g \in CitusGroup, Elsewhere(g)
  PROVE  CitusIInv' /\ CommitsNoPause
  <1>1. CitusTypes /\ InHand /\ Tx /\ AskedFor /\ db \in Rows /\ tx \in Rows \cup {Nothing}
    BY DEF CitusIInv, CitusTypes
  <1>2. PICK h \in CitusHosts[g] :
           /\ db' = [db EXCEPT ![g] = Row(h, FALSE)]
           /\ tx' = IF tx = Nothing THEN Nothing ELSE [tx EXCEPT ![g] = Row(h, FALSE)]
    BY DEF Elsewhere
  <1>3. /\ serving = "replica"
        /\ UNCHANGED <<serving, group_leader, cache, tasks, in_flight, load, stage, hand, idx, changed, orphaned, synced, faults>>
    BY DEF Elsewhere, thread
  <1> DEFINE row == Row(h, FALSE)
  <1>4. row \in Address /\ ~row.demoted
    BY LeaderRow
  <1> HIDE DEF row
  <1>5. db' \in Rows /\ tx' \in Rows \cup {Nothing} /\ (tx = Nothing <=> tx' = Nothing)
        /\ (\A k \in CitusGroup : k /= g => db'[k] = db[k] /\ (tx /= Nothing => tx'[k] = tx[k]))
        /\ db'[g] = row /\ (tx /= Nothing => tx'[g] = row)
    <2>1. db' = [db EXCEPT ![g] = row] /\ tx' = IF tx = Nothing THEN Nothing ELSE [tx EXCEPT ![g] = row]
      BY <1>2 DEF row
    <2>2. db' \in Rows /\ db'[g] = row /\ \A k \in CitusGroup : k /= g => db'[k] = db[k]
      BY <1>1, <1>4, <2>1 DEF Rows
    <2>3. CASE tx = Nothing
      BY <2>1, <2>2, <2>3
    <2>4. CASE tx /= Nothing
      <3>1. tx' = [tx EXCEPT ![g] = row] /\ tx \in Rows
        BY <1>1, <2>1, <2>4
      <3>2. tx' \in Rows /\ tx'[g] = row /\ \A k \in CitusGroup : k /= g => tx'[k] = tx[k]
        BY <1>4, <3>1 DEF Rows
      <3> QED BY <2>2, <2>4, <3>2, NothingIs
    <2> QED BY <2>3, <2>4
  <1>6. CitusTypes'
    BY <1>1, <1>3, <1>5 DEF CitusTypes
  <1>7. InHand'
    BY <1>1, <1>3 DEF InHand, Working, Opened
  <1>8. Tx'
    <2>1. ASSUME ~orphaned PROVE TxKnown'
      <3>1. TxKnown
        BY <1>1, <2>1 DEF Tx
      <3>2. /\ stage /= "commit" /\ ~Committed
            /\ (in_flight /= Nothing => in_flight.event = "before_demote")
            /\ (Opened => hand.event = "before_demote")
        BY <1>3, <3>1 DEF TxKnown
      <3>3. tx' /= Nothing => \A k \in CitusGroup : tx'[k] /= db'[k] => Pending(k) \/ (Opened /\ k = hand.group)
        BY <1>5, <3>1 DEF TxKnown
      <3> QED BY <1>3, <1>5, <3>1, <3>2, <3>3 DEF TxKnown, Committed, Opened, Pending
    <2> QED BY <1>3, <2>1 DEF Tx
  <1>9. CacheRight' /\ AskedFor'
    <2>1. ~Registers'
      BY <1>3 DEF Registers
    <2> QED BY <1>1, <1>3, <2>1 DEF CacheRight, AskedFor
  <1>10. CommitsNoPause
    BY <1>4, <1>5 DEF CommitsNoPause
  <1> QED BY <1>6, <1>7, <1>8, <1>9, <1>10 DEF CitusIInv

LEMMA ReplicaPromotedStep == ASSUME CitusIInv, ReplicaPromoted PROVE CitusIInv'
  <1>0. /\ serving = "replica" /\ serving' = "primary" /\ load' = TRUE /\ synced' = {}
        /\ UNCHANGED <<db, tx, group_leader, cache, tasks, in_flight, stage, hand, idx, changed, orphaned, faults>>
    BY DEF ReplicaPromoted, schedule_cache_rebuild, thread
  <1>1. CitusTypes /\ InHand /\ Tx
    BY DEF CitusIInv
  <1>2. CitusTypes'
    BY <1>0, <1>1 DEF CitusTypes
  <1>3. InHand'
    BY <1>0, <1>1 DEF InHand, Working, Opened
  <1>4. Tx'
    BY <1>0, <1>1 DEF Tx, TxKnown, Now, Committed, Opened, Pending
  <1>5. CacheRight' /\ AskedFor'
    BY <1>0 DEF CacheRight, AskedFor
  <1> QED BY <1>2, <1>3, <1>4, <1>5 DEF CitusIInv

LEMMA SwitchoverStep == ASSUME CitusIInv, NEW g \in CitusGroup, Switchover(g) PROVE CitusIInv'
  <1>1. CitusTypes /\ InHand /\ Tx /\ CacheRight /\ AskedFor
    BY DEF CitusIInv
  <1>2. PICK h \in CitusHosts[g] : group_leader' = [group_leader EXCEPT ![g] = h]
    BY DEF Switchover
  <1>3. synced' = synced \ {g} /\ UNCHANGED <<db, tx, serving, cache, tasks, in_flight, load, stage, hand, idx, changed, orphaned, faults>>
    BY DEF Switchover, thread
  <1>4. /\ group_leader' \in [CitusGroup -> UNION {CitusHosts[k] : k \in CitusGroup}]
        /\ group_leader'[g] = h /\ \A k \in CitusGroup : k /= g => group_leader'[k] = group_leader[k]
    <2>1. h \in UNION {CitusHosts[k] : k \in CitusGroup}
      OBVIOUS
    <2> DEFINE All == UNION {CitusHosts[k] : k \in CitusGroup}
    <2>2. group_leader \in [CitusGroup -> All] /\ h \in All
      BY <1>1, <2>1 DEF CitusTypes
    <2> HIDE DEF All
    <2>3. group_leader' \in [CitusGroup -> All]
      BY <1>2, <2>2
    <2>4. group_leader'[g] = h /\ \A k \in CitusGroup : k /= g => group_leader'[k] = group_leader[k]
      BY <1>2, <2>2
    <2> QED BY <2>3, <2>4 DEF All
  <1>5. CitusTypes'
    <2>1. \A k \in CitusGroup : group_leader'[k] \in CitusHosts[k]
      BY <1>1, <1>4 DEF CitusTypes
    <2> QED BY <1>1, <1>3, <1>4, <2>1 DEF CitusTypes
  <1>6. InHand'
    BY <1>1, <1>3 DEF InHand, Working, Opened
  <1>7. Tx'
    BY <1>1, <1>3 DEF Tx, TxKnown, Now, Committed, Opened, Pending
  <1>8. CacheRight'
    BY <1>1, <1>3 DEF CacheRight, Registers
  <1>9. AskedFor'
    <2>1. \A k \in synced' : k \in synced /\ k \in CitusGroup /\ group_leader'[k] = group_leader[k]
      BY <1>1, <1>3, <1>4 DEF CitusTypes
    <2> QED BY <1>1, <1>3, <2>1 DEF AskedFor, Registers, Queued, Pending
  <1> QED BY <1>5, <1>6, <1>7, <1>8, <1>9 DEF CitusIInv

LEMMA CitusStutter == ASSUME CitusIInv, UNCHANGED citusVars PROVE CitusIInv'
  <1>0. UNCHANGED <<db, tx, serving, group_leader, cache, tasks, in_flight, load, stage, hand, idx, changed, orphaned, synced, faults>>
    BY DEF citusVars, thread, history
  <1>1. CitusTypes /\ InHand /\ Tx /\ CacheRight /\ AskedFor
    BY DEF CitusIInv
  <1>2. CitusTypes'
    BY <1>0, <1>1 DEF CitusTypes
  <1>3. InHand'
    BY <1>0, <1>1 DEF InHand, Working, Opened
  <1>4. Tx'
    BY <1>0, <1>1 DEF Tx, TxKnown, Now, Committed, Opened, Pending
  <1>5. CacheRight'
    BY <1>0, <1>1 DEF CacheRight, Registers
  <1>6. AskedFor'
    BY <1>0, <1>1 DEF AskedFor, Registers, Queued, Pending
  <1> QED BY <1>2, <1>3, <1>4, <1>5, <1>6 DEF CitusIInv

\* A step keeps the invariant, and commits no pause that the handler knows of.
LEMMA CitusStep == ASSUME CitusIInv, [CitusNext]_citusVars PROVE CitusIInv' /\ CommitsNoPause
  <1>1. CASE \E g \in CitusGroup : Elsewhere(g)
    BY <1>1, ElsewhereStep
  <1>2. CASE process_task \/ Commit
    BY <1>2, ProcessTaskStep, CommitStep
  <1>3. CASE \/ \E g \in CitusGroup, event \in Event : handle_event(g, event)
             \/ \E g \in CitusGroup : Switchover(g) \/ \E h \in CitusHosts[g] : sync_meta_data(g, h)
             \/ \E kind \in {"primary", "replica"} : Start(kind)
    <2>1. CitusIInv'
      BY <1>3, HandleEventStep, SwitchoverStep, SyncMetaDataStep, StartStep
    <2>2. db' = db
      BY <1>3 DEF handle_event, Switchover, sync_meta_data, Start
    <2> QED BY <2>1, <2>2 DEF CommitsNoPause
  <1>4. CASE Deadline \/ Rollback \/ Wake \/ LoadBegins \/ load_pg_dist_node \/ pick_task
    <2>1. CitusIInv'
      BY <1>4, DeadlineStep, RollbackStep, WakeStep, LoadBeginsStep, LoadStep, PickTaskStep
    <2>2. db' = db
      BY <1>4 DEF Deadline, Rollback, Wake, LoadBegins, load_pg_dist_node, pick_task
    <2> QED BY <2>1, <2>2 DEF CommitsNoPause
  <1>5. CASE process_tasks \/ on_demote \/ PostgresStops \/ ReplicaPromoted \/ UNCHANGED citusVars
    <2>1. CitusIInv'
      BY <1>5, ProcessTasksStep, OnDemoteStep, PostgresStopsStep, ReplicaPromotedStep, CitusStutter
    <2>2. db' = db
      BY <1>5 DEF process_tasks, on_demote, PostgresStops, ReplicaPromoted, citusVars
    <2> QED BY <2>1, <2>2 DEF CommitsNoPause
  <1> QED BY <1>1, <1>2, <1>3, <1>4, <1>5 DEF CitusNext

LEMMA CitusIInvSafe == ASSUME CitusIInv PROVE CitusTypeOK /\ CacheIsTable /\ SyncedIsLeader
  <1>1. CitusTypes /\ InHand /\ CacheRight /\ AskedFor
    BY DEF CitusIInv
  <1>2. CitusTypeOK
    BY <1>1 DEF CitusTypeOK, CitusTypes, Tasks, IsTask, InHand, Working
  <1>3. Rests /\ ~orphaned => Registers /\ ~load /\ stage \in {"wait", "next"} /\ in_flight = Nothing
    BY DEF Rests, Registers
  <1>4. CacheIsTable
    BY <1>1, <1>3 DEF CacheIsTable, CacheRight
  <1>5. SyncedIsLeader
    <2>1. tasks = <<>> => \A g : ~Queued(g)
      <3>1. tasks = <<>> => DOMAIN tasks = {}
        OBVIOUS
      <3> QED BY <3>1 DEF Queued
    <2>2. in_flight = Nothing => \A g : ~Pending(g)
      BY DEF Pending
    <2> QED BY <1>1, <1>3, <2>1, <2>2 DEF SyncedIsLeader, AskedFor
  <1> QED BY <1>2, <1>4, <1>5

-----------------------------------------------------------------------------
(* Citus: the theorem.                                                     *)

\* A Citus coordinator skips only changes that pg_dist_node has, commits no pause of the
\* clients, and in the end has registered the leader it was asked for last, however many
\* groups, hosts, tasks, failing queries and stops of Postgres there are, unless the handler
\* lost track of an open transaction (_add_task, pick_task, process_task, process_tasks,
\* load_pg_dist_node and on_demote).
THEOREM CitusIsSafe == CitusSpec => CitusSafe
  <1>1. CitusSpec => []CitusIInv
    BY InitCitusIInv, CitusStep, PTL DEF CitusSpec
  <1>2. CitusSpec => PauseIsNeverCommitted
    BY <1>1, CitusStep, PTL DEF CitusSpec, PauseIsNeverCommitted
  <1> QED BY <1>1, <1>2, CitusIInvSafe, PTL DEF CitusSafe
================================================================================
