---------------------------- MODULE PatroniHaProofs ----------------------------
(***************************************************************************)
(* Proofs about four parts of a Patroni node that share no state: the HA    *)
(* loop (two primaries at a time only for a cause, for any number of nodes *)
(* and any ttl, with a watchdog that fires after half of it), the health   *)
(* checks of the REST API, a parameter that takes a restart, and the       *)
(* recovery configuration of a standby.                                    *)
(***************************************************************************)
EXTENDS Integers, PatroniHa, PatroniHealth, PatroniParameters, PatroniRecovery, TLAPS

USE PatroniHaAssumption DEF Off, NoPing

-----------------------------------------------------------------------------
(* Types.                                                                   *)

LEMMA InitTypeOK == Init => TypeOK
  <1>1. Init => contested \in BOOLEAN
    BY DEF Init
  <1> QED BY <1>1 DEF Init, TypeOK, Steps

LEMMA CountsType ==
  ASSUME TypeOK, NEW n \in Node
  PROVE  /\ Counts(n) \in 0..Ttl
         /\ Counts(n) >= pinged[n].left /\ Counts(n) >= unheeded[n]
         /\ Less(Counts(n)) \in 0..Ttl /\ Less(unheeded[n]) \in 0..Ttl
  BY DEF TypeOK, Counts, Less

LEMMA GotoType ==
  ASSUME TypeOK, NEW n \in Node, NEW step \in Steps, Goto(n, step)
  PROVE  /\ pc' \in [Node -> Steps]
         /\ cluster' \in [Node -> Node \union {None}]
         /\ \A m \in Node : m /= n => pc'[m] = pc[m] /\ cluster'[m] = cluster[m]
         /\ pc'[n] = step /\ cluster'[n] = None
  BY DEF TypeOK, Goto

\* A history variable with a truth value has its type shown apart.
LEMMA ContestedType ==
  ASSUME TypeOK, NEW n \in Node, Cycle(n) \/ promote(n) \/ shutdown(n) \/ PostgresCrashes(n)
  PROVE  contested' \in BOOLEAN
  <1>1. contested \in BOOLEAN
    BY DEF TypeOK
  <1>2. CASE attempt_to_acquire_leader(n) \/ AcquireFails(n)
    <2>1. CASE Takes(n)
      BY <2>1 DEF Takes
    <2>2. CASE UNCHANGED key
      BY <2>2, <1>1 DEF key
    <2> QED BY <1>2, <2>1, <2>2 DEF attempt_to_acquire_leader, AcquireFails
  <1>3. CASE release_leader_key_voluntarily(n)
    BY <1>3, <1>1 DEF release_leader_key_voluntarily
  <1>4. CASE UNCHANGED contested
    BY <1>4, <1>1
  <1>5. \/ attempt_to_acquire_leader(n) \/ AcquireFails(n) \/ release_leader_key_voluntarily(n)
        \/ UNCHANGED contested
    BY DEF Cycle, key, promote, shutdown, PostgresCrashes, load_cluster_from_dcs, GetClusterFails,
           BeginUpdateLock, CancelPromote, recover, RestartPrimary, is_healthiest_node, follow,
           update_leader, UpdateFails, keepalive, activate, ActivateFails, enforce_primary_role,
           demote, _handle_dcs_error, check_failsafe_topology, update_failsafe, FailsafeRefused
  <1> QED BY <1>2, <1>3, <1>4, <1>5

LEMMA CycleTypeOK ==
  ASSUME TypeOK, NEW n \in Node, Cycle(n)
  PROVE  TypeOK'
  <1> USE DEF TypeOK, key, local, Steps
  <1>c. contested' \in BOOLEAN
    BY ContestedType
  <1> USE <1>c
  <1>1. CASE load_cluster_from_dcs(n)
    BY <1>1 DEF load_cluster_from_dcs, update_cluster
  <1>2. CASE GetClusterFails(n)
    BY <1>2 DEF GetClusterFails, Goto
  <1>3. CASE BeginUpdateLock(n)
    BY <1>3 DEF BeginUpdateLock, Goto
  <1>4. CASE CancelPromote(n)
    BY <1>4 DEF CancelPromote, Goto
  <1>5. CASE recover(n)
    BY <1>5 DEF recover, Goto
  <1>6. CASE RestartPrimary(n)
    BY <1>6 DEF RestartPrimary, Goto
  <1>7. CASE is_healthiest_node(n)
    BY <1>7 DEF is_healthiest_node, Goto
  <1>8. CASE follow(n)
    BY <1>8 DEF follow, Goto
  <1>9. CASE attempt_to_acquire_leader(n)
    <2>1. CASE Takes(n) /\ Goto(n, "enforce")
      <3>1. leader' = n /\ age' = 0
        BY <2>1 DEF Takes
      <3>2. leader' /= None
        BY <3>1
      <3> QED BY <1>9, <2>1, <3>1, <3>2 DEF attempt_to_acquire_leader, Goto
    <2>2. CASE Goto(n, "lost") /\ UNCHANGED key
      BY <1>9, <2>2 DEF attempt_to_acquire_leader, Goto
    <2> QED BY <1>9, <2>1, <2>2 DEF attempt_to_acquire_leader
  <1>10. CASE AcquireFails(n)
    BY <1>10 DEF AcquireFails, Takes, Goto
  <1>11. CASE update_leader(n)
    <2>1. CASE leader = n /\ age' = 0 /\ Goto(n, "updated")
      BY <1>11, <2>1 DEF update_leader, Goto
    <2>2. CASE Goto(n, "lost") /\ UNCHANGED age
      BY <1>11, <2>2 DEF update_leader, Goto
    <2> QED BY <1>11, <2>1, <2>2 DEF update_leader
  <1>12. CASE UpdateFails(n)
    BY <1>12 DEF UpdateFails, Goto
  <1>13. CASE keepalive(n)
    <2>1. Counts(n) \in 0..Ttl
      BY CountsType
    <2> QED BY <1>13, <2>1 DEF keepalive, Fed, Forgets, Goto
  <1>14. CASE activate(n)
    BY <1>14 DEF activate, Goto
  <1>15. CASE ActivateFails(n)
    BY <1>15 DEF ActivateFails, Goto
  <1>16. CASE enforce_primary_role(n)
    <2>1. Counts(n) \in 0..Ttl
      BY CountsType
    <2> QED BY <1>16, <2>1 DEF enforce_primary_role, Forgets, Goto
  <1>17. CASE release_leader_key_voluntarily(n)
    <2>1. CASE leader = n
      <3>1. leader' = None /\ age' = 0 /\ ~contested'
        BY <1>17, <2>1 DEF release_leader_key_voluntarily
      <3> QED BY <1>17, <3>1 DEF release_leader_key_voluntarily, Goto
    <2>2. CASE leader /= n
      <3>1. leader' = leader /\ age' = age /\ contested' = contested
        BY <1>17, <2>2 DEF release_leader_key_voluntarily
      <3> QED BY <1>17, <3>1 DEF release_leader_key_voluntarily, Goto
    <2> QED BY <2>1, <2>2
  <1>18. CASE demote(n)
    BY <1>18 DEF demote, Goto
  <1>19. CASE _handle_dcs_error(n)
    <2>1. CASE Goto(n, "failsafe") /\ asked' = [asked EXCEPT ![n] = Node \ {n}]
      BY <1>19, <2>1 DEF _handle_dcs_error, Goto
    <2>2. CASE (Goto(n, "sleep") \/ Goto(n, "demote")) /\ UNCHANGED asked
      BY <1>19, <2>2 DEF _handle_dcs_error, Goto
    <2> QED BY <1>19, <2>1, <2>2 DEF _handle_dcs_error
  <1>20. CASE check_failsafe_topology(n)
    BY <1>20 DEF check_failsafe_topology, Fed, Goto
  <1>21. ASSUME NEW m \in Node, update_failsafe(n, m)
         PROVE  TypeOK'
    BY <1>21 DEF update_failsafe, Called
  <1>22. ASSUME NEW m \in Node, FailsafeRefused(n, m)
         PROVE  TypeOK'
    <2>1. CASE Called(m, n)
      BY <1>22, <2>1 DEF FailsafeRefused, Called, Goto
    <2>2. CASE UNCHANGED <<pinged, unheeded>>
      BY <1>22, <2>2 DEF FailsafeRefused, Goto
    <2> QED BY <1>22, <2>1, <2>2 DEF FailsafeRefused
  <1> QED BY <1>1, <1>2, <1>3, <1>4, <1>5, <1>6, <1>7, <1>8, <1>9, <1>10, <1>11, <1>12,
             <1>13, <1>14, <1>15, <1>16, <1>17, <1>18, <1>19, <1>20, <1>21, <1>22 DEF Cycle

LEMMA TickTypeOK == TypeOK /\ Tick => TypeOK'
  <1> SUFFICES ASSUME TypeOK, Tick
               PROVE  TypeOK'
    OBVIOUS
  <1>c. contested' \in BOOLEAN
    BY DEF TypeOK, Tick
  <1>1. \A n \in Node : /\ Less(Counts(n)) \in 0..Ttl /\ Less(unheeded[n]) \in 0..Ttl
    BY CountsType
  <1>2. unheeded' \in [Node -> 0..Ttl]
    BY <1>1 DEF TypeOK, Tick
  <1>3. watchdog' \in [Node -> 1..Off]
    BY DEF TypeOK, Tick, Fires
  <1>4. pinged' \in [Node -> [name : Node \union {None}, left : 0..Ttl]]
    <2>1. ASSUME NEW n \in Node
          PROVE  (IF n \in Fires \/ pinged[n].left <= 1 THEN NoPing
                  ELSE [pinged[n] EXCEPT !.left = @ - 1]) \in [name : Node \union {None}, left : 0..Ttl]
      <3>1. pinged[n] \in [name : Node \union {None}, left : 0..Ttl]
        BY DEF TypeOK
      <3>2. CASE ~(pinged[n].left <= 1)
        <4>1. pinged[n].left - 1 \in 0..Ttl
          BY <3>1, <3>2
        <4> QED BY <3>1, <4>1
      <3> QED BY <3>2
    <2> QED BY <2>1 DEF Tick
  <1> QED BY <1>c, <1>2, <1>3, <1>4 DEF TypeOK, Tick, Steps

\* What changes, changes within its type.
LEMMA NextTypeOK == TypeOK /\ [Next]_vars => TypeOK'
  <1>1. ASSUME TypeOK, NEW n \in Node, promote(n) \/ shutdown(n) \/ PostgresCrashes(n)
        PROVE  TypeOK'
    <2> USE DEF TypeOK, Steps, key, local
    <2>1. contested' \in BOOLEAN
      BY <1>1, ContestedType
    <2>2. CASE promote(n)
      BY <1>1, <2>1, <2>2 DEF promote
    <2>3. CASE shutdown(n)
      BY <1>1, <2>1, <2>3 DEF shutdown, Goto
    <2>4. CASE PostgresCrashes(n)
      BY <1>1, <2>1, <2>4 DEF PostgresCrashes
    <2> QED BY <1>1, <2>2, <2>3, <2>4
  <1>2. ASSUME TypeOK, Expire
        PROVE  TypeOK'
    <2>1. contested' \in BOOLEAN
      BY <1>2 DEF Expire
    <2> QED BY <1>2, <2>1 DEF TypeOK, Expire, local
  <1>3. ASSUME TypeOK, UNCHANGED vars
        PROVE  TypeOK'
    BY <1>3 DEF TypeOK, vars
  <1> QED BY <1>1, <1>2, <1>3, CycleTypeOK, TickTypeOK DEF Next

-----------------------------------------------------------------------------
(* The inductive invariant.                                                 *)

Armed(n) == watchdog[n] /= Off
Runs(n) == pg[n] \in {"primary", "crashed"} \/ promoting[n]

\* A node is, was or becomes primary only with its watchdog active, and a node
\* that gives the key back has stopped before.
Guarded ==
    \A n \in Node :
        /\ Runs(n) \/ pc[n] = "active" => Armed(n)
        /\ late[n] => Armed(n)
        /\ promoting[n] => /\ pg[n] = "replica"
                           /\ pc[n] \in {"sleep", "loaded", "update", "updated", "lost", "error"}
        /\ pc[n] = "release" => ~Armed(n)
        /\ pc[n] = "failsafe" => Failsafe /\ Runs(n)
        /\ pc[n] /= "loaded" => cluster[n] = None

\* Who is in the race for the key does not know of the call that counts.
Calls ==
    \A n \in Node :
        /\ ~Failsafe => pinged[n].left = 0 /\ unheeded[n] = 0
        /\ pinged[n].left > 0 <=> pinged[n].name \in Node
        /\ pinged[n].left > 0 => unheeded[n] <= pinged[n].left
        /\ Racing(n) /\ pinged[n].left > 0 => unheeded[n] = pinged[n].left

\* The key was written less than Timeout ago when the watchdog is fed.
Updated ==
    \A n \in Node :
        pc[n] = "updated" /\ Armed(n) => leader = n /\ age + watchdog[n] <= Timeout

\* Who has accepted the call of n will hear of it for long enough.
Accepted ==
    \A n \in Node : pc[n] = "failsafe" /\ Armed(n) =>
        \A m \in Node \ ({n} \union asked[n]) : Counts(m) + Timeout >= Ttl + watchdog[n]

\* The watchdog of a node fires before its key expires, or before a call that all
\* the others have accepted ceases to count.
Lasts(n) == leader = n /\ age + watchdog[n] <= Ttl
Heard(n) == \A m \in Node \ {n} : Counts(m) >= watchdog[n]
Covered == \A n \in Node : Armed(n) /\ ~late[n] => Lasts(n) \/ Heard(n)

\* The key is taken when nobody else runs as primary.
Alone ==
    \A m \in Node : leader = m /\ ~contested =>
        \A n \in Node \ {m} : Armed(n) => late[n]

OneArmed == \A m, n \in Node : m /= n /\ Armed(m) /\ Armed(n) => late[m] \/ late[n]

Lease == Covered /\ Alone /\ OneArmed

IInv == TypeOK /\ Guarded /\ Calls /\ Updated /\ Accepted /\ Lease

LEMMA InitIInv == Init => IInv
  <1> SUFFICES ASSUME Init
               PROVE  IInv
    OBVIOUS
  <1>1. TypeOK
    BY InitTypeOK
  <1>2. \A n \in Node : ~Armed(n)
    BY DEF Init, Armed
  <1>3. Guarded
    BY <1>2 DEF Init, Guarded, Runs
  <1>4. Calls
    <2>1. \A n \in Node : pinged[n].left = 0 /\ pinged[n].name = None /\ unheeded[n] = 0
      BY DEF Init
    <2>2. ASSUME NEW n \in Node
          PROVE  ~(pinged[n].left > 0) /\ pinged[n].name \notin Node
      <3>1. pinged[n].left = 0 /\ pinged[n].name = None
        BY <2>1
      <3> QED BY <3>1
    <2> QED BY <2>1, <2>2 DEF Calls
  <1>5. Updated /\ Accepted /\ Lease
    BY <1>2 DEF Updated, Accepted, Lease, Covered, Alone, OneArmed
  <1> QED BY <1>1, <1>3, <1>4, <1>5 DEF IInv

\* A step that leaves the key, the watchdogs and the calls alone.
LEMMA SameLease ==
  ASSUME Lease, UNCHANGED <<key, watchdog, late, pinged, unheeded>>
  PROVE  Lease'
  BY DEF Lease, Covered, Alone, OneArmed, Armed, Lasts, Heard, Counts, key

\* The steps that move on in run_cycle, or start and stop Postgres.
LEMMA QuietKeepsIInv ==
  ASSUME IInv, TypeOK', NEW n \in Node,
         \/ GetClusterFails(n) \/ BeginUpdateLock(n) \/ CancelPromote(n) \/ RestartPrimary(n)
         \/ is_healthiest_node(n) \/ follow(n) \/ ActivateFails(n) \/ _handle_dcs_error(n)
         \/ promote(n) \/ shutdown(n) \/ PostgresCrashes(n)
  PROVE  IInv'
  <1> USE DEF IInv, key, local
  <1>1. Lease'
    BY SameLease DEF GetClusterFails, BeginUpdateLock, CancelPromote, RestartPrimary, is_healthiest_node,
       follow, ActivateFails, _handle_dcs_error, promote, shutdown, PostgresCrashes
  <1>2. CASE GetClusterFails(n)
    <2> USE <1>2 DEF GetClusterFails, Goto, TypeOK
    <2>1. Guarded'
      BY DEF Guarded, Armed, Runs
    <2>2. Calls'
      BY DEF Calls, Racing
    <2>3. Updated'
      BY DEF Updated, Armed
    <2>4. Accepted'
      BY DEF Accepted, Armed, Counts
    <2> QED BY <1>1, <2>1, <2>2, <2>3, <2>4
  <1>3. CASE BeginUpdateLock(n)
    <2> USE <1>3 DEF BeginUpdateLock, Goto, TypeOK
    <2>1. Guarded'
      BY DEF Guarded, Armed, Runs
    <2>2. Calls'
      BY DEF Calls, Racing
    <2>3. Updated'
      BY DEF Updated, Armed
    <2>4. Accepted'
      BY DEF Accepted, Armed, Counts
    <2> QED BY <1>1, <2>1, <2>2, <2>3, <2>4
  <1>4. CASE CancelPromote(n)
    <2> USE <1>4 DEF CancelPromote, Goto, TypeOK
    <2>1. Guarded'
      BY DEF Guarded, Armed, Runs
    <2>2. Calls'
      BY DEF Calls, Racing
    <2>3. Updated'
      BY DEF Updated, Armed
    <2>4. Accepted'
      BY DEF Accepted, Armed, Counts
    <2> QED BY <1>1, <2>1, <2>2, <2>3, <2>4
  <1>5. CASE RestartPrimary(n)
    <2> USE <1>5 DEF RestartPrimary, Goto, TypeOK
    <2>1. Guarded'
      BY DEF Guarded, Armed, Runs
    <2>2. Calls'
      BY DEF Calls, Racing
    <2>3. Updated'
      BY DEF Updated, Armed
    <2>4. Accepted'
      BY DEF Accepted, Armed, Counts
    <2> QED BY <1>1, <2>1, <2>2, <2>3, <2>4
  <1>6. CASE is_healthiest_node(n)
    <2> USE <1>6 DEF is_healthiest_node, Goto, TypeOK
    <2>1. Guarded'
      BY DEF Guarded, Armed, Runs
    <2>2. Calls'
      BY DEF Calls, Racing
    <2>3. Updated'
      BY DEF Updated, Armed
    <2>4. Accepted'
      BY DEF Accepted, Armed, Counts
    <2> QED BY <1>1, <2>1, <2>2, <2>3, <2>4
  <1>7. CASE follow(n)
    <2> USE <1>7 DEF follow, Goto, TypeOK
    <2>1. Guarded'
      BY DEF Guarded, Armed, Runs
    <2>2. Calls'
      BY DEF Calls, Racing
    <2>3. Updated'
      BY DEF Updated, Armed
    <2>4. Accepted'
      BY DEF Accepted, Armed, Counts
    <2> QED BY <1>1, <2>1, <2>2, <2>3, <2>4
  <1>8. CASE ActivateFails(n)
    <2> USE <1>8 DEF ActivateFails, Goto, TypeOK
    <2>1. Guarded'
      BY DEF Guarded, Armed, Runs
    <2>2. Calls'
      BY DEF Calls, Racing
    <2>3. Updated'
      BY DEF Updated, Armed
    <2>4. Accepted'
      BY DEF Accepted, Armed, Counts
    <2> QED BY <1>1, <2>1, <2>2, <2>3, <2>4
  <1>9. CASE _handle_dcs_error(n)
    <2> USE <1>9 DEF _handle_dcs_error, Goto, TypeOK
    <2>1. Guarded'
      BY DEF Guarded, Armed, Runs
    <2>2. Calls'
      BY DEF Calls, Racing
    <2>3. Updated'
      BY DEF Updated, Armed
    <2>4. Accepted'
      BY DEF Accepted, Armed, Counts
    <2> QED BY <1>1, <2>1, <2>2, <2>3, <2>4
  <1>10. CASE promote(n)
    <2> USE <1>10 DEF promote, Goto, TypeOK
    <2>1. Guarded'
      BY DEF Guarded, Armed, Runs
    <2>2. Calls'
      BY DEF Calls, Racing
    <2>3. Updated'
      BY DEF Updated, Armed
    <2>4. Accepted'
      BY DEF Accepted, Armed, Counts
    <2> QED BY <1>1, <2>1, <2>2, <2>3, <2>4
  <1>11. CASE shutdown(n)
    <2> USE <1>11 DEF shutdown, Goto, TypeOK
    <2>1. Guarded'
      BY DEF Guarded, Armed, Runs
    <2>2. Calls'
      BY DEF Calls, Racing
    <2>3. Updated'
      BY DEF Updated, Armed
    <2>4. Accepted'
      BY DEF Accepted, Armed, Counts
    <2> QED BY <1>1, <2>1, <2>2, <2>3, <2>4
  <1>12. CASE PostgresCrashes(n)
    <2> USE <1>12 DEF PostgresCrashes, Goto, TypeOK
    <2>1. Guarded'
      <3>1. \A m \in Node : m /= n => pg'[m] = pg[m]
        OBVIOUS
      <3>2. pg[n] = "primary" => pg'[n] = "crashed"
        OBVIOUS
      <3>3. pg[n] /= "primary" => pg[n] = "replica" /\ pg'[n] = "stopped"
        BY DEF Running
      <3> QED BY <3>1, <3>2, <3>3 DEF Guarded, Armed, Runs
    <2>2. Calls'
      BY DEF Calls, Racing
    <2>3. Updated'
      BY DEF Updated, Armed
    <2>4. Accepted'
      BY DEF Accepted, Armed, Counts
    <2> QED BY <1>1, <2>1, <2>2, <2>3, <2>4
  <1> QED BY <1>2, <1>3, <1>4, <1>5, <1>6, <1>7, <1>8, <1>9, <1>10, <1>11, <1>12

\* What counts, as a fact for arithmetic.
LEMMA CountsFacts ==
  ASSUME TypeOK, NEW m \in Node
  PROVE  /\ Counts(m) \in 0..Ttl
         /\ pinged[m].left \in 0..Ttl /\ unheeded[m] \in 0..Ttl
         /\ watchdog[m] \in 1..Off
         /\ age \in 0..Ttl /\ Ttl \in Nat /\ Timeout \in 1..Ttl
         /\ Counts(m) = pinged[m].left \/ Counts(m) = unheeded[m]
         /\ Counts(m) >= pinged[m].left /\ Counts(m) >= unheeded[m]
  BY CountsType DEF TypeOK, Counts

\* A cycle that reads the cluster learns of the call that counts.
LEMMA LoadKeepsIInv ==
  ASSUME IInv, TypeOK', NEW n \in Node, load_cluster_from_dcs(n)
  PROVE  IInv'
  <1> USE DEF IInv, load_cluster_from_dcs, key, TypeOK
  <1>1. \A m \in Node : Counts(m)' = Counts(m)
    BY DEF Counts, Calls
  <1>2. Guarded'
    BY DEF Guarded, Armed, Runs
  <1>3. Calls'
    <2>1. ASSUME Racing(n)', pinged[n].left > 0
          PROVE  FALSE
      <3>1. Failsafe /\ pinged[n].name \in Node
        BY <2>1 DEF Calls
      <3> QED BY <2>1, <3>1 DEF Racing, update_cluster
    <2> QED BY <2>1 DEF Calls, Racing
  <1>4. Updated'
    BY DEF Updated, Armed
  <1>5. Accepted'
    BY <1>1 DEF Accepted, Armed
  <1>6. Lease'
    BY <1>1 DEF Lease, Covered, Alone, OneArmed, Armed, Lasts, Heard
  <1> QED BY <1>2, <1>3, <1>4, <1>5, <1>6

\* The watchdog is disabled when Postgres has stopped.
LEMMA DisarmKeepsIInv ==
  ASSUME IInv, TypeOK', NEW n \in Node, recover(n) \/ demote(n)
  PROVE  IInv'
  <1> USE DEF IInv, key, local, TypeOK
  <1>1. /\ watchdog' = [watchdog EXCEPT ![n] = Off] /\ late' = [late EXCEPT ![n] = FALSE]
        /\ UNCHANGED <<leader, age, contested, pinged, unheeded, asked>>
        /\ Goto(n, "sleep") \/ Goto(n, "release")
    BY DEF recover, demote
  <1>2. \A m \in Node : Counts(m)' = Counts(m)
    BY <1>1 DEF Counts
  <1>3. Guarded'
    <2>1. CASE recover(n)
      BY <2>1 DEF recover, Guarded, Armed, Runs, Goto
    <2>2. CASE demote(n)
      BY <2>2 DEF demote, Guarded, Armed, Runs, Goto
    <2> QED BY <2>1, <2>2
  <1>4. Calls'
    BY <1>1 DEF Calls, Racing, Goto
  <1>5. Updated'
    BY <1>1 DEF Updated, Armed, Goto
  <1>6. Accepted'
    BY <1>1, <1>2 DEF Accepted, Armed, Goto
  <1>7. Lease'
    BY <1>1, <1>2 DEF Lease, Covered, Alone, OneArmed, Armed, Lasts, Heard
  <1> QED BY <1>3, <1>4, <1>5, <1>6, <1>7

\* Who takes the key without a call that counts is heard by nobody, and the key
\* of nobody lasts: no other watchdog is active but for a cause.
LEMMA TakesKeepsLease ==
  ASSUME IInv, TypeOK', NEW n \in Node, pc[n] = "acquire", Takes(n),
         UNCHANGED <<watchdog, late, pinged, unheeded>>
  PROVE  Lease'
  <1> USE DEF IInv
  <1>1. \A m \in Node : Counts(m)' = Counts(m)
    BY DEF Counts
  <1>2. \A m \in Node : Armed(m)' = Armed(m) /\ ~Lasts(m)
    BY DEF Armed, Lasts, Takes, TypeOK
  <1>3. Covered'
    BY <1>1, <1>2 DEF Lease, Covered, Armed, Heard
  <1>4. ASSUME ~contested', NEW m \in Node \ {n}, Armed(m), ~late[m]
        PROVE  FALSE
    <2>1. unheeded[n] = 0
      <3>1. ~(unheeded[n] > 0)
        BY <1>4 DEF Takes
      <3> QED BY <3>1, CountsFacts
    <2>2. Racing(n)
      BY DEF Racing, Guarded
    <2>3. pinged[n].left = 0
      BY <2>1, <2>2, CountsFacts DEF Calls
    <2>4. Counts(n) = 0
      BY <2>1, <2>3, CountsFacts
    <2>5. Heard(m)
      BY <1>2, <1>4 DEF Lease, Covered
    <2> QED BY <2>4, <2>5, <1>4, CountsFacts DEF Heard
  <1>5. Alone'
    BY <1>2, <1>4 DEF Alone, Takes, Armed
  <1>6. OneArmed'
    BY DEF Lease, OneArmed, Armed
  <1> QED BY <1>3, <1>5, <1>6 DEF Lease

LEMMA AcquireKeepsIInv ==
  ASSUME IInv, TypeOK', NEW n \in Node, attempt_to_acquire_leader(n) \/ AcquireFails(n)
  PROVE  IInv'
  <1> USE DEF IInv
  <1>1. /\ pc[n] = "acquire"
        /\ Takes(n) \/ UNCHANGED key
        /\ Goto(n, "enforce") \/ Goto(n, "lost") \/ Goto(n, "error")
        /\ ~promoting[n]
        /\ UNCHANGED <<pg, promoting, watchdog, late, pinged, asked, unheeded>>
    BY DEF attempt_to_acquire_leader, AcquireFails, Guarded
  <1>2. Guarded'
    BY <1>1 DEF Guarded, Armed, Runs, Goto, TypeOK
  <1>3. Calls'
    BY <1>1 DEF Calls, Racing, Goto, TypeOK
  <1>4. Updated'
    BY <1>1 DEF Updated, Armed, Goto, TypeOK, key, Takes
  <1>5. Accepted'
    BY <1>1 DEF Accepted, Armed, Counts, Goto, TypeOK
  <1>6. Lease'
    BY <1>1, TakesKeepsLease, SameLease
  <1> QED BY <1>2, <1>3, <1>4, <1>5, <1>6

LEMMA UpdateKeepsIInv ==
  ASSUME IInv, TypeOK', NEW n \in Node, update_leader(n) \/ UpdateFails(n)
  PROVE  IInv'
  <1> USE DEF IInv, local
  <1>1. /\ pc[n] = "update"
        /\ (leader = n /\ age' = 0) \/ UNCHANGED age
        /\ \/ Goto(n, "updated") /\ leader = n /\ age' = 0
           \/ Goto(n, "lost") \/ Goto(n, "error")
        /\ UNCHANGED <<leader, contested, pg, watchdog, late, local>>
    BY DEF update_leader, UpdateFails
  <1>2. Guarded'
    BY <1>1 DEF Guarded, Armed, Runs, Goto, TypeOK
  <1>3. Calls'
    BY <1>1 DEF Calls, Racing, Goto, TypeOK
  <1>4. Updated'
    <2>1. CASE Goto(n, "updated") /\ leader = n /\ age' = 0
      <3>1. pc' = [pc EXCEPT ![n] = "updated"] /\ leader' = n /\ age' = 0 /\ watchdog' = watchdog
        BY <1>1, <2>1 DEF Goto
      <3>2. watchdog[n] /= Off => watchdog[n] <= Timeout
        BY CountsFacts
      <3>3. \A m \in Node \ {n} : pc[m] = "updated" => ~Armed(m)
        BY <2>1 DEF Updated
      <3> QED BY <3>1, <3>2, <3>3, CountsFacts DEF Updated, Armed, TypeOK
    <2>2. CASE Goto(n, "lost") \/ Goto(n, "error")
      BY <1>1, <2>2 DEF Updated, Armed, Goto, TypeOK
    <2> QED BY <1>1, <2>1, <2>2
  <1>5. Accepted'
    BY <1>1 DEF Accepted, Armed, Counts, Goto, TypeOK
  <1>6. \A m \in Node : Counts(m)' = Counts(m) /\ Armed(m)' = Armed(m)
    BY <1>1 DEF Counts, Armed
  <1>7. \A m \in Node : Lasts(m) /\ Armed(m) => Lasts(m)'
    BY <1>1 DEF Lasts, Armed, TypeOK
  <1>8. Lease'
    BY <1>1, <1>6, <1>7 DEF Lease, Covered, Alone, OneArmed, Armed, Heard
  <1> QED BY <1>2, <1>3, <1>4, <1>5, <1>8

\* With a watchdog that fires after half the ttl, the key that has just been
\* written lasts longer than the watchdog that is fed.
LEMMA KeepaliveKeepsIInv ==
  ASSUME HalfTtl, IInv, TypeOK', NEW n \in Node, keepalive(n)
  PROVE  IInv'
  <1> USE DEF IInv, key
  <1>1. /\ pc[n] = "updated"
        /\ Goto(n, "sleep") \/ Goto(n, "enforce") \/ Goto(n, "locked")
        /\ promoting[n] => Goto(n, "sleep")
        /\ watchdog' = [watchdog EXCEPT ![n] = Fed(n)]
        /\ late' = [late EXCEPT ![n] = @ /\ contested]
        /\ Forgets(n)
        /\ UNCHANGED <<leader, age, contested, pg, promoting, asked>>
    <2>1. CASE promoting[n]
      BY <2>1 DEF keepalive
    <2>2. CASE ~promoting[n] /\ pg[n] \in Running
      BY <2>2 DEF keepalive
    <2>3. CASE ~promoting[n] /\ pg[n] \notin Running
      BY <2>3 DEF keepalive
    <2> QED BY <2>1, <2>2, <2>3
  <1>2. \A m \in Node : Counts(m)' = Counts(m)
    BY <1>1, CountsFacts DEF Counts, Forgets, TypeOK
  <1>3. \A m \in Node : Armed(m)' = Armed(m)
    BY <1>1 DEF Armed, Fed, TypeOK
  <1>4. late'[n] <=> late[n] /\ contested
    BY <1>1 DEF TypeOK
  <1>5. \A m \in Node \ {n} : late'[m] = late[m] /\ watchdog'[m] = watchdog[m]
    BY <1>1 DEF TypeOK
  <1>6. Guarded'
    BY <1>1, <1>3, <1>4, <1>5 DEF Guarded, Runs, Goto, TypeOK
  <1>7. Calls'
    BY <1>1, CountsFacts DEF Calls, Racing, Forgets, Goto, TypeOK
  <1>8. Updated'
    BY <1>1, <1>3, <1>5 DEF Updated, Goto, TypeOK
  <1>9. Accepted'
    BY <1>1, <1>2, <1>3, <1>5 DEF Accepted, Goto, TypeOK
  <1>10. Armed(n) => leader = n /\ age + Timeout <= Ttl
    BY <1>1, CountsFacts DEF HalfTtl, Updated, Armed
  <1>11. Covered'
    <2>1. Armed(n) => Lasts(n)'
      BY <1>1, <1>10 DEF Lasts, Fed, Armed, TypeOK
    <2> QED BY <1>1, <1>2, <1>3, <1>5, <2>1 DEF Lease, Covered, Lasts, Heard
  <1>12. Alone'
    BY <1>1, <1>3, <1>5, <1>10 DEF Lease, Alone
  <1>13. OneArmed'
    <2>1. ASSUME NEW m \in Node \ {n}, Armed(n), Armed(m)
          PROVE  late'[n] \/ late'[m]
      BY <1>4, <1>5, <1>10, <2>1 DEF Lease, Alone, OneArmed
    <2> QED BY <1>3, <1>5, <2>1 DEF Lease, OneArmed
  <1> QED BY <1>6, <1>7, <1>8, <1>9, <1>11, <1>12, <1>13 DEF Lease

\* A watchdog that is activated for a key that lasts is the only one.
LEMMA ActivateKeepsIInv ==
  ASSUME IInv, TypeOK', NEW n \in Node, activate(n)
  PROVE  IInv'
  <1> USE DEF IInv, key, local
  <1>1. /\ pc[n] = "enforce" /\ Goto(n, "active")
        /\ watchdog' = [watchdog EXCEPT ![n] = IF @ = Off THEN Timeout ELSE @]
        /\ UNCHANGED <<leader, age, contested, pg, promoting, pinged, asked, unheeded>>
    BY DEF activate
  <1>2. \A m \in Node : Counts(m)' = Counts(m)
    BY <1>1 DEF Counts
  <1>3. Armed(n)' /\ \A m \in Node \ {n} : /\ Armed(m)' = Armed(m) /\ late'[m] = late[m]
                                            /\ watchdog'[m] = watchdog[m]
    BY <1>1 DEF activate, Armed, TypeOK
  <1>4. Guarded'
    BY <1>1, <1>3 DEF Guarded, Runs, Goto, TypeOK
  <1>5. Calls'
    BY <1>1 DEF Calls, Racing, Goto, TypeOK
  <1>6. Updated' /\ Accepted'
    BY <1>1, <1>2, <1>3 DEF Updated, Accepted, Goto, TypeOK
  <1>7. CASE Armed(n)
    <2>1. watchdog' = watchdog
      BY <1>1, <1>7 DEF Armed, TypeOK
    <2>2. late'[n] = late[n]
      BY <1>7 DEF activate, Armed, TypeOK
    <2>3. late' = late
      BY <1>3, <2>2 DEF TypeOK
    <2>4. Lease'
      BY <1>1, <2>1, <2>3, SameLease
    <2> QED BY <1>4, <1>5, <1>6, <2>4
  <1>8. CASE ~Armed(n)
    <2>1. ~late'[n] => leader = n /\ ~contested /\ age + Timeout <= Ttl
      <3>1. late'[n] <=> \/ late[n]
                         \/ watchdog[n] = Off /\ (leader /= n \/ contested \/ age + Timeout > Ttl)
        BY DEF activate, TypeOK
      <3>2. ~(age + Timeout > Ttl) => age + Timeout <= Ttl
        BY CountsFacts
      <3> QED BY <1>8, <3>1, <3>2 DEF Armed
    <2>2. watchdog'[n] = Timeout
      BY <1>1, <1>8 DEF Armed, TypeOK
    <2>3. Covered'
      BY <1>1, <1>2, <1>3, <2>1, <2>2 DEF Lease, Covered, Lasts, Heard
    <2>4. Alone'
      BY <1>1, <1>3, <2>1 DEF Lease, Alone
    <2>5. OneArmed'
      BY <1>1, <1>3, <2>1 DEF Lease, Alone, OneArmed
    <2> QED BY <1>4, <1>5, <1>6, <2>3, <2>4, <2>5 DEF Lease
  <1> QED BY <1>7, <1>8

LEMMA EnforceKeepsIInv ==
  ASSUME IInv, TypeOK', NEW n \in Node, enforce_primary_role(n)
  PROVE  IInv'
  <1> USE DEF IInv, key
  <1>1. /\ pc[n] = "active" /\ Goto(n, "sleep")
        /\ promoting' = [promoting EXCEPT ![n] = pg[n] = "replica"]
        /\ Forgets(n) \/ UNCHANGED <<pinged, unheeded>>
        /\ UNCHANGED <<leader, age, contested, pg, watchdog, late, asked>>
    BY DEF enforce_primary_role
  <1>2. \A m \in Node : Counts(m)' = Counts(m)
    BY <1>1, CountsFacts DEF Counts, Forgets, TypeOK
  <1>3. Guarded'
    BY <1>1 DEF Guarded, Armed, Runs, Goto, TypeOK
  <1>4. Calls'
    <2>1. CASE Forgets(n)
      BY <1>1, <2>1, CountsFacts DEF Calls, Racing, Forgets, Goto, TypeOK
    <2>2. CASE UNCHANGED <<pinged, unheeded>>
      BY <1>1, <2>2 DEF Calls, Racing, Goto, TypeOK
    <2> QED BY <1>1, <2>1, <2>2
  <1>5. Updated' /\ Accepted'
    BY <1>1, <1>2 DEF Updated, Accepted, Armed, Goto, TypeOK
  <1>6. Lease'
    BY <1>1, <1>2 DEF Lease, Covered, Alone, OneArmed, Armed, Lasts, Heard
  <1> QED BY <1>3, <1>4, <1>5, <1>6

\* Only a node without an active watchdog gives the key back.
LEMMA ReleaseKeepsIInv ==
  ASSUME IInv, TypeOK', NEW n \in Node, release_leader_key_voluntarily(n)
  PROVE  IInv'
  <1> USE DEF IInv, local
  <1>1. /\ pc[n] = "release" /\ ~Armed(n) /\ Goto(n, "sleep")
        /\ (leader = n /\ leader' = None) \/ (leader /= n /\ UNCHANGED <<leader, age>>)
        /\ leader /= n => contested' = contested
        /\ UNCHANGED <<pg, watchdog, late, local>>
    <2>1. pc[n] = "release" /\ ~Armed(n) /\ Goto(n, "sleep") /\ UNCHANGED <<pg, watchdog, late, local>>
      BY DEF release_leader_key_voluntarily, Guarded
    <2>2. (leader = n /\ leader' = None) \/ (leader /= n /\ UNCHANGED <<leader, age>>)
      <3>1. CASE leader = n
        BY <3>1 DEF release_leader_key_voluntarily
      <3>2. CASE leader /= n
        BY <3>2 DEF release_leader_key_voluntarily
      <3> QED BY <3>1, <3>2
    <2>3. leader /= n => contested' = contested
      <3>1. CASE leader /= n
        BY <3>1 DEF release_leader_key_voluntarily, TypeOK
      <3> QED BY <3>1
    <2> QED BY <2>1, <2>2, <2>3
  <1>2. \A m \in Node : Counts(m)' = Counts(m) /\ Armed(m)' = Armed(m)
    BY <1>1 DEF Counts, Armed
  <1>3. Guarded'
    BY <1>1, <1>2 DEF Guarded, Runs, Goto, TypeOK
  <1>4. Calls'
    BY <1>1 DEF Calls, Racing, Goto, TypeOK
  <1>5. Updated' /\ Accepted'
    BY <1>1, <1>2 DEF Updated, Accepted, Goto, TypeOK
  <1>6. Covered' /\ OneArmed'
    BY <1>1, <1>2 DEF Lease, Covered, OneArmed, Lasts, Heard
  <1>7. Alone'
    BY <1>1, <1>2 DEF Lease, Alone
  <1> QED BY <1>3, <1>4, <1>5, <1>6, <1>7 DEF Lease

\* An accepted call counts for longer than any watchdog.
LEMMA CallKeepsIInv ==
  ASSUME IInv, TypeOK', NEW n \in Node, NEW m \in Node,
         update_failsafe(n, m) \/ FailsafeRefused(n, m)
  PROVE  IInv'
  <1> USE DEF IInv, key
  <1>1. /\ pc[n] = "failsafe" /\ m \in asked[n]
        /\ Called(m, n) \/ UNCHANGED <<pinged, unheeded>>
        /\ UNCHANGED <<leader, age, contested, pg, watchdog, late, promoting>>
    BY DEF update_failsafe, FailsafeRefused
  <1>2. \A k \in Node : Counts(k)' >= Counts(k)
    <2>1. CASE Called(m, n)
      <3>1. Counts(m)' >= Ttl
        BY <2>1 DEF Called, Counts, TypeOK
      <3> QED BY <2>1, <3>1, CountsFacts DEF Called, Counts, TypeOK
    <2>2. CASE UNCHANGED <<pinged, unheeded>>
      BY <2>2, CountsFacts DEF Counts
    <2> QED BY <1>1, <2>1, <2>2
  <1>3. \A k \in Node : Counts(k)' \in Nat
    BY DEF TypeOK, Counts
  <1>4. Guarded'
    <2>1. CASE update_failsafe(n, m)
      BY <2>1 DEF update_failsafe, Guarded, Armed, Runs, TypeOK
    <2>2. CASE FailsafeRefused(n, m)
      BY <2>2 DEF FailsafeRefused, Guarded, Armed, Runs, Goto, TypeOK
    <2> QED BY <2>1, <2>2
  <1>5. Calls'
    <2>1. Failsafe
      BY <1>1 DEF Guarded
    <2>2. \A k \in Node : Racing(k)' => Racing(k)
      BY DEF update_failsafe, FailsafeRefused, Racing, Goto, TypeOK
    <2>3. CASE Called(m, n)
      BY <2>1, <2>2, <2>3, CountsFacts DEF Calls, Called, TypeOK
    <2>4. CASE UNCHANGED <<pinged, unheeded>>
      BY <2>1, <2>2, <2>4 DEF Calls
    <2> QED BY <1>1, <2>3, <2>4
  <1>6. Updated'
    BY <1>1 DEF update_failsafe, FailsafeRefused, Updated, Armed, Goto, TypeOK
  <1>7. Accepted'
    <2>1. CASE update_failsafe(n, m)
      <3>1. Counts(m)' >= Ttl
        BY <2>1 DEF update_failsafe, Called, Counts, TypeOK
      <3>2. \A k \in Node : Armed(k) => watchdog[k] <= Timeout
        BY CountsFacts DEF Armed
      <3>3. ASSUME NEW k \in Node, pc[k] = "failsafe", Armed(k),
                   NEW l \in Node \ ({k} \union asked'[k])
            PROVE  Counts(l)' + Timeout >= Ttl + watchdog[k]
        <4>1. CASE l = m
          BY <1>3, <3>1, <3>2, <3>3, <4>1, CountsFacts
        <4>2. CASE l /= m
          <5>1. l \notin asked[k]
            BY <2>1, <3>3, <4>2 DEF update_failsafe, TypeOK
          <5>2. Counts(l) + Timeout >= Ttl + watchdog[k]
            BY <3>3, <5>1 DEF Accepted
          <5> QED BY <1>2, <1>3, <5>2, CountsFacts
        <4> QED BY <4>1, <4>2
      <3> QED BY <1>1, <2>1, <3>3 DEF update_failsafe, Accepted, Armed
    <2>2. CASE FailsafeRefused(n, m)
      <3>1. ASSUME NEW k \in Node, pc'[k] = "failsafe", Armed(k),
                   NEW l \in Node \ ({k} \union asked'[k])
            PROVE  Counts(l)' + Timeout >= Ttl + watchdog[k]
        <4>1. k /= n /\ pc[k] = "failsafe" /\ asked'[k] = asked[k]
          BY <2>2, <3>1 DEF FailsafeRefused, Goto, TypeOK
        <4>2. Counts(l) + Timeout >= Ttl + watchdog[k]
          BY <3>1, <4>1 DEF Accepted
        <4> QED BY <1>2, <1>3, <4>2, CountsFacts
      <3> QED BY <1>1, <3>1 DEF Accepted, Armed
    <2> QED BY <2>1, <2>2
  <1>8. Lease'
    <2>1. \A k \in Node : Heard(k) => Heard(k)'
      BY <1>1, <1>2, <1>3, CountsFacts DEF Heard
    <2> QED BY <1>1, <2>1 DEF Lease, Covered, Alone, OneArmed, Armed, Lasts
  <1> QED BY <1>4, <1>5, <1>6, <1>7, <1>8

\* When all members agree, their promise outlives the watchdog that is fed.
LEMMA AgreedKeepsIInv ==
  ASSUME HalfTtl, IInv, TypeOK', NEW n \in Node, check_failsafe_topology(n)
  PROVE  IInv'
  <1> USE DEF IInv, key, local
  <1>1. /\ pc[n] = "failsafe" /\ asked[n] = {} /\ Goto(n, "sleep")
        /\ watchdog' = [watchdog EXCEPT ![n] = Fed(n)]
        /\ UNCHANGED <<leader, age, contested, pg, late, promoting, pinged, asked, unheeded>>
    BY DEF check_failsafe_topology
  <1>2. \A m \in Node : Counts(m)' = Counts(m) /\ Armed(m)' = Armed(m)
    BY <1>1 DEF Counts, Armed, Fed, TypeOK
  <1>3. \A m \in Node \ {n} : watchdog'[m] = watchdog[m]
    BY <1>1 DEF TypeOK
  <1>4. Guarded'
    BY <1>1, <1>2 DEF Guarded, Runs, Goto, TypeOK
  <1>5. Calls'
    BY <1>1 DEF Calls, Racing, Goto, TypeOK
  <1>6. Updated' /\ Accepted'
    BY <1>1, <1>2, <1>3 DEF Updated, Accepted, Goto, TypeOK
  <1>7. Armed(n) => Heard(n)'
    <2>1. ASSUME Armed(n), NEW m \in Node \ {n}
          PROVE  Counts(m) >= Timeout
      <3>1. Counts(m) + Timeout >= Ttl + watchdog[n]
        BY <1>1, <2>1 DEF Accepted
      <3> QED BY <3>1, CountsFacts DEF HalfTtl
    <2>2. Armed(n) => watchdog'[n] = Timeout
      BY <1>1 DEF Armed, Fed, TypeOK
    <2> QED BY <1>2, <2>1, <2>2 DEF Heard
  <1>8. Covered'
    BY <1>1, <1>2, <1>3, <1>7 DEF Lease, Covered, Lasts, Heard
  <1>9. Alone' /\ OneArmed'
    BY <1>1, <1>2 DEF Lease, Alone, OneArmed
  <1> QED BY <1>4, <1>5, <1>6, <1>8, <1>9 DEF Lease

\* A tick takes one from what is left of every watchdog and of every call.
LEMMA TickKeepsIInv ==
  ASSUME IInv, TypeOK', Tick
  PROVE  IInv'
  <1> USE DEF IInv
  <1>1. \A n \in Node : n \in Fires => /\ ~Armed(n)' /\ ~Runs(n)' /\ ~late'[n] /\ ~promoting'[n]
                                       /\ pc'[n] = "sleep" /\ cluster'[n] = None
    BY DEF Tick, Armed, Runs, TypeOK
  <1>2. \A n \in Node : n \notin Fires =>
            /\ Armed(n)' = Armed(n) /\ Runs(n)' = Runs(n) /\ late'[n] = late[n]
            /\ pc'[n] = pc[n] /\ cluster'[n] = cluster[n] /\ pg'[n] = pg[n]
            /\ promoting'[n] = promoting[n] /\ asked'[n] = asked[n]
            /\ Armed(n) => watchdog'[n] = watchdog[n] - 1
    BY CountsFacts DEF Tick, Armed, Runs, Fires, TypeOK
  <1>3. ASSUME NEW n \in Node
        PROVE  /\ pinged'[n].left = IF n \in Fires THEN 0 ELSE Less(pinged[n].left)
               /\ pinged'[n].left > 0 <=> pinged'[n].name \in Node
    <2>1. CASE n \in Fires \/ pinged[n].left <= 1
      <3>1. pinged'[n] = NoPing
        BY <2>1 DEF Tick
      <3> QED BY <2>1, <3>1, CountsFacts DEF Less
    <2>2. CASE ~(n \in Fires \/ pinged[n].left <= 1)
      <3>1. pinged'[n] = [pinged[n] EXCEPT !.left = @ - 1]
        BY <2>2 DEF Tick
      <3>2. pinged'[n].left = pinged[n].left - 1 /\ pinged'[n].name = pinged[n].name
        BY <3>1 DEF TypeOK
      <3>3. pinged[n].left > 1 /\ pinged[n].name \in Node
        BY <2>2, CountsFacts DEF Calls
      <3>4. pinged'[n].left > 0 /\ pinged'[n].name \in Node
        BY <3>2, <3>3, CountsFacts
      <3>5. pinged'[n].left = Less(pinged[n].left)
        BY <3>2, <3>3, CountsFacts DEF Less
      <3> QED BY <2>2, <3>4, <3>5
    <2> QED BY <2>1, <2>2
  <1>4. \A n \in Node : unheeded'[n] = Less(IF n \in Fires THEN Counts(n) ELSE unheeded[n])
    BY DEF Tick
  <1>5. \A n \in Node : Counts(n)' >= Counts(n) - 1 /\ Counts(n)' \in Nat
    <2>1. ASSUME NEW n \in Node
          PROVE  Counts(n)' >= Counts(n) - 1 /\ Counts(n)' \in Nat
      <3>1. pinged'[n].left \in Nat /\ unheeded'[n] \in Nat
        BY DEF TypeOK
      <3>2. Counts(n)' >= pinged'[n].left /\ Counts(n)' >= unheeded'[n] /\ Counts(n)' \in Nat
        BY <3>1 DEF Counts
      <3>3. CASE n \in Fires
        <4>1. unheeded'[n] = Less(Counts(n))
          BY <1>4, <3>3
        <4> QED BY <3>1, <3>2, <4>1, CountsFacts DEF Less
      <3>4. CASE n \notin Fires
        <4>1. unheeded'[n] = Less(unheeded[n]) /\ pinged'[n].left = Less(pinged[n].left)
          BY <1>3, <1>4, <3>4
        <4> QED BY <3>1, <3>2, <4>1, CountsFacts DEF Less
      <3> QED BY <3>3, <3>4
    <2> QED BY <2>1
  <1>6. Guarded'
    BY <1>1, <1>2 DEF Guarded
  <1>7. Calls'
    <2>1. \A n \in Node : Racing(n)' => Racing(n) /\ n \notin Fires
      BY <1>1, <1>2 DEF Racing
    <2>2. \A n \in Node : ~Failsafe => pinged'[n].left = 0 /\ unheeded'[n] = 0
      BY <1>3, <1>4, CountsFacts DEF Calls, Less, Counts
    <2>3. \A n \in Node : pinged'[n].left > 0 => n \notin Fires /\ unheeded'[n] <= pinged'[n].left
      BY <1>3, <1>4, CountsFacts DEF Calls, Less
    <2>4. \A n \in Node : Racing(n)' /\ pinged'[n].left > 0 => unheeded'[n] = pinged'[n].left
      BY <1>3, <1>4, <2>1, CountsFacts DEF Calls, Less
    <2> QED BY <1>3, <2>2, <2>3, <2>4 DEF Calls
  <1>8. \A n \in Node : Lasts(n) /\ Armed(n)' => Lasts(n)'
    BY <1>1, <1>2, CountsFacts DEF Tick, Lasts, Armed, TypeOK
  <1>9. \A n \in Node : Heard(n) /\ Armed(n)' => Heard(n)'
    BY <1>1, <1>2, <1>5, CountsFacts DEF Heard
  <1>10. Updated'
    BY <1>1, <1>2, CountsFacts DEF Tick, Updated, TypeOK
  <1>11. Accepted'
    BY <1>1, <1>2, <1>5, CountsFacts DEF Accepted
  <1>12. Covered'
    BY <1>1, <1>2, <1>8, <1>9 DEF Lease, Covered
  <1>13. Alone' /\ OneArmed'
    BY <1>1, <1>2 DEF Tick, Lease, Alone, OneArmed
  <1> QED BY <1>6, <1>7, <1>10, <1>11, <1>12, <1>13 DEF Lease

\* A key that protects an active watchdog does not expire.
LEMMA ExpireKeepsIInv ==
  ASSUME IInv, TypeOK', Expire
  PROVE  IInv'
  <1> USE DEF IInv, Expire, local
  <1>1. \A n \in Node : Counts(n)' = Counts(n) /\ Armed(n)' = Armed(n)
    BY DEF Counts, Armed
  <1>2. \A n \in Node : ~Lasts(n) \/ ~Armed(n)
    BY CountsFacts DEF Lasts, Armed
  <1>3. Guarded'
    BY <1>1 DEF Guarded, Runs
  <1>4. Calls'
    BY DEF Calls, Racing
  <1>5. Updated'
    BY <1>1, CountsFacts DEF Updated, Armed
  <1>6. Accepted'
    BY <1>1 DEF Accepted
  <1>7. Lease'
    BY <1>1, <1>2 DEF Lease, Covered, Alone, OneArmed, Heard, TypeOK
  <1> QED BY <1>3, <1>4, <1>5, <1>6, <1>7

LEMMA StutterKeepsIInv ==
  ASSUME IInv, UNCHANGED vars
  PROVE  IInv'
  BY DEF vars, IInv, TypeOK, Guarded, Armed, Runs, Calls, Racing, Updated, Accepted, Counts,
         Lease, Covered, Alone, OneArmed, Lasts, Heard

LEMMA NextIInv ==
  ASSUME HalfTtl, IInv, [Next]_vars
  PROVE  IInv'
  <1>1. TypeOK'
    BY NextTypeOK DEF IInv
  <1> QED
    BY <1>1, QuietKeepsIInv, LoadKeepsIInv, DisarmKeepsIInv, AcquireKeepsIInv, UpdateKeepsIInv,
       KeepaliveKeepsIInv, ActivateKeepsIInv, EnforceKeepsIInv, ReleaseKeepsIInv, CallKeepsIInv,
       AgreedKeepsIInv, TickKeepsIInv, ExpireKeepsIInv, StutterKeepsIInv DEF Next, Cycle

LEMMA IInvSafe == IInv => HaSafe
  <1> SUFFICES ASSUME IInv
               PROVE  SplitBrainHasCause
    BY DEF IInv, HaSafe
  <1>1. \A n \in Primaries : n \in Node /\ Armed(n)
    BY DEF IInv, Guarded, Runs, Primaries
  <1> QED BY <1>1 DEF IInv, Lease, OneArmed, SplitBrainHasCause

-----------------------------------------------------------------------------
(* The theorems.                                                            *)

\* Types.
THEOREM TypesCorrect == Spec => []TypeOK
  <1> QED BY InitTypeOK, NextTypeOK, PTL DEF Spec

\* Two nodes run as primary only if one of them activated its watchdog too late
\* for its key, or for a key it had taken without knowing of a call of /failsafe
\* that it had accepted (docs/watchdog.rst, docs/dcs_failsafe_mode.rst).
THEOREM PrimariesSafe == HalfTtl => (Spec => []HaSafe)
  <1> SUFFICES ASSUME HalfTtl
               PROVE  Spec => []HaSafe
    OBVIOUS
  <1>1. Init => IInv
    BY InitIInv
  <1>2. IInv /\ [Next]_vars => IInv'
    BY NextIInv
  <1>3. IInv => HaSafe
    BY IInvSafe
  <1> QED BY <1>1, <1>2, <1>3, PTL DEF Spec

HIDE PatroniHaAssumption DEF Off, NoPing

-----------------------------------------------------------------------------
(* Health checks: the inductive invariant.                                 *)

\* A call that has just been answered has left the whole ttl.
Renewing == \A n \in Member : ha_loop[n] = "wait" /\ renewed[n] /\ ~slow[n] => owner = n /\ ttl = TTL

\* Who counts itself as the leader has the key, for at least as long.
Remembers == ~overdue => \A n \in Member : expiry[n] > 0 => owner = n /\ expiry[n] <= ttl

\* A key that no step of its owner's has renewed is as old as the cycle in progress.
Aging == \A n \in Member : owner = n /\ ~renewed[n] => ttl = 0 \/ ttl <= TTL + next_run[n]

\* A renewal is forgotten when the cycle ends.
RenewedInCycle == \A n \in Member : renewed[n] => ha_loop[n] \in {"wait", "demote"}

\* A cycle begins when it is due.
Due == \A n \in Member : ha_loop[n] /= "sleep" => next_run[n] <= 0

HealthTypes ==
    /\ paused \in BOOLEAN /\ overdue \in BOOLEAN
    /\ owner \in Member \cup {Nobody} /\ ttl \in 0 .. TTL
    /\ expiry \in [Member -> 0 .. TTL] /\ view \in [Member -> Member \cup {Nobody, Lost}]
    /\ postgres \in [Member -> {"replica", "promoting", "primary", "down"}]
    /\ ha_loop \in [Member -> {"sleep", "act", "wait", "demote"}]
    /\ renewed \in [Member -> BOOLEAN] /\ slow \in [Member -> BOOLEAN]
    /\ next_run \in [Member -> -2 * TTL .. LoopWait]
    /\ owner = Nobody => ttl = 0
    /\ \A n \in Member : ha_loop[n] = "sleep" => next_run[n] >= 0

HealthIInv == HealthTypes /\ Renewing /\ Remembers /\ Aging /\ RenewedInCycle /\ Due

-----------------------------------------------------------------------------
(* Health checks: the steps.                                               *)

USE HealthAssumption DEF HealthIInv, keys

LEMMA HealthTypesIs == HealthTypes <=> HealthTypeOK
  BY DEF HealthTypes, HealthTypeOK

LEMMA InitHealthIInv == HealthInit => HealthIInv
  <1> SUFFICES ASSUME HealthInit PROVE HealthIInv
    OBVIOUS
  <1> USE DEF HealthInit
  <1>1. HealthTypes
    <2>0. paused \in BOOLEAN /\ overdue \in BOOLEAN
      BY Zenon
    <2>1. owner \in Member /\ owner /= Nobody /\ ttl \in 0 .. TTL
      OBVIOUS
    <2>2. /\ expiry \in [Member -> 0 .. TTL] /\ view \in [Member -> Member \cup {Nobody, Lost}]
          /\ postgres \in [Member -> {"replica", "promoting", "primary", "down"}]
          /\ ha_loop \in [Member -> {"sleep", "act", "wait", "demote"}]
      OBVIOUS
    <2>3. renewed \in [Member -> BOOLEAN] /\ slow \in [Member -> BOOLEAN] /\ next_run \in [Member -> -2 * TTL .. LoopWait]
      OBVIOUS
    <2> QED BY <2>0, <2>1, <2>2, <2>3 DEF HealthTypes
  <1>2. Renewing /\ Remembers /\ Aging /\ RenewedInCycle /\ Due
    BY DEF Renewing, Remembers, Aging, RenewedInCycle, Due
  <1> QED BY <1>1, <1>2

\* The end of a cycle.
LEMMA EndIs ==
  ASSUME HealthTypes, NEW n \in Member, next_run[n] <= 0, End(n)
  PROVE  /\ ha_loop' \in [Member -> {"sleep", "act", "wait", "demote"}] /\ renewed' \in [Member -> BOOLEAN]
         /\ next_run' \in [Member -> -2 * TTL .. LoopWait]
         /\ ha_loop'[n] = "sleep" /\ renewed'[n] = FALSE /\ next_run'[n] >= 0
         /\ \A m \in Member \ {n} : ha_loop'[m] = ha_loop[m] /\ renewed'[m] = renewed[m] /\ next_run'[m] = next_run[m]
  <1>1. schedule_next_run(n) \in 0 .. LoopWait
    BY DEF HealthTypes, schedule_next_run
  <1> QED BY <1>1 DEF HealthTypes, End, With

\* A cycle that ends, or goes on to demote.
LEMMA EndsIs ==
  ASSUME HealthTypes, NEW n \in Member, next_run[n] <= 0,
         IF Standing(n) = "demote" THEN ha_loop' = With(ha_loop, n, "demote") /\ UNCHANGED <<next_run, renewed>> ELSE End(n)
  PROVE  /\ ha_loop' \in [Member -> {"sleep", "act", "wait", "demote"}] /\ renewed' \in [Member -> BOOLEAN]
         /\ next_run' \in [Member -> -2 * TTL .. LoopWait]
         /\ \/ ha_loop'[n] = "sleep" /\ renewed'[n] = FALSE /\ next_run'[n] >= 0
            \/ ha_loop'[n] = "demote" /\ renewed'[n] = renewed[n] /\ next_run'[n] = next_run[n]
         /\ \A m \in Member \ {n} : ha_loop'[m] = ha_loop[m] /\ renewed'[m] = renewed[m] /\ next_run'[m] = next_run[m]
  <1>1. CASE Standing(n) = "demote"
    BY <1>1 DEF HealthTypes, With
  <1>2. CASE Standing(n) /= "demote"
    BY <1>2, EndIs
  <1> QED BY <1>1, <1>2

LEMMA LoadKeeps ==
  ASSUME HealthIInv, NEW n \in Member, Load(n) \/ LoadFails(n)
  PROVE  HealthIInv'
  <1>1. /\ UNCHANGED <<paused, owner, ttl, postgres, renewed, slow, overdue>>
        /\ view' \in [Member -> Member \cup {Nobody, Lost}]
        /\ ha_loop[n] = "sleep" /\ ha_loop'[n] \in {"act", "demote", "sleep"} /\ next_run'[n] \in 0 .. LoopWait
        /\ ha_loop' \in [Member -> {"sleep", "act", "wait", "demote"}] /\ next_run' \in [Member -> -2 * TTL .. LoopWait]
        /\ \A m \in Member \ {n} : ha_loop'[m] = ha_loop[m] /\ next_run'[m] = next_run[m]
    <2>1. CASE Load(n)
      BY <2>1 DEF Load, HealthTypes, With
    <2>2. CASE LoadFails(n)
      BY <2>2 DEF LoadFails, HealthTypes, With
    <2> QED BY <2>1, <2>2
  <1>2. /\ expiry' \in [Member -> 0 .. TTL]
        /\ \A m \in Member : expiry'[m] = expiry[m] \/ expiry'[m] = 0
    BY DEF Load, LoadFails, HealthTypes, With
  <1>3. HealthTypes'
    BY <1>1, <1>2 DEF HealthTypes
  <1>4. Renewing' /\ Remembers' /\ RenewedInCycle'
    BY <1>1, <1>2 DEF Renewing, Remembers, RenewedInCycle, HealthTypes
  <1>5. Aging'
    BY <1>1 DEF Aging, HealthTypes
  <1>6. Due'
    <2>1. ha_loop'[n] /= "sleep" => next_run'[n] = 0
      BY DEF Load, LoadFails, HealthTypes, With
    <2> QED BY <1>1, <2>1 DEF Due
  <1> QED BY <1>3, <1>4, <1>5, <1>6

LEMMA CallKeeps ==
  ASSUME HealthIInv, NEW n \in Member, Call(n)
  PROVE  HealthIInv'
  <1>1. /\ UNCHANGED <<paused, expiry, view, postgres, next_run, overdue>>
        /\ ha_loop[n] = "act" /\ n \in Member /\ ha_loop' = [ha_loop EXCEPT ![n] = "wait"] /\ slow' = [slow EXCEPT ![n] = FALSE] /\ ~renewed[n]
        /\ \/ owner \in {n, Nobody} /\ owner' = n /\ ttl' = TTL /\ renewed' = [renewed EXCEPT ![n] = TRUE]
           \/ UNCHANGED <<owner, ttl, renewed>>
    BY DEF Call, Asks, With
  <1>2. HealthTypes'
    <2>0. owner' \in Member \cup {Nobody} /\ ttl' \in 0 .. TTL /\ (owner' = Nobody => ttl' = 0)
      BY <1>1 DEF HealthTypes
    <2>1. /\ ha_loop' \in [Member -> {"sleep", "act", "wait", "demote"}] /\ slow' \in [Member -> BOOLEAN]
          /\ renewed' \in [Member -> BOOLEAN]
      <3>1. ha_loop' \in [Member -> {"sleep", "act", "wait", "demote"}] /\ slow' \in [Member -> BOOLEAN]
        BY <1>1 DEF HealthTypes
      <3>2. renewed' \in [Member -> BOOLEAN]
        BY <1>1 DEF HealthTypes
      <3> QED BY <3>1, <3>2
    <2>2. \A m \in Member : ha_loop'[m] = "sleep" => ha_loop[m] = "sleep"
      BY <1>1 DEF HealthTypes
    <2> QED BY <1>1, <2>0, <2>1, <2>2 DEF HealthTypes
  <1>3. Renewing' /\ RenewedInCycle'
    BY <1>1 DEF Renewing, RenewedInCycle, HealthTypes
  <1>4. Remembers'
    BY <1>1 DEF Remembers, HealthTypes
  <1>5. Aging'
    BY <1>1 DEF Aging, HealthTypes
  <1>6. Due'
    BY <1>1 DEF Due, HealthTypes
  <1> QED BY <1>2, <1>3, <1>4, <1>5, <1>6

LEMMA SetIsLeaderKeeps ==
  ASSUME HealthIInv, NEW n \in Member, set_is_leader(n)
  PROVE  HealthIInv'
  <1>1. /\ UNCHANGED <<paused, owner, ttl>> /\ End(n)
        /\ ha_loop[n] = "wait" /\ renewed[n]
        /\ expiry' = [expiry EXCEPT ![n] = TTL] /\ view' = [view EXCEPT ![n] = n] /\ slow' = [slow EXCEPT ![n] = FALSE]
        /\ postgres' \in [Member -> {"replica", "promoting", "primary", "down"}]
    BY DEF set_is_leader, With, HealthTypes
  <1>2. overdue' \in BOOLEAN /\ (~overdue' => ~overdue /\ ~slow[n])
    BY DEF set_is_leader
  <1>7. /\ ha_loop' \in [Member -> {"sleep", "act", "wait", "demote"}] /\ renewed' \in [Member -> BOOLEAN]
        /\ next_run' \in [Member -> -2 * TTL .. LoopWait]
        /\ ha_loop'[n] = "sleep" /\ renewed'[n] = FALSE /\ next_run'[n] >= 0
        /\ \A m \in Member \ {n} : ha_loop'[m] = ha_loop[m] /\ renewed'[m] = renewed[m] /\ next_run'[m] = next_run[m]
    <2>1. next_run[n] <= 0
      BY <1>1 DEF Due
    <2> QED BY <1>1, <2>1, EndIs
  <1>3. HealthTypes'
    <2>1. expiry' \in [Member -> 0 .. TTL] /\ view' \in [Member -> Member \cup {Nobody, Lost}] /\ slow' \in [Member -> BOOLEAN]
      BY <1>1 DEF HealthTypes
    <2> QED BY <1>1, <1>2, <1>7, <2>1 DEF HealthTypes
  <1>4. Renewing' /\ RenewedInCycle'
    BY <1>1, <1>7 DEF Renewing, RenewedInCycle, HealthTypes
  <1>5. Remembers'
    BY <1>1, <1>2 DEF Remembers, Renewing, HealthTypes
  <1>6. Aging'
    <2>1. ASSUME NEW m \in Member, owner = m, ~renewed'[m]
          PROVE  ttl = 0 \/ ttl <= TTL + next_run'[m]
      <3>1. CASE m = n
        <4>1. ttl <= TTL /\ ttl \in Nat /\ next_run'[m] \in Int /\ next_run'[m] >= 0
          BY <1>7, <3>1 DEF HealthTypes
        <4> QED BY <4>1
      <3>2. CASE m /= n
        BY <1>7, <2>1, <3>2 DEF Aging
      <3> QED BY <3>1, <3>2
    <2> QED BY <1>1, <2>1 DEF Aging
  <1>8. Due'
    BY <1>1, <1>7 DEF Due
  <1> QED BY <1>3, <1>4, <1>5, <1>6, <1>8

LEMMA GivesUpKeeps ==
  ASSUME HealthIInv, NEW n \in Member, Refused(n) \/ CallFails(n) \/ ha_demote(n)
  PROVE  HealthIInv'
  <1>1. /\ UNCHANGED <<paused, owner, ttl, view, overdue>> /\ ha_loop[n] \in {"wait", "demote"}
        /\ postgres' \in [Member -> {"replica", "promoting", "primary", "down"}]
        /\ slow' \in [Member -> BOOLEAN] /\ \A m \in Member \ {n} : slow'[m] = slow[m]
        /\ expiry' \in [Member -> 0 .. TTL]
        /\ \A m \in Member : expiry'[m] = expiry[m] \/ expiry'[m] = 0
    <2>1. CASE Refused(n)
      BY <2>1 DEF Refused, With, HealthTypes
    <2>2. CASE CallFails(n)
      BY <2>2 DEF CallFails, With, HealthTypes
    <2>3. CASE ha_demote(n)
      BY <2>3 DEF ha_demote, With, HealthTypes
    <2> QED BY <2>1, <2>2, <2>3
  <1>2. /\ ha_loop' \in [Member -> {"sleep", "act", "wait", "demote"}] /\ renewed' \in [Member -> BOOLEAN]
        /\ next_run' \in [Member -> -2 * TTL .. LoopWait]
        /\ \/ ha_loop'[n] = "sleep" /\ renewed'[n] = FALSE /\ next_run'[n] >= 0
           \/ ha_loop'[n] = "demote" /\ renewed'[n] = renewed[n] /\ next_run'[n] = next_run[n]
        /\ \A m \in Member \ {n} : ha_loop'[m] = ha_loop[m] /\ renewed'[m] = renewed[m] /\ next_run'[m] = next_run[m]
    <2>0. next_run[n] <= 0
      BY <1>1 DEF Due
    <2>1. CASE ha_demote(n)
      <3>1. End(n)
        BY <2>1 DEF ha_demote
      <3> QED BY <2>0, <3>1, EndIs
    <2>2. CASE Refused(n) \/ CallFails(n)
      <3>1. IF Standing(n) = "demote" THEN ha_loop' = With(ha_loop, n, "demote") /\ UNCHANGED <<next_run, renewed>> ELSE End(n)
        BY <2>2 DEF Refused, CallFails
      <3> QED BY <2>0, <3>1, EndsIs
    <2> QED BY <2>1, <2>2
  <1>3. HealthTypes'
    BY <1>1, <1>2 DEF HealthTypes
  <1>4. Renewing' /\ RenewedInCycle' /\ Remembers'
    BY <1>1, <1>2 DEF Renewing, RenewedInCycle, Remembers, HealthTypes
  <1>5. Aging'
    BY <1>1, <1>2 DEF Aging, HealthTypes
  <1>6. Due'
    BY <1>1, <1>2 DEF Due, HealthTypes
  <1> QED BY <1>3, <1>4, <1>5, <1>6

LEMMA HaFollowKeeps ==
  ASSUME HealthIInv, NEW n \in Member, ha_follow(n)
  PROVE  HealthIInv'
  <1>1. /\ UNCHANGED <<paused, view, slow, overdue>> /\ ha_loop[n] = "act"
        /\ postgres' \in [Member -> {"replica", "promoting", "primary", "down"}]
        /\ \/ UNCHANGED <<expiry, owner, ttl>>
           \/ expiry' = [expiry EXCEPT ![n] = 0] /\ UNCHANGED <<owner, ttl>> /\ owner /= n
           \/ expiry' = [expiry EXCEPT ![n] = 0] /\ owner = n /\ owner' = Nobody /\ ttl' = 0
    BY DEF ha_follow, With, HealthTypes
  <1>2. /\ ha_loop' \in [Member -> {"sleep", "act", "wait", "demote"}] /\ renewed' \in [Member -> BOOLEAN]
        /\ next_run' \in [Member -> -2 * TTL .. LoopWait]
        /\ \/ ha_loop'[n] = "sleep" /\ renewed'[n] = FALSE /\ next_run'[n] >= 0
           \/ ha_loop'[n] = "demote" /\ renewed'[n] = renewed[n] /\ next_run'[n] = next_run[n]
        /\ \A m \in Member \ {n} : ha_loop'[m] = ha_loop[m] /\ renewed'[m] = renewed[m] /\ next_run'[m] = next_run[m]
    <2>1. IF Standing(n) = "demote" THEN ha_loop' = With(ha_loop, n, "demote") /\ UNCHANGED <<next_run, renewed>> ELSE End(n)
      BY DEF ha_follow
    <2>2. next_run[n] <= 0
      BY <1>1 DEF Due
    <2> QED BY <2>1, <2>2, EndsIs
  <1>3. HealthTypes'
    BY <1>1, <1>2 DEF HealthTypes
  <1>4. Renewing' /\ RenewedInCycle'
    BY <1>1, <1>2 DEF Renewing, RenewedInCycle, HealthTypes
  <1>5. Remembers'
    BY <1>1 DEF Remembers, HealthTypes
  <1>6. Aging'
    BY <1>1, <1>2 DEF Aging, HealthTypes
  <1>7. Due'
    BY <1>1, <1>2 DEF Due, HealthTypes
  <1> QED BY <1>3, <1>4, <1>5, <1>6, <1>7

LEMMA PostgresKeeps ==
  ASSUME HealthIInv, NEW n \in Member, Promoted(n) \/ StandbyStarts(n)
  PROVE  HealthIInv'
  <1>1. /\ UNCHANGED <<paused, owner, ttl, expiry, view, ha_loop, renewed, slow, next_run, overdue>>
        /\ postgres' \in [Member -> {"replica", "promoting", "primary", "down"}]
    BY DEF Promoted, StandbyStarts, With, HealthTypes
  <1> QED BY <1>1 DEF HealthTypes, Renewing, Remembers, Aging, RenewedInCycle, Due

LEMMA TimeKeeps ==
  ASSUME HealthIInv, Passes \/ KeyExpires
  PROVE  HealthIInv'
  <1>1. CASE KeyExpires
    BY <1>1 DEF KeyExpires, HealthTypes, Renewing, Remembers, Aging, RenewedInCycle, Due
  <1>2. CASE Passes
    <2>1. /\ UNCHANGED <<paused, owner, view, postgres, ha_loop, renewed, overdue>>
          /\ ttl' = IF ttl > 0 THEN ttl - 1 ELSE 0
          /\ owner /= Nobody => ttl > 0
          /\ expiry' \in [Member -> 0 .. TTL] /\ \A n \in Member : expiry'[n] = IF expiry[n] > 0 THEN expiry[n] - 1 ELSE 0
          /\ next_run' \in [Member -> -2 * TTL .. LoopWait]
          /\ \A n \in Member : next_run'[n] = IF next_run[n] > -2 * TTL THEN next_run[n] - 1 ELSE next_run[n]
          /\ \A n \in Member : ha_loop[n] = "sleep" => next_run[n] /= 0
      BY <1>2 DEF Passes, Down, HealthTypes
    <2>2. slow' \in [Member -> BOOLEAN] /\ \A n \in Member : ha_loop[n] = "wait" => slow'[n]
      BY <1>2 DEF Passes
    <2>3. HealthTypes'
      BY <2>1, <2>2 DEF HealthTypes
    <2>4. Renewing' /\ RenewedInCycle'
      BY <2>1, <2>2 DEF Renewing, RenewedInCycle
    <2>5. Remembers'
      BY <2>1 DEF Remembers, HealthTypes
    <2>6. Aging'
      BY <2>1 DEF Aging, HealthTypes
    <2>7. Due'
      BY <2>1 DEF Due, HealthTypes
    <2> QED BY <2>3, <2>4, <2>5, <2>6, <2>7
  <1> QED BY <1>1, <1>2

-----------------------------------------------------------------------------
(* Health checks: the theorem.                                             *)

LEMMA NextHealthIInv == HealthIInv /\ [HealthNext]_healthVars => HealthIInv'
  <1> SUFFICES ASSUME HealthIInv, [HealthNext]_healthVars PROVE HealthIInv'
    OBVIOUS
  <1>1. CASE HealthNext
    <2> HIDE DEF HealthIInv
    <2> QED BY <1>1, TimeKeeps, LoadKeeps, CallKeeps, SetIsLeaderKeeps, GivesUpKeeps, HaFollowKeeps, PostgresKeeps
            DEF HealthNext
  <1>2. CASE UNCHANGED healthVars
    BY <1>2 DEF healthVars, HealthTypes, Renewing, Remembers, Aging, RenewedInCycle, Due
  <1> QED BY <1>1, <1>2

LEMMA HealthIInvSafe == HealthIInv => HealthSafe
  <1> SUFFICES ASSUME HealthIInv PROVE HealthSafe
    OBVIOUS
  <1>1. HealthTypeOK
    BY HealthTypesIs
  <1>2. \A n \in Member : is_leader(n) => overdue \/ owner = n
    BY DEF is_leader, Remembers
  <1>3. \A n \in Member : do_GET(n, "primary", TRUE) <=> primary_status(n)
    BY DEF do_GET
  <1>4. OneWritable
    BY <1>2, <1>3 DEF OneWritable, primary_status
  <1>5. OnePool
    <2> SUFFICES ASSUME NEW n \in Member
                 PROVE  /\ do_GET(n, "primary", TRUE) /\ do_GET(n, "replica", TRUE)
                              => postgres[n] = "promoting" \/ owner = n \/ overdue
                        /\ do_GET(n, "health", TRUE) /\ ~do_GET(n, "read-only", TRUE)
                              => n \in NoLoadBalance \/ (postgres[n] = "primary" /\ ~is_leader(n))
      BY DEF OnePool
    <2>1. /\ do_GET(n, "primary", TRUE) <=> primary_status(n)
          /\ do_GET(n, "replica", TRUE) <=> replica_status(n, TRUE)
          /\ do_GET(n, "read-only", TRUE) <=> primary_status(n) \/ replica_status(n, TRUE)
          /\ do_GET(n, "health", TRUE) <=> get_postgresql_status(n, TRUE).running
      BY DEF do_GET
    <2>2. get_postgresql_status(n, TRUE).role = IF postgres[n] = "primary" THEN "master" ELSE "replica"
      BY DEF get_postgresql_status
    <2>3. replica_status(n, TRUE) <=> n \notin NoLoadBalance /\ postgres[n] /= "primary" /\ postgres[n] /= "down"
      BY DEF replica_status, get_postgresql_status
    <2>4. primary_status(n) => postgres[n] = "primary" \/ is_leader(n)
      BY <2>2 DEF primary_status
    <2>5. ~primary_status(n) => postgres[n] /= "primary" \/ ~is_leader(n)
      BY <2>2 DEF primary_status
    <2>6. get_postgresql_status(n, TRUE).running <=> postgres[n] /= "down"
      BY DEF get_postgresql_status
    <2> QED BY <1>2, <2>1, <2>3, <2>4, <2>5, <2>6
  <1>6. LivenessSparesKey
    BY DEF LivenessSparesKey, do_GET_liveness, liveness_threshold, Aging, HealthTypes
  <1> QED BY <1>1, <1>4, <1>5, <1>6 DEF HealthSafe

\* No two nodes that take writes are in the pool of the primary, no node is in two pools,
\* and the liveness probe takes no key away, for any nodes, ttl and loop_wait (is_leader,
\* do_GET, do_GET_liveness).
THEOREM HealthIsSafe == HealthSpec => []HealthSafe
  <1> HIDE DEF HealthIInv
  <1> QED BY InitHealthIInv, NextHealthIInv, HealthIInvSafe, PTL DEF HealthSpec

HIDE HealthAssumption DEF HealthIInv, keys

-----------------------------------------------------------------------------
(* Parameters: the inductive invariant.                                    *)

Quiet == main_loop.pc \in {"idle", "sleep"}

\* Types.
ParamTypes ==
    /\ goal \in Amount /\ want \in Amount /\ conf \in Amount /\ control \in Amount /\ run \in Amount \cup {0}
    /\ flag \in BOOLEAN /\ crossed \in BOOLEAN
    /\ pgstate \in {"running", "starting", "restarting", "start failed"}
    /\ role \in {"primary", "replica"}
    /\ Busy => pgstate /= "running" \/ thr.pc = "start"
    /\ run /= 0 => thr.pc \in {"idle", "stop", "wait"}
Reloads == [pc : {"write", "query"}, new : Amount, sighup : BOOLEAN, diff : BOOLEAN, changed : BOOLEAN, clean : BOOLEAN]
ReloadTypes ==
    /\ main_loop.pc \in {"idle", "sleep", "write", "query"}
    /\ main_loop.pc \in {"write", "query"} => main_loop \in Reloads
RestartTypes ==
    thr \in [pc : {"idle"}]
            \cup [pc : {"stop", "start", "configure", "launch", "wait"}, value : Amount \cup {0}, clean : BOOLEAN]

\* A reload and a restart know of each other.
Noticed ==
    /\ ~Quiet /\ main_loop.clean => ~Busy /\ IsRunning
    /\ ~Quiet /\ Busy => ~main_loop.clean /\ ~thr.clean
    /\ Quiet /\ Busy /\ ~thr.clean => crossed

\* What a reload that nothing has disturbed has found out.
Reloading ==
    ~Quiet /\ main_loop.clean /\ run /= 0 =>
       IF main_loop.pc = "write"
       THEN /\ main_loop.diff <=> run /= main_loop.new
            /\ main_loop.changed <=> run /= main_loop.new \/ want /= run
            /\ ~crossed => conf \in {run, want}
       ELSE /\ want = main_loop.new
            /\ main_loop.changed => conf = want
            /\ ~main_loop.changed => run = want /\ (crossed \/ conf = run)

\* What a standby is started with, and what a restart that nothing has disturbed says of it.
Restarting ==
    /\ thr.pc = "launch" => thr.value \in Amount
    /\ thr.pc = "launch" /\ role = "replica" => thr.value >= control
    /\ Busy /\ thr.clean =>
        /\ thr.pc = "configure" => ~flag
        /\ thr.pc = "launch" => (flag <=> thr.value /= want)
        /\ thr.pc = "wait" /\ run /= 0 => (flag <=> run /= want) /\ conf = run

\* The flag and the file, when all is quiet.
Flagged == Quiet /\ ~Busy /\ IsRunning /\ run /= 0 /\ ~crossed => (flag <=> run /= want) /\ conf \in {run, want}

ParametersIInv == ParamTypes /\ ReloadTypes /\ RestartTypes /\ Noticed /\ Reloading /\ Restarting /\ Flagged

-----------------------------------------------------------------------------
(* Parameters: the steps.                                                  *)

USE ParametersAssumption DEF ParametersIInv

LEMMA ReloadBeginsKeeps ==
  ASSUME ParametersIInv, ReloadBegins
  PROVE  ParametersIInv'
  <1>0. PICK sighup \in BOOLEAN :
          /\ main_loop' = [pc |-> "write", new |-> goal, sighup |-> sighup,
               diff |-> IsRunning /\ run /= goal,
               changed |-> IsRunning /\ (run /= goal \/ want /= run),
               clean |-> IsRunning /\ ~Busy]
          /\ ~(IsRunning /\ run = 0)
    BY DEF ReloadBegins
  <1>8. /\ main_loop = Idle /\ UNCHANGED <<goal, want, conf, run, flag, pgstate, role, control, sched, crossed>>
        /\ thr' = IF Busy THEN [thr EXCEPT !.clean = FALSE] ELSE thr
    BY DEF ReloadBegins
  <1>9. /\ main_loop'.pc = "write" /\ main_loop'.new = goal
        /\ main_loop'.diff <=> IsRunning /\ run /= goal
        /\ main_loop'.changed <=> IsRunning /\ (run /= goal \/ want /= run)
        /\ main_loop'.clean <=> IsRunning /\ ~Busy
    BY <1>0
  <1>10. Quiet /\ ~Quiet'
    BY <1>8, <1>9 DEF Quiet, Idle
  <1>11. /\ thr'.pc = thr.pc /\ (Busy' <=> Busy) /\ (IsRunning' <=> IsRunning)
         /\ Busy => ~thr'.clean /\ thr'.value = thr.value
         /\ ~Busy => thr' = thr
    <2>1. CASE Busy
      BY <1>8, <2>1 DEF RestartTypes, Busy, IsRunning
    <2>2. CASE ~Busy
      BY <1>8, <2>2 DEF Busy, IsRunning
    <2> QED BY <2>1, <2>2
  <1>1. ParamTypes'
    BY <1>8, <1>11 DEF ParamTypes, Busy
  <1>2. ReloadTypes'
    <2> DEFINE d == IsRunning /\ run /= goal
               c == IsRunning /\ (run /= goal \/ want /= run)
               l == IsRunning /\ ~Busy
    <2>1. d \in BOOLEAN /\ c \in BOOLEAN /\ l \in BOOLEAN
      BY Zenon
    <2>2. main_loop' = [pc |-> "write", new |-> goal, sighup |-> sighup, diff |-> d, changed |-> c, clean |-> l]
      BY <1>0
    <2> HIDE DEF d, c, l
    <2> QED BY <2>1, <2>2 DEF ReloadTypes, Reloads, ParamTypes
  <1>3. RestartTypes'
    BY <1>8 DEF RestartTypes, Busy
  <1>4. Noticed'
    BY <1>9, <1>10, <1>11 DEF Noticed
  <1>5. Reloading'
    <2>1. CASE IsRunning /\ ~Busy
      BY <1>0, <1>8, <1>9, <1>10, <2>1 DEF Reloading, Flagged
    <2>2. CASE ~(IsRunning /\ ~Busy)
      BY <1>9, <2>2 DEF Reloading
    <2> QED BY <2>1, <2>2
  <1>6. Restarting'
    BY <1>8, <1>11 DEF Restarting
  <1>7. Flagged'
    BY <1>10 DEF Flagged
  <1> QED BY <1>1, <1>2, <1>3, <1>4, <1>5, <1>6, <1>7

LEMMA ReloadWritesKeeps ==
  ASSUME ParametersIInv, ReloadWrites
  PROVE  ParametersIInv'
  <1>0. main_loop \in Reloads /\ main_loop.pc = "write" /\ ~Quiet
    BY DEF ReloadWrites, ReloadTypes, Reloads, Quiet
  <1>8. /\ UNCHANGED <<goal, run, pgstate, role, control, thr, sched>> /\ want' = main_loop.new
        /\ conf' = IF main_loop.changed THEN main_loop.new ELSE conf
    BY DEF ReloadWrites, write_postgresql_conf
  <1>9. \/ /\ main_loop' = [main_loop EXCEPT !.pc = "query"] /\ UNCHANGED <<flag, crossed>>
        \/ /\ main_loop' = Idle /\ flag' = main_loop.diff /\ ~main_loop.changed
           /\ crossed' = IF ~main_loop.clean \/ Busy THEN TRUE ELSE crossed
    <2>1. CASE main_loop.changed \/ main_loop.sighup
      BY <2>1 DEF ReloadWrites
    <2>2. CASE ~(main_loop.changed \/ main_loop.sighup)
      <3>1. crossed' = Crossed(FALSE) /\ main_loop' = Idle /\ flag' = main_loop.diff
        BY <2>2 DEF ReloadWrites
      <3>2. crossed' = IF ~main_loop.clean \/ Busy THEN TRUE ELSE crossed
        BY <3>1 DEF Crossed, ParamTypes
      <3> QED BY <2>2, <3>1, <3>2
    <2> QED BY <2>1, <2>2
  <1>1. ParamTypes'
    BY <1>0, <1>8, <1>9 DEF ParamTypes, Reloads, Busy
  <1>2. ReloadTypes'
    <2>1. CASE main_loop' = [main_loop EXCEPT !.pc = "query"]
      BY <1>0, <2>1 DEF ReloadTypes, Reloads
    <2>2. CASE main_loop' = Idle
      BY <2>2 DEF ReloadTypes, Idle
    <2> QED BY <1>9, <2>1, <2>2
  <1>3. RestartTypes'
    BY <1>8 DEF RestartTypes
  <1>10. CASE main_loop' = [main_loop EXCEPT !.pc = "query"] /\ UNCHANGED <<flag, crossed>>
    <2>1. /\ main_loop'.pc = "query" /\ main_loop'.new = main_loop.new /\ main_loop'.changed = main_loop.changed
          /\ main_loop'.clean = main_loop.clean
      BY <1>0, <1>10 DEF Reloads
    <2>2. ~Quiet'
      BY <2>1 DEF Quiet
    <2>3. Noticed'
      BY <1>0, <1>8, <2>1, <2>2 DEF Noticed, Busy, IsRunning
    <2>4. Reloading'
      BY <1>0, <1>8, <1>10, <2>1 DEF Reloading
    <2>5. Restarting'
      BY <1>0, <1>8, <1>10 DEF Restarting, Busy, Noticed
    <2>6. Flagged'
      BY <2>2 DEF Flagged
    <2> QED BY <1>1, <1>2, <1>3, <2>3, <2>4, <2>5, <2>6
  <1>11. CASE /\ main_loop' = Idle /\ flag' = main_loop.diff /\ ~main_loop.changed
              /\ crossed' = IF ~main_loop.clean \/ Busy THEN TRUE ELSE crossed
    <2>1. Quiet'
      BY <1>11 DEF Quiet, Idle
    <2>2. Noticed'
      BY <1>8, <1>11, <2>1 DEF Noticed, Busy
    <2>3. Reloading'
      BY <2>1 DEF Reloading
    <2>4. Restarting'
      BY <1>0, <1>8, <1>11 DEF Restarting, Busy, Noticed
    <2>5. Flagged'
      BY <1>0, <1>8, <1>11 DEF Flagged, Reloading, Busy, IsRunning
    <2> QED BY <1>1, <1>2, <1>3, <2>2, <2>3, <2>4, <2>5
  <1> QED BY <1>9, <1>10, <1>11

LEMMA ReloadFlagsKeeps ==
  ASSUME ParametersIInv, ReloadFlags
  PROVE  ParametersIInv'
  <1> USE DEF ReloadFlags, Busy, Idle, Quiet, IsRunning, Crossed
  <1>1. ParamTypes'
    BY DEF ParamTypes, ReloadTypes, Reloads, Crossed
  <1>2. ReloadTypes'
    BY DEF ReloadTypes
  <1>3. RestartTypes'
    BY DEF RestartTypes
  <1>4. Noticed'
    BY DEF Noticed
  <1>5. Reloading'
    BY DEF Reloading
  <1>6. Restarting'
    BY DEF Restarting, Noticed, ParamTypes, ReloadTypes
  <1>7. Flagged'
    BY DEF Flagged, Reloading, ParamTypes, ReloadTypes, Reloads
  <1> QED BY <1>1, <1>2, <1>3, <1>4, <1>5, <1>6, <1>7

LEMMA RestartKeeps ==
  ASSUME ParametersIInv, restart
  PROVE  ParametersIInv'
  <1>1. /\ UNCHANGED <<goal, want, conf, run, flag, role, control, sched, crossed>> /\ ~Busy /\ pgstate' = "restarting"
        /\ thr' = [pc |-> "stop", value |-> 0, clean |-> main_loop.pc \in {"idle", "sleep"}]
        /\ main_loop' = IF main_loop.pc \in {"write", "query"} THEN [main_loop EXCEPT !.clean = FALSE] ELSE main_loop
    BY DEF restart, Begin, Disturb
  <1>2. thr'.pc = "stop" /\ (thr'.clean <=> Quiet) /\ Busy'
    BY <1>1 DEF Quiet, Busy
  <1>3. RestartTypes'
    <2> DEFINE c == main_loop.pc \in {"idle", "sleep"}
    <2>1. c \in BOOLEAN
      OBVIOUS
    <2>2. thr' = [pc |-> "stop", value |-> 0, clean |-> c]
      BY <1>1
    <2> HIDE DEF c
    <2> QED BY <2>1, <2>2 DEF RestartTypes
  <1>4. ReloadTypes' /\ (Quiet' <=> Quiet) /\ (~Quiet => ~main_loop'.clean)
    BY <1>1 DEF ReloadTypes, Reloads, Quiet
  <1>5. ParamTypes'
    BY <1>1, <1>2 DEF ParamTypes, Busy
  <1>6. Noticed' /\ Reloading'
    BY <1>2, <1>4 DEF Noticed, Reloading
  <1>7. Restarting' /\ Flagged'
    BY <1>2 DEF Restarting, Flagged
  <1> QED BY <1>3, <1>4, <1>5, <1>6, <1>7

LEMMA ScheduleRestartKeeps ==
  ASSUME ParametersIInv, schedule_future_restart
  PROVE  ParametersIInv'
  <1> USE DEF schedule_future_restart, Busy, Idle, Quiet, IsRunning
  <1>1. ParamTypes'
    BY DEF ParamTypes
  <1>2. ReloadTypes'
    BY DEF ReloadTypes
  <1>3. RestartTypes'
    BY DEF RestartTypes
  <1>4. Noticed'
    BY DEF Noticed
  <1>5. Reloading'
    BY DEF Reloading
  <1>6. Restarting'
    BY DEF Restarting
  <1>7. Flagged'
    BY DEF Flagged
  <1> QED BY <1>1, <1>2, <1>3, <1>4, <1>5, <1>6, <1>7

LEMMA DeleteRestartKeeps ==
  ASSUME ParametersIInv, delete_future_restart
  PROVE  ParametersIInv'
  <1> USE DEF delete_future_restart, Busy, Idle, Quiet, IsRunning
  <1>1. ParamTypes'
    BY DEF ParamTypes
  <1>2. ReloadTypes'
    BY DEF ReloadTypes
  <1>3. RestartTypes'
    BY DEF RestartTypes
  <1>4. Noticed'
    BY DEF Noticed
  <1>5. Reloading'
    BY DEF Reloading
  <1>6. Restarting'
    BY DEF Restarting
  <1>7. Flagged'
    BY DEF Flagged
  <1> QED BY <1>1, <1>2, <1>3, <1>4, <1>5, <1>6, <1>7

LEMMA EvaluateRestartKeeps ==
  ASSUME ParametersIInv, evaluate_scheduled_restart
  PROVE  ParametersIInv'
  <1>1. /\ UNCHANGED <<goal, want, conf, run, flag, pgstate, role, control, thr, crossed>> /\ main_loop = Idle /\ ~Busy
        /\ main_loop' = main_loop \/ main_loop' = [pc |-> "sleep", req |-> sched.req]
    BY DEF evaluate_scheduled_restart
  <1>2. Quiet /\ Quiet'
    BY <1>1 DEF Quiet, Idle
  <1>3. ReloadTypes'
    BY <1>1 DEF ReloadTypes
  <1>4. ParamTypes' /\ RestartTypes' /\ Noticed'
    BY <1>1, <1>2 DEF ParamTypes, RestartTypes, Noticed, Busy
  <1>5. Reloading' /\ Restarting' /\ Flagged'
    BY <1>1, <1>2 DEF Reloading, Restarting, Flagged, Busy, IsRunning
  <1> QED BY <1>3, <1>4, <1>5

LEMMA RunScheduledKeeps ==
  ASSUME ParametersIInv, RunScheduled
  PROVE  ParametersIInv'
  <1>1. /\ UNCHANGED <<goal, want, conf, run, flag, role, control, crossed>> /\ main_loop.pc = "sleep" /\ main_loop' = Idle
        /\ \/ ~Busy /\ thr' = [pc |-> "stop", value |-> 0, clean |-> TRUE] /\ pgstate' = "restarting"
           \/ UNCHANGED <<thr, pgstate>>
    BY DEF RunScheduled, Begin
  <1>2. Quiet /\ Quiet'
    BY <1>1 DEF Quiet, Idle
  <1>3. ReloadTypes'
    BY <1>1 DEF ReloadTypes, Idle
  <1>4. RestartTypes' /\ ParamTypes'
    <2>1. CASE ~Busy /\ thr' = [pc |-> "stop", value |-> 0, clean |-> TRUE] /\ pgstate' = "restarting"
      <3>1. thr'.pc = "stop"
        BY <2>1
      <3>2. RestartTypes'
        BY <2>1 DEF RestartTypes
      <3> QED BY <1>1, <2>1, <3>1, <3>2 DEF ParamTypes, Busy
    <2>2. CASE UNCHANGED <<thr, pgstate>>
      BY <1>1, <2>2 DEF RestartTypes, ParamTypes, Busy
    <2> QED BY <1>1, <2>1, <2>2
  <1>6. Noticed' /\ Reloading'
    BY <1>1, <1>2 DEF Noticed, Reloading, Busy
  <1>7. Restarting' /\ Flagged'
    BY <1>1, <1>2 DEF Restarting, Flagged, Busy, IsRunning
  <1> QED BY <1>3, <1>4, <1>6, <1>7

LEMMA StopKeeps ==
  ASSUME ParametersIInv, stop
  PROVE  ParametersIInv'
  <1> USE DEF stop, Busy, Idle, Quiet, IsRunning
  <1>1. ParamTypes'
    BY DEF ParamTypes
  <1>2. ReloadTypes'
    BY DEF ReloadTypes
  <1>3. RestartTypes'
    BY DEF RestartTypes
  <1>4. Noticed'
    BY DEF Noticed
  <1>5. Reloading'
    BY DEF Reloading
  <1>6. Restarting'
    BY DEF Restarting
  <1>7. Flagged'
    BY DEF Flagged
  <1> QED BY <1>1, <1>2, <1>3, <1>4, <1>5, <1>6, <1>7

LEMMA StartKeeps ==
  ASSUME ParametersIInv, start
  PROVE  ParametersIInv'
  <1> USE DEF start, Busy, Idle, Quiet, IsRunning
  <1>1. ParamTypes'
    BY DEF ParamTypes
  <1>2. ReloadTypes'
    BY DEF ReloadTypes
  <1>3. RestartTypes'
    BY DEF RestartTypes
  <1>4. Noticed'
    BY DEF Noticed
  <1>5. Reloading'
    BY DEF Reloading
  <1>6. Restarting'
    BY DEF Restarting
  <1>7. Flagged'
    BY DEF Flagged
  <1> QED BY <1>1, <1>2, <1>3, <1>4, <1>5, <1>6, <1>7

LEMMA EffectiveConfigurationKeeps ==
  ASSUME ParametersIInv, configure
  PROVE  ParametersIInv'
  <1>0. /\ UNCHANGED <<goal, want, conf, run, pgstate, role, control, main_loop, sched, crossed>> /\ thr.pc = "configure"
        /\ thr' = [thr EXCEPT !.pc = "launch", !.value = effective_configuration]
        /\ flag' = IF role = "replica" THEN control > want ELSE flag
    BY DEF configure
  <1>8. /\ effective_configuration \in Amount
        /\ role = "replica" => effective_configuration >= control /\ (control > want <=> effective_configuration /= want)
        /\ role /= "replica" => effective_configuration = want
    <2>0. want \in Nat /\ control \in Nat /\ want \in Amount /\ control \in Amount
      BY DEF ParamTypes
    <2>1. CASE role = "replica" /\ control > want
      BY <2>0, <2>1 DEF effective_configuration
    <2>2. CASE ~(role = "replica" /\ control > want)
      BY <2>0, <2>2 DEF effective_configuration
    <2> QED BY <2>1, <2>2
  <1>9. RestartTypes' /\ thr'.pc = "launch" /\ thr'.value = effective_configuration /\ thr'.clean = thr.clean
    BY <1>0, <1>8 DEF RestartTypes
  <1>10. flag' \in BOOLEAN /\ (role = "replica" => (flag' <=> control > want)) /\ (role /= "replica" => flag' = flag)
    <2>1. CASE role = "replica"
      <3>1. CASE control > want
        BY <1>0, <2>1, <3>1
      <3>2. CASE ~(control > want)
        <4>0. control \in Nat /\ want \in Nat
          BY DEF ParamTypes
        <4>1. (control > want) = FALSE
          BY <3>2, <4>0
        <4> QED BY <1>0, <2>1, <3>2, <4>1
      <3> QED BY <3>1, <3>2
    <2>2. CASE role /= "replica"
      BY <1>0, <2>2 DEF ParamTypes
    <2> QED BY <2>1, <2>2
  <1>1. ParamTypes'
    BY <1>0, <1>9, <1>10 DEF ParamTypes, Busy
  <1>2. ReloadTypes' /\ Noticed' /\ Reloading'
    BY <1>0, <1>9 DEF ReloadTypes, Noticed, Reloading, Quiet, Busy, IsRunning
  <1>3. Restarting'
    BY <1>0, <1>8, <1>9, <1>10 DEF Restarting, Busy
  <1>4. Flagged'
    BY <1>9 DEF Flagged, Busy
  <1> QED BY <1>1, <1>2, <1>3, <1>4, <1>9

LEMMA LaunchKeeps ==
  ASSUME ParametersIInv, launch
  PROVE  ParametersIInv'
  <1> USE DEF launch, Busy, Idle, Quiet, IsRunning
  <1>1. ParamTypes'
    BY DEF ParamTypes, Restarting, RestartTypes
  <1>2. ReloadTypes'
    BY DEF ReloadTypes
  <1>3. RestartTypes'
    BY DEF RestartTypes
  <1>4. Noticed'
    BY DEF Noticed
  <1>5. Reloading'
    BY DEF Reloading, Noticed, ParamTypes
  <1>6. Restarting'
    BY DEF Restarting
  <1>7. Flagged'
    BY DEF Flagged
  <1> QED BY <1>1, <1>2, <1>3, <1>4, <1>5, <1>6, <1>7

LEMMA CheckStartupKeeps ==
  ASSUME ParametersIInv, check_startup_state_changed
  PROVE  ParametersIInv'
  <1> USE DEF check_startup_state_changed, Busy, Idle, Quiet, IsRunning
  <1>1. ParamTypes'
    BY DEF ParamTypes
  <1>2. ReloadTypes'
    BY DEF ReloadTypes
  <1>3. RestartTypes'
    BY DEF RestartTypes
  <1>4. Noticed'
    BY DEF Noticed
  <1>5. Reloading'
    BY DEF Reloading, Noticed, ParamTypes
  <1>6. Restarting'
    BY DEF Restarting
  <1>7. Flagged'
    BY DEF Flagged, Restarting, Noticed, RestartTypes, ParamTypes
  <1> QED BY <1>1, <1>2, <1>3, <1>4, <1>5, <1>6, <1>7

LEMMA RecoverDeadKeeps ==
  ASSUME ParametersIInv, recover_dead
  PROVE  ParametersIInv'
  <1> USE DEF recover_dead, Busy, Idle, Quiet, IsRunning, Begin
  <1>1. ParamTypes'
    BY DEF ParamTypes
  <1>2. ReloadTypes'
    BY DEF ReloadTypes
  <1>3. RestartTypes'
    BY DEF RestartTypes
  <1>4. Noticed'
    BY DEF Noticed
  <1>5. Reloading'
    BY DEF Reloading
  <1>6. Restarting'
    BY DEF Restarting
  <1>7. Flagged'
    BY DEF Flagged
  <1> QED BY <1>1, <1>2, <1>3, <1>4, <1>5, <1>6, <1>7

LEMMA ConfigureKeeps ==
  ASSUME ParametersIInv, Configure
  PROVE  ParametersIInv'
  <1> USE DEF Configure, Busy, Idle, Quiet, IsRunning
  <1>1. ParamTypes'
    BY DEF ParamTypes
  <1>2. ReloadTypes'
    BY DEF ReloadTypes
  <1>3. RestartTypes'
    BY DEF RestartTypes
  <1>4. Noticed'
    BY DEF Noticed
  <1>5. Reloading'
    BY DEF Reloading
  <1>6. Restarting'
    BY DEF Restarting
  <1>7. Flagged'
    BY DEF Flagged
  <1> QED BY <1>1, <1>2, <1>3, <1>4, <1>5, <1>6, <1>7

LEMMA ReplayKeeps ==
  ASSUME ParametersIInv, Replay
  PROVE  ParametersIInv'
  <1> USE DEF Replay, Busy, Idle, Quiet, IsRunning
  <1>1. ParamTypes'
    BY DEF ParamTypes
  <1>2. ReloadTypes'
    BY DEF ReloadTypes
  <1>3. RestartTypes'
    BY DEF RestartTypes
  <1>4. Noticed'
    BY DEF Noticed
  <1>5. Reloading'
    BY DEF Reloading
  <1>6. Restarting'
    BY DEF Restarting, ParamTypes
  <1>7. Flagged'
    BY DEF Flagged
  <1> QED BY <1>1, <1>2, <1>3, <1>4, <1>5, <1>6, <1>7

LEMMA CrashKeeps ==
  ASSUME ParametersIInv, Crash
  PROVE  ParametersIInv'
  <1> USE DEF Crash, Busy, Idle, Quiet, IsRunning
  <1>1. ParamTypes'
    BY DEF ParamTypes
  <1>2. ReloadTypes'
    BY DEF ReloadTypes
  <1>3. RestartTypes'
    BY DEF RestartTypes
  <1>4. Noticed'
    BY DEF Noticed
  <1>5. Reloading'
    BY DEF Reloading
  <1>6. Restarting'
    BY DEF Restarting
  <1>7. Flagged'
    BY DEF Flagged
  <1> QED BY <1>1, <1>2, <1>3, <1>4, <1>5, <1>6, <1>7

LEMMA PromoteKeeps ==
  ASSUME ParametersIInv, Promote
  PROVE  ParametersIInv'
  <1> USE DEF Promote, Busy, Idle, Quiet, IsRunning
  <1>1. ParamTypes'
    BY DEF ParamTypes
  <1>2. ReloadTypes'
    BY DEF ReloadTypes
  <1>3. RestartTypes'
    BY DEF RestartTypes
  <1>4. Noticed'
    BY DEF Noticed
  <1>5. Reloading'
    BY DEF Reloading
  <1>6. Restarting'
    BY DEF Restarting
  <1>7. Flagged'
    BY DEF Flagged
  <1> QED BY <1>1, <1>2, <1>3, <1>4, <1>5, <1>6, <1>7

LEMMA DemoteKeeps ==
  ASSUME ParametersIInv, Demote
  PROVE  ParametersIInv'
  <1> USE DEF Demote, Busy, Idle, Quiet, IsRunning, Begin
  <1>1. ParamTypes'
    BY DEF ParamTypes
  <1>2. ReloadTypes'
    BY DEF ReloadTypes
  <1>3. RestartTypes'
    BY DEF RestartTypes
  <1>4. Noticed'
    BY DEF Noticed
  <1>5. Reloading'
    BY DEF Reloading
  <1>6. Restarting'
    BY DEF Restarting
  <1>7. Flagged'
    BY DEF Flagged
  <1> QED BY <1>1, <1>2, <1>3, <1>4, <1>5, <1>6, <1>7

-----------------------------------------------------------------------------
(* Parameters: the theorem.                                                *)

LEMMA InitParametersIInv == ParametersInit => ParametersIInv
  <1> SUFFICES ASSUME ParametersInit PROVE ParametersIInv
    OBVIOUS
  <1> USE DEF ParametersInit, Idle, Quiet, Busy, IsRunning
  <1>1. PICK x \in Amount : goal = x /\ want = x /\ conf = x /\ run = x /\ control = x
    OBVIOUS
  <1>2. main_loop.pc = "idle" /\ thr.pc = "idle" /\ thr \in [pc : {"idle"}]
    OBVIOUS
  <1>3. ParamTypes
    <2>1. flag \in BOOLEAN /\ crossed \in BOOLEAN
      OBVIOUS
    <2> QED BY <1>1, <1>2, <2>1 DEF ParamTypes
  <1>4. ReloadTypes /\ RestartTypes /\ Noticed /\ Reloading
    BY <1>2 DEF ReloadTypes, RestartTypes, Noticed, Reloading
  <1>5. Restarting /\ Flagged
    BY <1>1, <1>2 DEF Restarting, Flagged
  <1> QED BY <1>3, <1>4, <1>5

LEMMA NextParametersIInv == ParametersIInv /\ [ParametersNext]_parametersVars => ParametersIInv'
  <1> SUFFICES ASSUME ParametersIInv, [ParametersNext]_parametersVars PROVE ParametersIInv'
    OBVIOUS
  <1>1. CASE ParametersNext
    <2> HIDE DEF ParametersIInv
    <2> QED BY <1>1, ReloadBeginsKeeps, ReloadWritesKeeps, ReloadFlagsKeeps, RestartKeeps, ScheduleRestartKeeps,
               DeleteRestartKeeps, EvaluateRestartKeeps, RunScheduledKeeps, StopKeeps, StartKeeps,
               EffectiveConfigurationKeeps, LaunchKeeps, CheckStartupKeeps, RecoverDeadKeeps,
               ConfigureKeeps, ReplayKeeps, CrashKeeps, PromoteKeeps, DemoteKeeps
            DEF ParametersNext
  <1>2. CASE UNCHANGED parametersVars
    <2> USE <1>2 DEF parametersVars, Quiet, Busy, IsRunning
    <2>1. ParamTypes'
      BY DEF ParamTypes
    <2>4. ReloadTypes' /\ RestartTypes'
      BY DEF ReloadTypes, RestartTypes
    <2>2. Noticed' /\ Reloading'
      BY DEF Noticed, Reloading
    <2>3. Restarting' /\ Flagged'
      BY DEF Restarting, Flagged
    <2> QED BY <2>1, <2>2, <2>3, <2>4
  <1> QED BY <1>1, <1>2

LEMMA ParametersIInvSafe == ParametersIInv => ParametersSafe
  <1> SUFFICES ASSUME ParametersIInv PROVE ParametersSafe
    OBVIOUS
  <1>1. ParametersTypeOK
    BY DEF ParametersTypeOK, ParamTypes, ReloadTypes
  <1>2. StandbyCanStart
    BY DEF StandbyCanStart, Restarting
  <1>3. FlagIsTrue
    <2> SUFFICES ASSUME Quiet, ~Busy, IsRunning, run /= 0, ~crossed PROVE flag = (run /= want)
      BY DEF FlagIsTrue, Quiet
    <2>1. flag \in BOOLEAN /\ (flag <=> run /= want)
      BY DEF Flagged, ParamTypes
    <2> QED BY <2>1
  <1> QED BY <1>1, <1>2, <1>3 DEF ParametersSafe

\* A standby is never started with less than pg_control asks for, and the flag tells the
\* truth unless a reload and a restart came in each other's way, for any values
\* (effective_configuration, reload_config).
THEOREM ParametersAreSafe == ParametersSpec => []ParametersSafe
  <1> HIDE DEF ParametersIInv
  <1> QED BY InitParametersIInv, NextParametersIInv, ParametersIInvSafe, PTL DEF ParametersSpec

HIDE ParametersAssumption DEF ParametersIInv

-----------------------------------------------------------------------------
(* Recovery configuration: the inductive invariant.                        *)

\* Types; a receiver streams from the host the postmaster was told.
RecoveryTypes ==
    /\ version \in {11, 12, 14}
    /\ target \in Host /\ conninfo \in Host /\ pass \in Host /\ live \in Host
    /\ auto \in Host \cup {NoHost} /\ receiver \in Host \cup {NoHost}
    /\ known \in Host \cup {NoHost} /\ params \in Host \cup {NoHost}
    /\ signal \in BOOLEAN /\ hup \in BOOLEAN /\ restarting \in BOOLEAN /\ outdated \in BOOLEAN
    /\ postmaster \in {"running", "starting", "down", "primary"}
    /\ fresh \in [Files -> BOOLEAN]
    /\ receiver /= NoHost => postmaster = "running" /\ receiver = live

\* Whoever restarts Postgres has told whom to follow.
Told == restarting => params \in Host

\* A postmaster that is new has not been asked.
NewProcess == postmaster = "starting" /\ version > 11 => ~fresh["process"]

\* What Patroni believes without asking is so: of recovery.conf, if it has not changed, ..
FileKnown == version = 11 /\ signal /\ fresh["conf"] => known = conninfo

\* .. and of a later Postgres, unless it has read its files after it was asked.
LiveKnown ==
    version > 11 /\ signal /\ postmaster = "running" /\ ~restarting /\ Unchanged
    => known /= NoHost /\ (~outdated => known = live)

RecoveryIInv == RecoveryTypes /\ Told /\ NewProcess /\ FileKnown /\ LiveKnown

-----------------------------------------------------------------------------
(* Recovery configuration: the steps.                                      *)

USE RecoveryAssumption DEF RecoveryIInv, conn, server, memory, Files

LEMMA UnreadIs ==
  ASSUME NEW read \in [Files -> BOOLEAN]
  PROVE  Unread(read) \in [Files -> BOOLEAN] /\ ~Unread(read)["conf"] /\ ~Unread(read)["auto"]
  BY DEF Unread

\* What was read is some host.
LEMMA ReadIs ==
  ASSUME RecoveryIInv
  PROVE  _read_recovery_params \in Host \cup {NoHost} /\ (Reads => _read_recovery_params \in Host)
  BY DEF _read_recovery_params, RecoveryTypes

LEMMA AfterReadIs ==
  ASSUME RecoveryIInv, AfterRead
  PROVE  /\ fresh' \in [Files -> BOOLEAN] /\ outdated' \in BOOLEAN
         /\ signal /\ Reads => outdated' = FALSE
         /\ ~signal \/ ~Reads => UNCHANGED <<fresh, outdated>>
  <1>1. CASE ~signal \/ ~Reads
    BY <1>1 DEF AfterRead, RecoveryTypes
  <1>2. CASE signal /\ Reads
    <2> DEFINE good == fresh["pass"] \/ (receiver = NoHost /\ pass = target)
    <2>1. good \in BOOLEAN
      BY Zenon DEF RecoveryTypes
    <2>2. fresh' = [f \in Files |-> IF f = "pass" THEN good ELSE TRUE] /\ outdated' = FALSE
      BY <1>2 DEF AfterRead
    <2> HIDE DEF good
    <2> QED BY <1>2, <2>1, <2>2
  <1> QED BY <1>1, <1>2

LEMMA CheckNothingKeepsRecovery ==
  ASSUME RecoveryIInv, CheckNothing
  PROVE  RecoveryIInv'
  <1>1. /\ UNCHANGED <<version, target, conninfo, auto, signal, pass, postmaster, live, receiver, hup, params, restarting>>
        /\ postmaster \in {"running", "starting"} /\ ~restarting
        /\ \/ known' = (IF signal THEN _read_recovery_params ELSE known) /\ AfterRead
           \/ UNCHANGED <<known, fresh, outdated>>
    BY DEF CheckNothing
  <1>2. CASE UNCHANGED <<known, fresh, outdated>> \/ ~signal \/ ~Reads
    <2>1. UNCHANGED <<known, fresh, outdated>>
      BY <1>1, <1>2, AfterReadIs DEF _read_recovery_params
    <2> QED BY <1>1, <2>1 DEF RecoveryTypes, Told, NewProcess, FileKnown, LiveKnown, Unchanged
  <1>3. CASE AfterRead /\ signal /\ Reads /\ known' = _read_recovery_params
    <2>1. /\ known' = IF version = 11 THEN conninfo ELSE live
          /\ version = 11 \/ postmaster = "running"
      BY <1>3 DEF _read_recovery_params, Reads
    <2>2. RecoveryTypes'
      BY <1>1, <1>3, <2>1, AfterReadIs DEF RecoveryTypes
    <2>3. Told' /\ NewProcess' /\ FileKnown' /\ LiveKnown'
      BY <1>1, <2>1 DEF Told, NewProcess, FileKnown, LiveKnown, RecoveryTypes
    <2> QED BY <2>2, <2>3
  <1> QED BY <1>1, <1>2, <1>3

LEMMA FollowReloadKeepsRecovery ==
  ASSUME RecoveryIInv, FollowReload
  PROVE  RecoveryIInv'
  <1> USE DEF FollowReload, Write, AllFresh, Reads
  <1>1. RecoveryTypes'
    BY UnreadIs DEF RecoveryTypes
  <1>2. Told' /\ NewProcess'
    BY UnreadIs DEF Told, NewProcess, RecoveryTypes
  <1>3. FileKnown'
    BY UnreadIs DEF FileKnown, RecoveryTypes
  <1>4. LiveKnown'
    BY UnreadIs DEF LiveKnown, RecoveryTypes, Unchanged
  <1> QED BY <1>1, <1>2, <1>3, <1>4

LEMMA FollowRestartKeepsRecovery ==
  ASSUME RecoveryIInv, FollowRestart
  PROVE  RecoveryIInv'
  <1> USE DEF FollowRestart, Write, Reads
  <1>1. RecoveryTypes'
    BY UnreadIs DEF RecoveryTypes
  <1>2. Told' /\ NewProcess'
    BY UnreadIs DEF Told, NewProcess, RecoveryTypes
  <1>3. FileKnown'
    BY UnreadIs DEF FileKnown, RecoveryTypes
  <1>4. LiveKnown'
    BY UnreadIs DEF LiveKnown, RecoveryTypes, Unchanged
  <1> QED BY <1>1, <1>2, <1>3, <1>4

LEMMA StopKeepsRecovery ==
  ASSUME RecoveryIInv, Stop
  PROVE  RecoveryIInv'
  <1> USE DEF Stop
  <1>1. RecoveryTypes'
    BY DEF RecoveryTypes
  <1>2. Told' /\ NewProcess'
    BY DEF Told, NewProcess, RecoveryTypes
  <1>3. FileKnown'
    BY DEF FileKnown, RecoveryTypes
  <1>4. LiveKnown'
    BY DEF LiveKnown, RecoveryTypes, Unchanged
  <1> QED BY <1>1, <1>2, <1>3, <1>4

LEMMA StartStandbyKeepsRecovery ==
  ASSUME RecoveryIInv, start_standby
  PROVE  RecoveryIInv'
  <1> USE DEF start_standby, Write
  <1>1. RecoveryTypes'
    <2>1. CASE version = 11
      BY <2>1 DEF RecoveryTypes
    <2>2. CASE version /= 11
      <3>1. params \in Host /\ Unread(fresh) \in [Files -> BOOLEAN]
        BY UnreadIs DEF RecoveryTypes, Told
      <3> QED BY <2>2, <3>1 DEF RecoveryTypes
    <2> QED BY <2>1, <2>2
  <1>2. Told' /\ NewProcess'
    BY UnreadIs DEF Told, NewProcess, RecoveryTypes
  <1>3. FileKnown'
    BY UnreadIs DEF FileKnown, RecoveryTypes
  <1>4. LiveKnown'
    BY UnreadIs DEF LiveKnown, RecoveryTypes, Unchanged
  <1> QED BY <1>1, <1>2, <1>3, <1>4

LEMMA CheckForStartupKeepsRecovery ==
  ASSUME RecoveryIInv, check_for_startup
  PROVE  RecoveryIInv'
  <1> USE DEF check_for_startup
  <1>1. RecoveryTypes'
    BY DEF RecoveryTypes
  <1>2. Told' /\ NewProcess'
    BY DEF Told, NewProcess, RecoveryTypes
  <1>3. FileKnown'
    BY DEF FileKnown, RecoveryTypes
  <1>4. LiveKnown'
    BY DEF LiveKnown, RecoveryTypes, Unchanged, NewProcess
  <1> QED BY <1>1, <1>2, <1>3, <1>4

LEMMA RecoverKeepsRecovery ==
  ASSUME RecoveryIInv, Recover
  PROVE  RecoveryIInv'
  <1> USE DEF Recover, Write
  <1>1. RecoveryTypes'
    BY UnreadIs DEF RecoveryTypes
  <1>2. Told' /\ NewProcess'
    BY UnreadIs DEF Told, NewProcess, RecoveryTypes
  <1>3. FileKnown'
    BY UnreadIs DEF FileKnown, RecoveryTypes
  <1>4. LiveKnown'
    BY UnreadIs DEF LiveKnown, RecoveryTypes, Unchanged
  <1> QED BY <1>1, <1>2, <1>3, <1>4

LEMMA ReloadConfigKeepsRecovery ==
  ASSUME RecoveryIInv, reload_config
  PROVE  RecoveryIInv'
  <1> USE DEF reload_config
  <1>1. RecoveryTypes'
    BY UnreadIs DEF RecoveryTypes
  <1>2. Told' /\ NewProcess'
    BY UnreadIs DEF Told, NewProcess, RecoveryTypes
  <1>3. FileKnown'
    BY UnreadIs DEF FileKnown, RecoveryTypes
  <1>4. LiveKnown'
    BY UnreadIs DEF LiveKnown, RecoveryTypes, Unchanged
  <1> QED BY <1>1, <1>2, <1>3, <1>4

LEMMA RemoveRecoveryConfKeepsRecovery ==
  ASSUME RecoveryIInv, remove_recovery_conf
  PROVE  RecoveryIInv'
  <1> USE DEF remove_recovery_conf
  <1>1. RecoveryTypes'
    BY DEF RecoveryTypes
  <1>2. Told' /\ NewProcess'
    BY DEF Told, NewProcess, RecoveryTypes
  <1>3. FileKnown'
    BY DEF FileKnown, RecoveryTypes
  <1>4. LiveKnown'
    BY DEF LiveKnown, RecoveryTypes, Unchanged
  <1> QED BY <1>1, <1>2, <1>3, <1>4

LEMMA RetargetKeepsRecovery ==
  ASSUME RecoveryIInv, Retarget
  PROVE  RecoveryIInv'
  <1> USE DEF Retarget
  <1>1. RecoveryTypes'
    BY DEF RecoveryTypes
  <1>2. Told' /\ NewProcess'
    BY DEF Told, NewProcess, RecoveryTypes
  <1>3. FileKnown'
    BY DEF FileKnown, RecoveryTypes
  <1>4. LiveKnown'
    BY DEF LiveKnown, RecoveryTypes, Unchanged
  <1> QED BY <1>1, <1>2, <1>3, <1>4

LEMMA SighupKeepsRecovery ==
  ASSUME RecoveryIInv, Sighup
  PROVE  RecoveryIInv'
  <1> USE DEF Sighup, Effective
  <1>1. RecoveryTypes'
    BY DEF RecoveryTypes
  <1>2. Told' /\ NewProcess'
    BY DEF Told, NewProcess, RecoveryTypes
  <1>3. FileKnown'
    BY DEF FileKnown, RecoveryTypes
  <1>4. LiveKnown'
    BY DEF LiveKnown, RecoveryTypes, Unchanged
  <1> QED BY <1>1, <1>2, <1>3, <1>4

LEMMA AlterSystemKeepsRecovery ==
  ASSUME RecoveryIInv, AlterSystem
  PROVE  RecoveryIInv'
  <1> USE DEF AlterSystem
  <1>1. RecoveryTypes'
    BY DEF RecoveryTypes
  <1>2. Told' /\ NewProcess'
    BY DEF Told, NewProcess, RecoveryTypes
  <1>3. FileKnown'
    BY DEF FileKnown, RecoveryTypes
  <1>4. LiveKnown'
    BY DEF LiveKnown, RecoveryTypes, Unchanged
  <1> QED BY <1>1, <1>2, <1>3, <1>4

LEMMA PgReloadConfKeepsRecovery ==
  ASSUME RecoveryIInv, pg_reload_conf
  PROVE  RecoveryIInv'
  <1> USE DEF pg_reload_conf
  <1>1. RecoveryTypes'
    BY DEF RecoveryTypes
  <1>2. Told' /\ NewProcess'
    BY DEF Told, NewProcess, RecoveryTypes
  <1>3. FileKnown'
    BY DEF FileKnown, RecoveryTypes
  <1>4. LiveKnown'
    BY DEF LiveKnown, RecoveryTypes, Unchanged
  <1> QED BY <1>1, <1>2, <1>3, <1>4

LEMMA WritePgpassKeepsRecovery ==
  ASSUME RecoveryIInv, write_pgpass
  PROVE  RecoveryIInv'
  <1> USE DEF write_pgpass
  <1>1. RecoveryTypes'
    BY DEF RecoveryTypes
  <1>2. Told' /\ NewProcess'
    BY DEF Told, NewProcess, RecoveryTypes
  <1>3. FileKnown'
    BY DEF FileKnown, RecoveryTypes
  <1>4. LiveKnown'
    BY DEF LiveKnown, RecoveryTypes, Unchanged
  <1> QED BY <1>1, <1>2, <1>3, <1>4

LEMMA OperatorRestartKeepsRecovery ==
  ASSUME RecoveryIInv, OperatorRestart
  PROVE  RecoveryIInv'
  <1> USE DEF OperatorRestart, Effective
  <1>1. RecoveryTypes'
    BY DEF RecoveryTypes
  <1>2. Told' /\ NewProcess'
    BY DEF Told, NewProcess, RecoveryTypes
  <1>3. FileKnown'
    BY DEF FileKnown, RecoveryTypes
  <1>4. LiveKnown'
    BY DEF LiveKnown, RecoveryTypes, Unchanged
  <1> QED BY <1>1, <1>2, <1>3, <1>4

LEMMA RemoveSignalKeepsRecovery ==
  ASSUME RecoveryIInv, RemoveSignal
  PROVE  RecoveryIInv'
  <1> USE DEF RemoveSignal
  <1>1. RecoveryTypes'
    BY DEF RecoveryTypes
  <1>2. Told' /\ NewProcess'
    BY DEF Told, NewProcess, RecoveryTypes
  <1>3. FileKnown'
    BY DEF FileKnown, RecoveryTypes
  <1>4. LiveKnown'
    BY DEF LiveKnown, RecoveryTypes, Unchanged
  <1> QED BY <1>1, <1>2, <1>3, <1>4

LEMMA WalReceiverKeepsRecovery ==
  ASSUME RecoveryIInv, WalReceiver
  PROVE  RecoveryIInv'
  <1> USE DEF WalReceiver
  <1>1. RecoveryTypes'
    BY DEF RecoveryTypes
  <1>2. Told' /\ NewProcess'
    BY DEF Told, NewProcess, RecoveryTypes
  <1>3. FileKnown'
    BY DEF FileKnown, RecoveryTypes
  <1>4. LiveKnown'
    BY DEF LiveKnown, RecoveryTypes, Unchanged
  <1> QED BY <1>1, <1>2, <1>3, <1>4

LEMMA StandbyDiesKeepsRecovery ==
  ASSUME RecoveryIInv, StandbyDies
  PROVE  RecoveryIInv'
  <1> USE DEF StandbyDies
  <1>1. RecoveryTypes'
    BY DEF RecoveryTypes
  <1>2. Told' /\ NewProcess'
    BY DEF Told, NewProcess, RecoveryTypes
  <1>3. FileKnown'
    BY DEF FileKnown, RecoveryTypes
  <1>4. LiveKnown'
    BY DEF LiveKnown, RecoveryTypes, Unchanged
  <1> QED BY <1>1, <1>2, <1>3, <1>4

LEMMA InitRecoveryIInv == RecoveryInit => RecoveryIInv
  BY DEF RecoveryInit, RecoveryTypes, Told, NewProcess, FileKnown, LiveKnown, Unchanged

LEMMA NextRecoveryIInv == RecoveryIInv /\ [RecoveryNext]_recoveryVars => RecoveryIInv'
  <1> SUFFICES ASSUME RecoveryIInv, [RecoveryNext]_recoveryVars PROVE RecoveryIInv'
    OBVIOUS
  <1>1. CASE RecoveryNext
    <2> HIDE DEF RecoveryIInv
    <2> QED BY <1>1, CheckNothingKeepsRecovery, FollowReloadKeepsRecovery, FollowRestartKeepsRecovery, StopKeepsRecovery, StartStandbyKeepsRecovery, CheckForStartupKeepsRecovery, RecoverKeepsRecovery, ReloadConfigKeepsRecovery, RemoveRecoveryConfKeepsRecovery, RetargetKeepsRecovery, SighupKeepsRecovery, AlterSystemKeepsRecovery, PgReloadConfKeepsRecovery, WritePgpassKeepsRecovery, OperatorRestartKeepsRecovery, RemoveSignalKeepsRecovery, WalReceiverKeepsRecovery, StandbyDiesKeepsRecovery DEF RecoveryNext
  <1>2. CASE UNCHANGED recoveryVars
    <2> USE <1>2 DEF recoveryVars
    <2>1. RecoveryTypes'
      BY DEF RecoveryTypes
    <2>2. Told' /\ NewProcess' /\ FileKnown' /\ LiveKnown'
      BY DEF Told, NewProcess, FileKnown, LiveKnown, Unchanged
    <2> QED BY <2>1, <2>2
  <1> QED BY <1>1, <1>2

LEMMA RecoveryIInvSafe == RecoveryIInv => RecoverySafe
  <1> SUFFICES ASSUME RecoveryIInv PROVE RecoverySafe
    OBVIOUS
  <1>1. RecoveryTypeOK
    BY DEF RecoveryTypeOK, RecoveryTypes
  <1>2. ASSUME postmaster = "running", ~restarting, check_recovery_conf = "none"
        PROVE  signal /\ _read_recovery_params /= NoHost /\ Seen = target /\ _check_passfile
    <2>1. signal /\ _check_primary_conninfo
      BY <1>2 DEF check_recovery_conf
    <2>2. _read_recovery_params /= NoHost
      <3>1. CASE Reads
        BY <3>1, ReadIs
      <3>2. CASE ~Reads
        BY <1>2, <2>1, <3>2 DEF Reads, _read_recovery_params, FileKnown, LiveKnown, RecoveryTypes, Unchanged
      <3> QED BY <3>1, <3>2
    <2>3. Seen /= NoHost
      BY <2>2 DEF Seen
    <2> QED BY <2>1, <2>2, <2>3 DEF _check_primary_conninfo
  <1>3. FindsWrongHost
    <2> SUFFICES ASSUME postmaster = "running", ~restarting, check_recovery_conf = "none", ~outdated
                 PROVE  (IF version = 11 THEN conninfo ELSE live) = target \/ (version = 11 /\ receiver = target)
      BY DEF FindsWrongHost
    <2>1. CASE version = 11
      BY <1>2, <2>1 DEF Seen, _read_recovery_params, FileKnown, Reads, Unchanged
    <2>2. CASE version > 11
      BY <1>2, <2>2 DEF Seen, _read_recovery_params, LiveKnown, Reads, RecoveryTypes
    <2> QED BY <2>1, <2>2 DEF RecoveryTypes
  <1>4. FindsWrongPassfile
    BY <1>2 DEF FindsWrongPassfile, _check_passfile
  <1> QED BY <1>1, <1>3, <1>4 DEF RecoverySafe

-----------------------------------------------------------------------------
(* Recovery configuration: the theorem.                                    *)

\* For any hosts, a check that finds nothing to do has looked at what counts: the
\* standby streams from the node to follow, with its password (check_recovery_conf).
THEOREM RecoveryIsSafe == RecoverySpec => []RecoverySafe
  <1> HIDE DEF RecoveryIInv
  <1> QED BY InitRecoveryIInv, NextRecoveryIInv, RecoveryIInvSafe, PTL DEF RecoverySpec
================================================================================
