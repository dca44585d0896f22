--------------------------- MODULE PatroniClusterProofs ---------------------------
(***************************************************************************)
(* Proofs about four parts of Patroni that share no state: synchronous     *)
(* replication, stopping and starting a postmaster, the callback scripts,  *)
(* and the watch caches.                                                   *)
(***************************************************************************)
EXTENDS PatroniSync, PatroniPostmaster, PatroniCallbacks, PatroniWatch, SequenceTheorems, WellFoundedInduction,
        TLAPS

-----------------------------------------------------------------------------
(* Synchronous replication: the inductive invariant.                        *)

\* Where a run of a node can be, and its steps on the standbys.
Steps == {"sleep", "loaded", "acquire", "reload", "enforce", "process", "temporary", "assign", "wait",
          "publish", "done", "demote"}
InSync == {"process", "temporary", "assign", "wait", "publish"}

\* What /sync and a loaded cluster hold.
SyncKey == [leader : Node \union {None}, members : SUBSET Node]
View == [leader : Node \union {None}, sync : SyncKey, tl : Nat]

\* Types, by the parts of the state.
StoreTypes == key \in Node \union {None} /\ sync \in SyncKey /\ history \in Nat
RunTypes ==
    /\ pc \in [Node -> Steps] /\ fresh \in [Node -> BOOLEAN] /\ view \in [Node -> View]
    /\ state \in [Node -> [picked : SUBSET Node, allow : SUBSET Node]]
PostgresTypes ==
    /\ pg \in [Node -> {"primary", "replica", "promoting", "crashed", "stopped"}]
    /\ tl \in [Node -> Nat] /\ upstream \in [Node -> Node \union {None}]
    /\ acked \subseteq Commit /\ unnamed \in BOOLEAN /\ faults \in Nat
LogTypes == log \in [Node -> Seq(Commit)]
HandlerTypes ==
    /\ ssn \in [Node -> SUBSET (Node \union {Star})]
    /\ ready \in [Node -> SUBSET Node] /\ flush \in [Node -> Nat]
Types == StoreTypes /\ RunTypes /\ PostgresTypes /\ LogTypes /\ HandlerTypes

\* A commit that two logs have is at one place in both, after the same commits.
Matching == \A m, n \in Node : \A i \in 1 .. Len(log[m]), j \in 1 .. Len(log[n]) :
    log[m][i] = log[n][j] => i = j /\ \A k \in 1 .. i : log[m][k] = log[n][k]

\* What a node's run knows of its own Postgres and settings: only a primary is in
\* the synchronous steps, who counts as ready is named, and a current version of
\* /sync is the one that was loaded.
Loop(n) ==
    /\ pg[n] \in {"primary", "crashed", "stopped"} => upstream[n] = None
    /\ pc[n] \in InSync \union {"done", "demote"} => pg[n] \in {"primary", "crashed"}
    /\ pg[n] \in {"stopped", "promoting"} => pc[n] = "sleep"
    /\ pg[n] = "promoting" => ssn[n] \subseteq {Star}
    /\ ready[n] \subseteq ssn[n]
    /\ fresh[n] /\ pc[n] /= "done" => view[n].sync = sync
    /\ pc[n] \in InSync \ {"process"} => state[n].allow \subseteq ready[n] \intersect state[n].picked

\* The owner of /sync names nobody there whom its setting does not name or is
\* about to name.
Published(n) == sync.leader = n =>
    /\ pc[n] /= "sleep" => fresh[n]
    /\ pc[n] = "assign" => sync.members \subseteq state[n].picked
    /\ pg[n] \in {"primary", "crashed", "promoting"} => sync.members \subseteq ssn[n]

NamesNobody == sync.leader = None => sync.members = {}

\* What holds however many faults there are.
Basic == /\ Types /\ Matching /\ NamesNobody
         /\ (\A n \in Node : Loop(n)) /\ (\A n \in Node : Published(n))

\* The one fault has happened.
Spent == faults >= MaxFaults

\* The leader key is free, or changes hands, only after a fault.
KeyHeld == /\ key = None => Spent
           /\ \A n \in Node : pc[n] = "reload" \/ (pg[n] = "replica" /\ pc[n] = "enforce") \/ pg[n] = "promoting"
                => key = n /\ Spent

\* The leader l has the commits D that clients were told of, or may be told of.
Held(l, D) == D \subseteq Range(log[l])

\* So has every node that /sync names or that counts as ready.
Copied(l, D) == \A r \in sync.members \union ready[l] : D \subseteq Range(log[r])

\* And who is named in the setting has them before it counts as ready: the position
\* it has to reach is behind them.
Caught(l, D) == pg[l] \in {"primary", "crashed"} => \A r \in ssn[l] \ {Star}, c \in D :
    c \in Range(log[r]) \/ \E i \in 1 .. Len(log[l]) : i <= flush[l] /\ log[l][i] = c

\* The leader goes on with the /sync it has written.
Seen(l) == pc[l] \notin {"sleep", "done"} => view[l].sync = sync

Safe(l, D) == Held(l, D) /\ Copied(l, D) /\ Caught(l, D) /\ Seen(l)

\* The first primary p still rules: /sync, the streams, and the key until the fault.
OneLeader(p) == sync.leader \in {None, p} /\ (sync.leader = None => acked = {})
Standbys(p) == upstream[p] = None /\ \A n \in Node \ {p} :
                  pg[n] = "replica" /\ upstream[n] \in {None, p} /\ IsPrefix(log[n], log[p])
Undisturbed(p) ==
    /\ ~Spent => /\ key = p /\ pg[p] = "primary" /\ \A n \in Node \ {p} : pc[n] = "sleep"
                 /\ pc[p] \notin {"acquire", "reload", "demote"} /\ (pc[p] = "loaded" => view[p].leader = p)
    /\ pg[p] = "crashed" => key = p

First(p) == OneLeader(p) /\ Standbys(p) /\ Undisturbed(p) /\ Safe(p, acked)

\* What clients may be told of once q has taken over from p: what they were told of,
\* and, while p goes on as a primary, what p has and q has too.
May(p, q) == acked \union (IF pg[p] = "primary" THEN Range(log[p]) \intersect Range(log[q]) ELSE {})

\* The node q that /sync named has taken over with the key.
Successor(q) ==
    /\ key = q /\ Spent /\ sync.leader = q /\ pg[q] \in {"promoting", "primary"}
    /\ pc[q] \notin {"acquire", "reload", "demote"} /\ (pc[q] = "loaded" => view[q].leader = q)

\* The first primary still needs q for a commit, and no version of /sync it
\* has loaded is current.
Overtaken(p, q) ==
    /\ p /= q /\ pg[p] \in {"primary", "replica", "stopped"}
    /\ pg[p] = "primary" => q \in ssn[p]
    /\ pc[p] = "assign" => q \in state[p].picked
    /\ pc[p] \in {"enforce", "process"} => q \in view[p].sync.members
    /\ pc[p] \in InSync \union {"enforce"} => ~fresh[p]

\* The other nodes, and who streams from q.
Followers(p, q) ==
    /\ \A n \in Node \ {p, q} : pg[n] = "replica"
    /\ \A n \in Node : upstream[n] = q /\ pg[n] = "replica" => IsPrefix(log[n], log[q])

Second(p, q) == Successor(q) /\ Overtaken(p, q) /\ Followers(p, q) /\ Safe(q, May(p, q))

\* The inductive invariant: until a node takes the role unnamed, the first primary
\* rules or one node has taken over from it.
IInv == Basic /\ (unnamed \/ (KeyHeld /\ ((\E p \in Node : First(p)) \/ \E p, q \in Node : Second(p, q))))

-----------------------------------------------------------------------------
(* Synchronous replication: prefixes of logs.                               *)

\* A bounded set of numbers has a greatest one.
LEMMA BoundedHasMax ==
    ASSUME NEW T \in SUBSET Nat, T # {}, NEW b \in Nat, \A x \in T : x <= b
    PROVE  \E x \in T : \A y \in T : y <= x
  <1> DEFINE U == {b - x : x \in T}
  <1>0. PICK z \in T : TRUE
    OBVIOUS
  <1>1. U \subseteq Nat /\ b - z \in U
    BY <1>0
  <1>2. PICK u \in U : \A v \in U : ~(<<v, u>> \in OpToRel(<, Nat))
    BY <1>1, WFMin, NatLessThanWellFounded
  <1>3. \A v \in U : ~(v < u)
    BY <1>1, <1>2 DEF OpToRel
  <1>4. PICK x \in T : u = b - x
    BY <1>2
  <1>5. ASSUME NEW y \in T PROVE y <= x
    <2>1. b - y \in U
      OBVIOUS
    <2>2. ~(b - y < b - x)
      BY <1>3, <1>4, <2>1
    <2> QED
      BY <2>2
  <1> QED
    BY <1>5

\* Prefixes, place by place.
LEMMA PrefixIs ==
    ASSUME NEW S, NEW s \in Seq(S), NEW t \in Seq(S)
    PROVE  IsPrefix(s, t) <=> Len(s) <= Len(t) /\ \A i \in 1 .. Len(s) : s[i] = t[i]
  <1>1. ASSUME Len(s) <= Len(t)
        PROVE  /\ SubSeq(s, 1, Len(s)) = s
               /\ SubSeq(t, 1, Len(s)) \in Seq(S) /\ Len(SubSeq(t, 1, Len(s))) = Len(s)
               /\ \A i \in 1 .. Len(s) : SubSeq(t, 1, Len(s))[i] = t[i]
    BY <1>1
  <1>2. ASSUME Len(s) <= Len(t), \A i \in 1 .. Len(s) : s[i] = t[i]
        PROVE  s = SubSeq(t, 1, Len(s))
    BY <1>1, <1>2, SeqEqual
  <1> QED
    BY <1>1, <1>2 DEF IsPrefix

LEMMA StrictPrefixIs ==
    ASSUME NEW S, NEW s \in Seq(S), NEW t \in Seq(S), IsStrictPrefix(s, t)
    PROVE  Len(s) + 1 <= Len(t)
  <1>1. Len(s) \in Nat /\ Len(t) \in Nat
    OBVIOUS
  <1>2. Len(s) <= Len(t) /\ \A i \in 1 .. Len(s) : s[i] = t[i]
    BY PrefixIs DEF IsStrictPrefix
  <1>3. Len(s) /= Len(t)
    BY <1>2, SeqEqual DEF IsStrictPrefix
  <1> QED
    BY <1>1, <1>2, <1>3

\* The longest common prefix is a prefix of both and has every place up to which they agree.
LEMMA LcpIs ==
    ASSUME NEW S, NEW s \in Seq(S), NEW t \in Seq(S)
    PROVE  LET p == LongestCommonPrefix({s, t})
           IN /\ p \in Seq(S) /\ IsPrefix(p, s) /\ IsPrefix(p, t)
              /\ \A i \in 1 .. Len(s) :
                    i <= Len(t) /\ (\A j \in 1 .. i : s[j] = t[j]) => i <= Len(p)
  <1> DEFINE C == CommonPrefixes({s, t})
             L == {Len(q) : q \in C}
  <1>1. ASSUME NEW i \in 0 .. Len(s) PROVE SubSeq(s, 1, i) \in Seq(S) /\ Len(SubSeq(s, 1, i)) = i
                      /\ \A j \in 1 .. i : SubSeq(s, 1, i)[j] = s[j]
    OBVIOUS
  <1>2. \A q \in C : q \in Seq(S) /\ IsPrefix(q, s) /\ IsPrefix(q, t)
    BY DEF CommonPrefixes, Prefixes
  <1>3. ASSUME NEW i \in 0 .. Len(s), i <= Len(t), \A j \in 1 .. i : s[j] = t[j]
        PROVE  SubSeq(s, 1, i) \in C
    <2>1. SubSeq(s, 1, i) \in Prefixes(s)
      BY <1>3 DEF Prefixes
    <2>2. IsPrefix(SubSeq(s, 1, i), s) /\ IsPrefix(SubSeq(s, 1, i), t)
      <3>1. SubSeq(s, 1, i) \in Seq(S) /\ Len(SubSeq(s, 1, i)) = i /\ i \in Nat /\ i <= Len(s)
        BY <1>1
      <3>2. \A j \in 1 .. i : SubSeq(s, 1, i)[j] = s[j] /\ SubSeq(s, 1, i)[j] = t[j]
        BY <1>1, <1>3
      <3> DEFINE q == SubSeq(s, 1, i)
      <3> HIDE DEF q
      <3>3. q \in Seq(S) /\ Len(q) = i /\ \A j \in 1 .. i : q[j] = s[j] /\ q[j] = t[j]
        BY <3>1, <3>2 DEF q
      <3>4. IsPrefix(q, s)
        BY <3>1, <3>3, PrefixIs
      <3>5. IsPrefix(q, t)
        BY <1>3, <3>1, <3>3, PrefixIs
      <3> QED
        BY <3>4, <3>5 DEF q
    <2> QED
      BY <2>1, <2>2 DEF CommonPrefixes
  <1>4. SubSeq(s, 1, 0) \in C
    <2>1. 0 \in 0 .. Len(s) /\ 0 <= Len(t) /\ \A j \in 1 .. 0 : s[j] = t[j]
      OBVIOUS
    <2> HIDE DEF C
    <2> QED
      BY <1>3, <2>1
  <1>5. L \subseteq Nat /\ Len(SubSeq(s, 1, 0)) \in L
    <2> HIDE DEF C
    <2>1. \A q \in C : Len(q) \in Nat
      BY <1>2
    <2> QED
      BY <1>4, <2>1
  <1>6. \A x \in L : x <= Len(s)
    BY <1>2, PrefixIs
  <1>7. PICK m \in L : \A y \in L : y <= m
    <2>0. Len(s) \in Nat
      OBVIOUS
    <2> HIDE DEF L
    <2>1. L \in SUBSET Nat /\ L # {} /\ \A x \in L : x <= Len(s)
      BY <1>5, <1>6
    <2> QED
      BY <2>0, <2>1, BoundedHasMax
  <1>8. \E q \in C : \A o \in C : Len(o) <= Len(q)
    BY <1>7
  <1> DEFINE p == LongestCommonPrefix({s, t})
  <1>9. p \in C /\ \A o \in C : Len(o) <= Len(p)
    <2> HIDE DEF C
    <2> QED
    BY <1>8 DEF LongestCommonPrefix, C
  <1>10. ASSUME NEW i \in 1 .. Len(s), i <= Len(t), \A j \in 1 .. i : s[j] = t[j]
         PROVE  i <= Len(p)
    <2>1. i \in 0 .. Len(s)
      OBVIOUS
    <2>2. SubSeq(s, 1, i) \in C /\ Len(SubSeq(s, 1, i)) = i
      BY <1>1, <1>3, <1>10, <2>1
    <2> HIDE DEF C, p
    <2>3. Len(SubSeq(s, 1, i)) <= Len(p)
      BY <1>9, <2>2
    <2> QED
      BY <2>2, <2>3
  <1> HIDE DEF C
  <1> QED
    BY <1>2, <1>9, <1>10

-----------------------------------------------------------------------------
(* Synchronous replication: types, runs and logs, with any number of faults. *)

\* What SyncHandler.current_state leaves: who is picked streams from p, who is allowed to
\* promote is ready and named, and who has become ready was named and had caught up.
CurrentStateIs(p, now, s) ==
    /\ now \subseteq Node /\ ready' = Set(ready, p, now) /\ state' = Set(state, p, s)
    /\ s \in [picked : SUBSET Node, allow : SUBSET Node]
    /\ s.picked \subseteq Streams(p) /\ s.allow = s.picked \intersect ssn[p] \intersect now
    /\ ready[p] \subseteq now
    /\ \A r \in now \ ready[p] : /\ r \in Streams(p) /\ r \in ssn[p]
                                /\ (r \in view[p].sync.members \/ Len(log[r]) >= flush[p])

LEMMA CurrentState ==
    ASSUME Types, NEW p \in Node, current_state(p)
    PROVE  \E now, s : CurrentStateIs(p, now, s)
  <1> DEFINE Now(eligible) == _process_replica_readiness(p, eligible)
             Some(eligible) == IF _ReplicaList(p, eligible) = {} THEN {{}} ELSE {{r} : r \in _ReplicaList(p, eligible)}
             S(eligible, picked) == [picked |-> picked, allow |-> picked \intersect ssn[p] \intersect Now(eligible)]
  <1>1. PICK eligible \in SUBSET Streams(p) :
            /\ ready' = Set(ready, p, Now(eligible))
            /\ \E picked \in Some(eligible) : state' = Set(state, p, S(eligible, picked))
    BY DEF current_state
  <1>2. PICK picked \in Some(eligible) : state' = Set(state, p, S(eligible, picked))
    BY <1>1
  <1>3. picked \subseteq eligible
    BY DEF _ReplicaList
  <1>4. Streams(p) \subseteq Node
    BY DEF Streams
  <1>5. /\ Now(eligible) \subseteq Node /\ ready[p] \subseteq Now(eligible)
        /\ \A r \in Now(eligible) \ ready[p] : /\ r \in Streams(p) /\ r \in ssn[p]
                                              /\ (r \in view[p].sync.members \/ Len(log[r]) >= flush[p])
    BY <1>4 DEF _process_replica_readiness, Types, HandlerTypes
  <1>6. /\ S(eligible, picked) \in [picked : SUBSET Node, allow : SUBSET Node]
        /\ S(eligible, picked).picked = picked
        /\ S(eligible, picked).allow = picked \intersect ssn[p] \intersect Now(eligible)
    BY <1>3, <1>4
  <1> DEFINE s == S(eligible, picked)
             now == Now(eligible)
  <1>7. state' = Set(state, p, s) /\ ready' = Set(ready, p, now)
    BY <1>1, <1>2
  <1>8. /\ s \in [picked : SUBSET Node, allow : SUBSET Node]
        /\ s.picked \subseteq Streams(p) /\ s.allow = s.picked \intersect ssn[p] \intersect now
    BY <1>3, <1>6
  <1> HIDE DEF s, now
  <1>9. CurrentStateIs(p, now, s)
    BY <1>5, <1>7, <1>8 DEF CurrentStateIs, now
  <1> QED
    BY <1>9

\* The types, helper by helper.
LEMMA SleepTypes ==
    ASSUME RunTypes, NEW n \in Node, Sleep(n)
    PROVE  RunTypes'
  <1>1. NoView \in View /\ NoState \in [picked : SUBSET Node, allow : SUBSET Node] /\ "sleep" \in Steps
    BY DEF NoView, NoState, NoSync, View, SyncKey, Steps
  <1> QED
    BY <1>1 DEF RunTypes, Sleep, Set

LEMMA GotoTypes ==
    ASSUME RunTypes, NEW n \in Node, NEW step \in Steps, Goto(n, step)
    PROVE  RunTypes'
  BY DEF RunTypes, Goto, Set

LEMMA SetNamesTypes ==
    ASSUME HandlerTypes, LogTypes, NEW n \in Node, NEW names \in SUBSET (Node \union {Star}),
           set_synchronous_standby_names(n, names)
    PROVE  HandlerTypes'
  <1>1. Len(log[n]) \in Nat
    BY DEF LogTypes
  <1>2. /\ ssn' \in [Node -> SUBSET (Node \union {Star})]
        /\ ready' \in [Node -> SUBSET Node]
    BY DEF HandlerTypes, set_synchronous_standby_names, Set
  <1>3. flush' \in [Node -> Nat]
    BY <1>1 DEF HandlerTypes, set_synchronous_standby_names, Set
  <1> QED
    BY <1>2, <1>3 DEF HandlerTypes

LEMMA SawTypes ==
    ASSUME RunTypes, NEW n \in Node, NEW members \in SUBSET Node, NEW step \in Steps, Saw(n, members, step)
    PROVE  RunTypes'
  <1> DEFINE v == [leader |-> view[n].leader, sync |-> [leader |-> n, members |-> members], tl |-> view[n].tl]
  <1>1. v \in View
    BY DEF RunTypes, View, SyncKey
  <1>2. view' = Set(view, n, v) /\ pc' = Set(pc, n, step) /\ UNCHANGED state /\ fresh' = [m \in Node |-> m = n]
    BY DEF Saw, Versions
  <1> HIDE DEF v
  <1> QED
    BY <1>1, <1>2 DEF RunTypes, Set

\* Every step keeps the types.
LEMMA TypesStep ==
    ASSUME PatroniSyncAssumption, Types, Next \/ UNCHANGED vars
    PROVE  Types'
  <1> USE DEF Types
  <1>1. ASSUME NEW n \in Node, load_cluster_from_dcs(n), UNCHANGED faults PROVE Types'
    <2>1. StoreTypes'
      BY <1>1 DEF load_cluster_from_dcs, LoadView, Set, dcs, run, postgres, handler, StoreTypes
    <2>2. RunTypes'
      BY <1>1 DEF load_cluster_from_dcs, LoadView, Set, dcs, run, postgres, handler, RunTypes, StoreTypes, HandlerTypes, Steps, SyncKey, View, NoView, NoSync, NoState
    <2>3. PostgresTypes'
      BY <1>1 DEF load_cluster_from_dcs, LoadView, Set, dcs, run, postgres, handler, PostgresTypes
    <2>4. LogTypes'
      BY <1>1 DEF load_cluster_from_dcs, LoadView, Set, dcs, run, postgres, handler, LogTypes
    <2>5. HandlerTypes'
      BY <1>1 DEF load_cluster_from_dcs, LoadView, Set, dcs, run, postgres, handler, HandlerTypes
    <2> QED
      BY <2>1, <2>2, <2>3, <2>4, <2>5
  <1>2. ASSUME NEW n \in Node, update_lock(n), UNCHANGED faults PROVE Types'
    <2>1. StoreTypes'
      BY <1>2 DEF update_lock, Goto, Lose, Sleep, Set, dcs, run, postgres, handler, StoreTypes
    <2>2. RunTypes'
      BY <1>2, SleepTypes, GotoTypes DEF update_lock, Lose, Steps
    <2>3. PostgresTypes'
      BY <1>2 DEF update_lock, Goto, Lose, Sleep, Set, dcs, run, postgres, handler, PostgresTypes
    <2>4. LogTypes'
      BY <1>2 DEF update_lock, Goto, Lose, Sleep, Set, dcs, run, postgres, handler, LogTypes
    <2>5. HandlerTypes'
      BY <1>2 DEF update_lock, Goto, Lose, Sleep, Set, dcs, run, postgres, handler, HandlerTypes
    <2> QED
      BY <2>1, <2>2, <2>3, <2>4, <2>5
  <1>3. ASSUME NEW n \in Node, EnableSync(n), UNCHANGED faults PROVE Types'
    <2>1. StoreTypes'
      BY <1>3 DEF EnableSync, write_sync_state, Publish, Saw, Versions, Refused, Sleep, Set, dcs, run, postgres, handler, StoreTypes, RunTypes, PostgresTypes, SyncKey, View
    <2>2. RunTypes'
      BY <1>3, SawTypes, SleepTypes DEF EnableSync, Steps
    <2>3. PostgresTypes'
      BY <1>3 DEF EnableSync, write_sync_state, Publish, Saw, Versions, Refused, Sleep, Set, dcs, run, postgres, handler, PostgresTypes
    <2>4. LogTypes'
      BY <1>3 DEF EnableSync, write_sync_state, Publish, Saw, Versions, Refused, Sleep, Set, dcs, run, postgres, handler, LogTypes
    <2>5. HandlerTypes'
      BY <1>3 DEF EnableSync, write_sync_state, Publish, Saw, Versions, Refused, Sleep, Set, dcs, run, postgres, handler, HandlerTypes
    <2> QED
      BY <2>1, <2>2, <2>3, <2>4, <2>5
  <1>4. ASSUME NEW n \in Node, process_sync_replication(n), UNCHANGED faults PROVE Types'
    <2> PICK now, s : CurrentStateIs(n, now, s)
      BY <1>4, CurrentState DEF process_sync_replication
    <2>1. StoreTypes'
      BY <1>4 DEF process_sync_replication, CurrentStateIs, Members, Set, dcs, run, postgres, handler, StoreTypes
    <2>2. RunTypes'
      BY <1>4 DEF process_sync_replication, CurrentStateIs, Members, Set, dcs, run, postgres, handler, RunTypes, StoreTypes, HandlerTypes, Steps, SyncKey, View, NoView, NoSync, NoState
    <2>3. PostgresTypes'
      BY <1>4 DEF process_sync_replication, CurrentStateIs, Members, Set, dcs, run, postgres, handler, PostgresTypes
    <2>4. LogTypes'
      BY <1>4 DEF process_sync_replication, CurrentStateIs, Members, Set, dcs, run, postgres, handler, LogTypes
    <2>5. HandlerTypes'
      BY <1>4 DEF process_sync_replication, CurrentStateIs, Members, Set, dcs, run, postgres, handler, HandlerTypes, LogTypes, RunTypes
    <2> QED
      BY <2>1, <2>2, <2>3, <2>4, <2>5
  <1>5. ASSUME NEW n \in Node, WriteCommon(n), UNCHANGED faults PROVE Types'
    <2>1. StoreTypes'
      BY <1>5 DEF WriteCommon, write_sync_state, Publish, Saw, Versions, Refused, Goto, Members, Set, dcs, run, postgres, handler, StoreTypes, RunTypes, PostgresTypes, SyncKey, View
    <2>2. RunTypes'
      <3>1. Members(n) \intersect state[n].allow \in SUBSET Node
        BY DEF RunTypes
      <3> QED
        BY <1>5, <3>1, SawTypes, GotoTypes DEF WriteCommon, Steps
    <2>3. PostgresTypes'
      BY <1>5 DEF WriteCommon, write_sync_state, Publish, Saw, Versions, Refused, Goto, Members, Set, dcs, run, postgres, handler, PostgresTypes
    <2>4. LogTypes'
      BY <1>5 DEF WriteCommon, write_sync_state, Publish, Saw, Versions, Refused, Goto, Members, Set, dcs, run, postgres, handler, LogTypes
    <2>5. HandlerTypes'
      BY <1>5 DEF WriteCommon, write_sync_state, Publish, Saw, Versions, Refused, Goto, Members, Set, dcs, run, postgres, handler, HandlerTypes
    <2> QED
      BY <2>1, <2>2, <2>3, <2>4, <2>5
  <1>6. ASSUME NEW n \in Node, Assign(n), UNCHANGED faults PROVE Types'
    <2>1. StoreTypes'
      BY <1>6 DEF Assign, set_synchronous_standby_names, Goto, Set, dcs, run, postgres, handler, StoreTypes
    <2>2. RunTypes'
      BY <1>6 DEF Assign, set_synchronous_standby_names, Goto, Set, dcs, run, postgres, handler, RunTypes, StoreTypes, HandlerTypes, Steps, SyncKey, View, NoView, NoSync, NoState
    <2>3. PostgresTypes'
      BY <1>6 DEF Assign, set_synchronous_standby_names, Goto, Set, dcs, run, postgres, handler, PostgresTypes
    <2>4. LogTypes'
      BY <1>6 DEF Assign, set_synchronous_standby_names, Goto, Set, dcs, run, postgres, handler, LogTypes
    <2>5. HandlerTypes'
      <3>1. (IF Strict /\ state[n].picked = {} THEN {Star} ELSE state[n].picked) \in SUBSET (Node \union {Star})
        BY DEF RunTypes
      <3> QED
        BY <1>6, <3>1, SetNamesTypes DEF Assign
    <2> QED
      BY <2>1, <2>2, <2>3, <2>4, <2>5
  <1>7. ASSUME NEW n \in Node, WaitReady(n), UNCHANGED faults PROVE Types'
    <2> PICK now, s : CurrentStateIs(n, now, s)
      BY <1>7, CurrentState DEF WaitReady
    <2>1. StoreTypes'
      BY <1>7 DEF WaitReady, CurrentStateIs, Set, dcs, run, postgres, handler, StoreTypes
    <2>2. RunTypes'
      BY <1>7 DEF WaitReady, CurrentStateIs, Set, dcs, run, postgres, handler, RunTypes, StoreTypes, HandlerTypes, Steps, SyncKey, View, NoView, NoSync, NoState
    <2>3. PostgresTypes'
      BY <1>7 DEF WaitReady, CurrentStateIs, Set, dcs, run, postgres, handler, PostgresTypes
    <2>4. LogTypes'
      BY <1>7 DEF WaitReady, CurrentStateIs, Set, dcs, run, postgres, handler, LogTypes
    <2>5. HandlerTypes'
      BY <1>7 DEF WaitReady, CurrentStateIs, Set, dcs, run, postgres, handler, HandlerTypes, LogTypes, RunTypes
    <2> QED
      BY <2>1, <2>2, <2>3, <2>4, <2>5
  <1>8. ASSUME NEW n \in Node, WriteAssigned(n), UNCHANGED faults PROVE Types'
    <2>1. StoreTypes'
      BY <1>8 DEF WriteAssigned, write_sync_state, Publish, Refused, Members, Set, dcs, run, postgres, handler, StoreTypes, RunTypes, PostgresTypes, SyncKey, View
    <2>2. RunTypes'
      BY <1>8 DEF WriteAssigned, write_sync_state, Publish, Refused, Members, Set, dcs, run, postgres, handler, RunTypes, StoreTypes, HandlerTypes, Steps, SyncKey, View, NoView, NoSync, NoState
    <2>3. PostgresTypes'
      BY <1>8 DEF WriteAssigned, write_sync_state, Publish, Refused, Members, Set, dcs, run, postgres, handler, PostgresTypes
    <2>4. LogTypes'
      BY <1>8 DEF WriteAssigned, write_sync_state, Publish, Refused, Members, Set, dcs, run, postgres, handler, LogTypes
    <2>5. HandlerTypes'
      BY <1>8 DEF WriteAssigned, write_sync_state, Publish, Refused, Members, Set, dcs, run, postgres, handler, HandlerTypes
    <2> QED
      BY <2>1, <2>2, <2>3, <2>4, <2>5
  <1>9. ASSUME NEW n \in Node, update_cluster_history(n), UNCHANGED faults PROVE Types'
    <2>1. StoreTypes'
      BY <1>9 DEF update_cluster_history, Sleep, Set, dcs, run, postgres, handler, StoreTypes, RunTypes, PostgresTypes, SyncKey, View
    <2>2. RunTypes'
      BY <1>9 DEF update_cluster_history, Sleep, Set, dcs, run, postgres, handler, RunTypes, StoreTypes, HandlerTypes, Steps, SyncKey, View, NoView, NoSync, NoState
    <2>3. PostgresTypes'
      BY <1>9 DEF update_cluster_history, Sleep, Set, dcs, run, postgres, handler, PostgresTypes
    <2>4. LogTypes'
      BY <1>9 DEF update_cluster_history, Sleep, Set, dcs, run, postgres, handler, LogTypes
    <2>5. HandlerTypes'
      BY <1>9 DEF update_cluster_history, Sleep, Set, dcs, run, postgres, handler, HandlerTypes
    <2> QED
      BY <2>1, <2>2, <2>3, <2>4, <2>5
  <1>10. ASSUME NEW n \in Node, is_healthiest_node(n), UNCHANGED faults PROVE Types'
    <2>1. StoreTypes'
      BY <1>10 DEF is_healthiest_node, Goto, Sleep, Set, dcs, run, postgres, handler, StoreTypes
    <2>2. RunTypes'
      BY <1>10, SleepTypes, GotoTypes DEF is_healthiest_node, Steps
    <2>3. PostgresTypes'
      BY <1>10 DEF is_healthiest_node, Goto, Sleep, Set, dcs, run, postgres, handler, PostgresTypes
    <2>4. LogTypes'
      BY <1>10 DEF is_healthiest_node, Goto, Sleep, Set, dcs, run, postgres, handler, LogTypes
    <2>5. HandlerTypes'
      BY <1>10 DEF is_healthiest_node, Goto, Sleep, Set, dcs, run, postgres, handler, HandlerTypes
    <2> QED
      BY <2>1, <2>2, <2>3, <2>4, <2>5
  <1>11. ASSUME NEW n \in Node, acquire_lock(n), UNCHANGED faults PROVE Types'
    <2>1. StoreTypes'
      BY <1>11 DEF acquire_lock, Goto, Lose, Sleep, Set, dcs, run, postgres, handler, StoreTypes, RunTypes, PostgresTypes, SyncKey, View
    <2>2. RunTypes'
      BY <1>11, SleepTypes, GotoTypes DEF acquire_lock, Lose, Steps
    <2>3. PostgresTypes'
      BY <1>11 DEF acquire_lock, Goto, Lose, Sleep, Set, dcs, run, postgres, handler, PostgresTypes, StoreTypes
    <2>4. LogTypes'
      BY <1>11 DEF acquire_lock, Goto, Lose, Sleep, Set, dcs, run, postgres, handler, LogTypes
    <2>5. HandlerTypes'
      BY <1>11 DEF acquire_lock, Goto, Lose, Sleep, Set, dcs, run, postgres, handler, HandlerTypes
    <2> QED
      BY <2>1, <2>2, <2>3, <2>4, <2>5
  <1>12. ASSUME NEW n \in Node, process_unhealthy_cluster(n), UNCHANGED faults PROVE Types'
    <2>1. StoreTypes'
      BY <1>12 DEF process_unhealthy_cluster, LoadView, Set, dcs, run, postgres, handler, StoreTypes
    <2>2. RunTypes'
      BY <1>12 DEF process_unhealthy_cluster, LoadView, Set, dcs, run, postgres, handler, RunTypes, StoreTypes, HandlerTypes, Steps, SyncKey, View, NoView, NoSync, NoState
    <2>3. PostgresTypes'
      BY <1>12 DEF process_unhealthy_cluster, LoadView, Set, dcs, run, postgres, handler, PostgresTypes
    <2>4. LogTypes'
      BY <1>12 DEF process_unhealthy_cluster, LoadView, Set, dcs, run, postgres, handler, LogTypes
    <2>5. HandlerTypes'
      BY <1>12 DEF process_unhealthy_cluster, LoadView, Set, dcs, run, postgres, handler, HandlerTypes
    <2> QED
      BY <2>1, <2>2, <2>3, <2>4, <2>5
  <1>13. ASSUME NEW n \in Node, enforce_primary_role(n), UNCHANGED faults PROVE Types'
    <2>1. StoreTypes'
      BY <1>13 DEF enforce_primary_role, Goto, Refused, Sleep, write_sync_state, Publish, set_synchronous_standby_names, Set, dcs, run, postgres, handler, StoreTypes, RunTypes, PostgresTypes, SyncKey, View
    <2>2. RunTypes'
      <3>1. CASE Goto(n, "process")
        BY <3>1, GotoTypes DEF Steps
      <3>2. CASE Sleep(n)
        BY <3>2, SleepTypes
      <3>3. CASE /\ pc' = Set(pc, n, "sleep") /\ view' = Set(view, n, NoView)
                 /\ fresh' = [m \in Node |-> FALSE] /\ UNCHANGED state
        <4>1. NoView \in View /\ "sleep" \in Steps
          BY DEF NoView, NoSync, View, SyncKey, Steps
        <4> QED
          BY <3>3, <4>1 DEF RunTypes, Set
      <3> QED
        BY <1>13, <3>1, <3>2, <3>3 DEF enforce_primary_role
    <2>3. PostgresTypes'
      BY <1>13 DEF enforce_primary_role, Goto, Refused, Sleep, write_sync_state, Publish, set_synchronous_standby_names, Set, dcs, run, postgres, handler, PostgresTypes, StoreTypes
    <2>4. LogTypes'
      BY <1>13 DEF enforce_primary_role, Goto, Refused, Sleep, write_sync_state, Publish, set_synchronous_standby_names, Set, dcs, run, postgres, handler, LogTypes
    <2>5. HandlerTypes'
      <3>1. (IF Strict THEN {Star} ELSE {}) \in SUBSET (Node \union {Star})
        OBVIOUS
      <3>2. CASE UNCHANGED handler
        BY <3>2 DEF handler, HandlerTypes
      <3>3. CASE set_synchronous_standby_names(n, IF Strict THEN {Star} ELSE {})
        BY <3>1, <3>3, SetNamesTypes
      <3> QED
        BY <1>13, <3>2, <3>3 DEF enforce_primary_role
    <2> QED
      BY <2>1, <2>2, <2>3, <2>4, <2>5
  <1>14. ASSUME NEW n \in Node, demote(n), UNCHANGED faults PROVE Types'
    <2>1. StoreTypes'
      BY <1>14 DEF demote, Sleep, Set, dcs, run, postgres, handler, StoreTypes
    <2>2. RunTypes'
      BY <1>14 DEF demote, Sleep, Set, dcs, run, postgres, handler, RunTypes, StoreTypes, HandlerTypes, Steps, SyncKey, View, NoView, NoSync, NoState
    <2>3. PostgresTypes'
      BY <1>14 DEF demote, Sleep, Set, dcs, run, postgres, handler, PostgresTypes, StoreTypes
    <2>4. LogTypes'
      BY <1>14 DEF demote, Sleep, Set, dcs, run, postgres, handler, LogTypes
    <2>5. HandlerTypes'
      BY <1>14 DEF demote, Sleep, Set, dcs, run, postgres, handler, HandlerTypes, LogTypes, RunTypes
    <2> QED
      BY <2>1, <2>2, <2>3, <2>4, <2>5
  <1>15. ASSUME NEW n \in Node, recover(n), UNCHANGED faults PROVE Types'
    <2>1. StoreTypes'
      BY <1>15 DEF recover, Set, dcs, run, postgres, handler, StoreTypes
    <2>2. RunTypes'
      BY <1>15 DEF recover, Set, dcs, run, postgres, handler, RunTypes
    <2>3. PostgresTypes'
      BY <1>15 DEF recover, Set, dcs, run, postgres, handler, PostgresTypes, StoreTypes
    <2>4. LogTypes'
      BY <1>15 DEF recover, Set, dcs, run, postgres, handler, LogTypes
    <2>5. HandlerTypes'
      BY <1>15 DEF recover, handler, HandlerTypes, Set
    <2> QED
      BY <2>1, <2>2, <2>3, <2>4, <2>5
  <1>16. ASSUME NEW n \in Node, follow(n), UNCHANGED faults PROVE Types'
    <2>1. StoreTypes'
      BY <1>16 DEF follow, Set, dcs, run, postgres, handler, StoreTypes
    <2>2. RunTypes'
      BY <1>16 DEF follow, Set, dcs, run, postgres, handler, RunTypes
    <2>3. PostgresTypes'
      BY <1>16 DEF follow, Set, dcs, run, postgres, handler, PostgresTypes, StoreTypes
    <2>4. LogTypes'
      <3>1. key \in Node /\ log' = Set(log, n, LongestCommonPrefix({log[n], log[key]}))
        BY <1>16 DEF follow, StoreTypes
      <3>2. LongestCommonPrefix({log[n], log[key]}) \in Seq(Commit)
        BY <3>1, LcpIs DEF LogTypes
      <3> QED
        BY <3>1, <3>2 DEF LogTypes, Set
    <2>5. HandlerTypes'
      BY <1>16 DEF follow, Set, dcs, run, postgres, handler, HandlerTypes
    <2> QED
      BY <2>1, <2>2, <2>3, <2>4, <2>5
  <1>17. ASSUME NEW n \in Node, promote(n), UNCHANGED faults PROVE Types'
    <2>1. StoreTypes'
      BY <1>17 DEF promote, Set, dcs, run, postgres, handler, StoreTypes
    <2>2. RunTypes'
      BY <1>17 DEF promote, Set, dcs, run, postgres, handler, RunTypes
    <2>3. PostgresTypes'
      BY <1>17 DEF promote, Set, dcs, run, postgres, handler, PostgresTypes, StoreTypes
    <2>4. LogTypes'
      BY <1>17 DEF promote, Set, dcs, run, postgres, handler, LogTypes
    <2>5. HandlerTypes'
      BY <1>17 DEF promote, Set, dcs, run, postgres, handler, HandlerTypes
    <2> QED
      BY <2>1, <2>2, <2>3, <2>4, <2>5
  <1>18. ASSUME NEW n \in Node, CancelPromote(n), UNCHANGED faults PROVE Types'
    <2>1. StoreTypes'
      BY <1>18 DEF CancelPromote, Set, dcs, run, postgres, handler, StoreTypes
    <2>2. RunTypes'
      BY <1>18 DEF CancelPromote, Set, dcs, run, postgres, handler, RunTypes
    <2>3. PostgresTypes'
      BY <1>18 DEF CancelPromote, Set, dcs, run, postgres, handler, PostgresTypes, StoreTypes
    <2>4. LogTypes'
      BY <1>18 DEF CancelPromote, Set, dcs, run, postgres, handler, LogTypes
    <2>5. HandlerTypes'
      BY <1>18 DEF CancelPromote, Set, dcs, run, postgres, handler, HandlerTypes
    <2> QED
      BY <2>1, <2>2, <2>3, <2>4, <2>5
  <1>19. ASSUME NEW n \in Node, Write(n), UNCHANGED faults PROVE Types'
    <2>1. StoreTypes'
      BY <1>19 DEF Write, Set, dcs, run, postgres, handler, StoreTypes
    <2>2. RunTypes'
      BY <1>19 DEF Write, Set, dcs, run, postgres, handler, RunTypes
    <2>3. PostgresTypes'
      BY <1>19 DEF Write, Set, dcs, run, postgres, handler, PostgresTypes
    <2>4. LogTypes'
      BY <1>19 DEF Write, Set, dcs, run, postgres, handler, LogTypes, PostgresTypes
    <2>5. HandlerTypes'
      BY <1>19 DEF Write, Set, dcs, run, postgres, handler, HandlerTypes
    <2> QED
      BY <2>1, <2>2, <2>3, <2>4, <2>5
  <1>20. ASSUME NEW n \in Node, Ack(n), UNCHANGED faults PROVE Types'
    <2>1. StoreTypes'
      BY <1>20 DEF Ack, dcs, run, postgres, handler, StoreTypes
    <2>2. RunTypes'
      BY <1>20 DEF Ack, dcs, run, postgres, handler, RunTypes
    <2>3. PostgresTypes'
      <3>1. Range(log[n]) \subseteq Commit
        BY DEF LogTypes, Range
      <3> QED
        BY <1>20, <3>1 DEF Ack, dcs, PostgresTypes
    <2>4. LogTypes'
      BY <1>20 DEF Ack, dcs, run, postgres, handler, LogTypes
    <2>5. HandlerTypes'
      BY <1>20 DEF Ack, dcs, run, postgres, handler, HandlerTypes
    <2> QED
      BY <2>1, <2>2, <2>3, <2>4, <2>5
  <1>21. ASSUME NEW n \in Node, Stream(n), UNCHANGED faults PROVE Types'
    <2>1. StoreTypes'
      BY <1>21 DEF Stream, Set, dcs, run, postgres, handler, StoreTypes
    <2>2. RunTypes'
      BY <1>21 DEF Stream, Set, dcs, run, postgres, handler, RunTypes
    <2>3. PostgresTypes'
      BY <1>21 DEF Stream, Set, dcs, run, postgres, handler, PostgresTypes
    <2>4. LogTypes'
      <3>1. PICK p \in Node : log' = Set(log, n, SubSeq(log[p], 1, Len(log[n]) + 1)) /\ Len(log[n]) + 1 <= Len(log[p])
        BY <1>21, StrictPrefixIs DEF Stream, PostgresTypes, LogTypes
      <3>2. SubSeq(log[p], 1, Len(log[n]) + 1) \in Seq(Commit)
        BY <3>1 DEF LogTypes
      <3> QED
        BY <3>1, <3>2 DEF LogTypes, Set
    <2>5. HandlerTypes'
      BY <1>21 DEF Stream, Set, dcs, run, postgres, handler, HandlerTypes
    <2> QED
      BY <2>1, <2>2, <2>3, <2>4, <2>5
  <1>22. ASSUME NEW n \in Node, Disconnect(n), UNCHANGED faults PROVE Types'
    <2>1. StoreTypes'
      BY <1>22 DEF Disconnect, Set, dcs, run, postgres, handler, StoreTypes
    <2>2. RunTypes'
      BY <1>22 DEF Disconnect, Set, dcs, run, postgres, handler, RunTypes
    <2>3. PostgresTypes'
      BY <1>22 DEF Disconnect, Set, dcs, run, postgres, handler, PostgresTypes, StoreTypes
    <2>4. LogTypes'
      BY <1>22 DEF Disconnect, Set, dcs, run, postgres, handler, LogTypes
    <2>5. HandlerTypes'
      BY <1>22 DEF Disconnect, Set, dcs, run, postgres, handler, HandlerTypes
    <2> QED
      BY <2>1, <2>2, <2>3, <2>4, <2>5
  <1>23. ASSUME NEW n \in Node, PostgresCrashes(n) PROVE Types'
    <2>1. StoreTypes'
      BY <1>23 DEF PostgresCrashes, Fault, Set, dcs, run, postgres, handler, StoreTypes
    <2>2. RunTypes'
      BY <1>23 DEF PostgresCrashes, Fault, Set, dcs, run, postgres, handler, RunTypes
    <2>3. PostgresTypes'
      BY <1>23 DEF PostgresCrashes, Fault, Set, dcs, run, postgres, handler, PostgresTypes, StoreTypes
    <2>4. LogTypes'
      BY <1>23 DEF PostgresCrashes, Fault, Set, dcs, run, postgres, handler, LogTypes
    <2>5. HandlerTypes'
      BY <1>23 DEF PostgresCrashes, Fault, Set, dcs, run, postgres, handler, HandlerTypes
    <2> QED
      BY <2>1, <2>2, <2>3, <2>4, <2>5
  <1>24. ASSUME NEW n \in Node, Crash(n) PROVE Types'
    <2>1. StoreTypes'
      BY <1>24 DEF Crash, Fault, Reset, Sleep, Set, dcs, run, postgres, handler, StoreTypes
    <2>2. RunTypes'
      BY <1>24 DEF Crash, Fault, Reset, Sleep, Set, dcs, run, postgres, handler, RunTypes, StoreTypes, HandlerTypes, Steps, SyncKey, View, NoView, NoSync, NoState
    <2>3. PostgresTypes'
      BY <1>24 DEF Crash, Fault, Reset, Sleep, Set, dcs, run, postgres, handler, PostgresTypes, StoreTypes
    <2>4. LogTypes'
      BY <1>24 DEF Crash, Fault, Reset, Sleep, Set, dcs, run, postgres, handler, LogTypes
    <2>5. HandlerTypes'
      BY <1>24 DEF Crash, Fault, Reset, Sleep, Set, dcs, run, postgres, handler, HandlerTypes, LogTypes, RunTypes
    <2> QED
      BY <2>1, <2>2, <2>3, <2>4, <2>5
  <1>25. CASE Expire
    <2>1. StoreTypes'
      BY <1>25 DEF Expire, Fault, Reset, Sleep, Set, dcs, run, postgres, handler, StoreTypes, RunTypes, PostgresTypes, SyncKey, View
    <2>2. RunTypes'
      <3>1. CASE Sleep(key)
        <4>1. key \in Node
          BY <1>25 DEF Expire, StoreTypes
        <4> QED
          BY <3>1, <4>1, SleepTypes
      <3> QED
        BY <1>25, <3>1 DEF Expire, Reset, run, RunTypes
    <2>3. PostgresTypes'
      BY <1>25 DEF Expire, Fault, Reset, Sleep, Set, dcs, run, postgres, handler, PostgresTypes, StoreTypes
    <2>4. LogTypes'
      BY <1>25 DEF Expire, Fault, Reset, Sleep, Set, dcs, run, postgres, handler, LogTypes
    <2>5. HandlerTypes'
      BY <1>25 DEF Expire, Reset, StoreTypes, HandlerTypes, Set
    <2> QED
      BY <2>1, <2>2, <2>3, <2>4, <2>5
  <1>26. CASE UNCHANGED vars
    BY <1>26 DEF vars, dcs, run, postgres, handler, StoreTypes, RunTypes, PostgresTypes, LogTypes, HandlerTypes
  <1> QED
    BY <1>1, <1>2, <1>3, <1>4, <1>5, <1>6, <1>7, <1>8, <1>9, <1>10, <1>11, <1>12, <1>13, <1>14, <1>15, <1>16, <1>17, <1>18, <1>19, <1>20, <1>21, <1>22, <1>23, <1>24, <1>25, <1>26 DEF Next, Cycle

\* Every step keeps what the runs know and what is published.
LEMMA LoopStep ==
    ASSUME PatroniSyncAssumption, Types, Types', NamesNobody, \A n \in Node : Loop(n), \A n \in Node : Published(n),
           Next \/ UNCHANGED vars
    PROVE  NamesNobody' /\ (\A n \in Node : Loop(n)') /\ (\A n \in Node : Published(n)')
  <1> DEFINE Goal == NamesNobody' /\ (\A n \in Node : Loop(n)') /\ (\A n \in Node : Published(n)')
  <1> USE DEF Types, PatroniSyncAssumption
  <1>1. ASSUME NEW n \in Node, load_cluster_from_dcs(n), UNCHANGED faults PROVE Goal
    <2>1. ASSUME NEW m \in Node PROVE Loop(m)'
      BY <1>1 DEF load_cluster_from_dcs, LoadView, Set, dcs, run, postgres, handler, Loop, StoreTypes, RunTypes, PostgresTypes, HandlerTypes, SyncKey, View, InSync, NoView, NoSync
    <2>2. ASSUME NEW m \in Node PROVE Published(m)'
      BY <1>1 DEF load_cluster_from_dcs, LoadView, Set, dcs, run, postgres, handler, Published, Loop, StoreTypes, RunTypes, PostgresTypes, HandlerTypes, SyncKey, View, InSync, NoView, NoSync
    <2>3. NamesNobody'
      BY <1>1 DEF load_cluster_from_dcs, LoadView, Set, dcs, run, postgres, handler, NamesNobody, StoreTypes, RunTypes, PostgresTypes, HandlerTypes
    <2> QED
      BY <2>1, <2>2, <2>3
  <1>2. ASSUME NEW n \in Node, update_lock(n), UNCHANGED faults PROVE Goal
    <2>1. ASSUME NEW m \in Node PROVE Loop(m)'
      BY <1>2 DEF update_lock, Goto, Lose, Sleep, Set, dcs, run, postgres, handler, Loop, StoreTypes, RunTypes, PostgresTypes, HandlerTypes, SyncKey, View, InSync, NoView, NoSync
    <2>2. ASSUME NEW m \in Node PROVE Published(m)'
      BY <1>2 DEF update_lock, Goto, Lose, Sleep, Set, dcs, run, postgres, handler, Published, Loop, StoreTypes, RunTypes, PostgresTypes, HandlerTypes, SyncKey, View, InSync, NoView, NoSync
    <2>3. NamesNobody'
      BY <1>2 DEF update_lock, Goto, Lose, Sleep, Set, dcs, run, postgres, handler, NamesNobody, StoreTypes, RunTypes, PostgresTypes, HandlerTypes
    <2> QED
      BY <2>1, <2>2, <2>3
  <1>3. ASSUME NEW n \in Node, EnableSync(n), UNCHANGED faults PROVE Goal
    <2>1. ASSUME NEW m \in Node PROVE Loop(m)'
      <3>1. CASE m = n /\ write_sync_state(n, {}) /\ Saw(n, {}, "process")
        <4>1. pc'[n] = "process" /\ view'[n].sync = sync' /\ state' = state /\ pg' = pg /\ upstream' = upstream /\ ssn' = ssn /\ ready' = ready
          BY <3>1, <1>3 DEF EnableSync, Saw, write_sync_state, Publish, Refused, Set, dcs, run, postgres, handler, RunTypes
        <4>2. pc[n] = "process"
          BY <1>3 DEF EnableSync
        <4> QED
          BY <3>1, <4>1, <4>2 DEF Loop, InSync
      <3>2. CASE m /= n /\ write_sync_state(n, {}) /\ Saw(n, {}, "process")
        <4>1. pc'[m] = pc[m] /\ fresh'[m] = FALSE /\ state' = state /\ pg' = pg /\ upstream' = upstream /\ ssn' = ssn /\ ready' = ready
          BY <1>3, <3>2 DEF EnableSync, Saw, Versions, Set, dcs, run, postgres, handler, StoreTypes, RunTypes, PostgresTypes, HandlerTypes
        <4> QED
          BY <4>1 DEF Loop
      <3>3. CASE ~fresh[n] /\ Sleep(n) /\ UNCHANGED sync
        BY <1>3, <3>3 DEF EnableSync, Sleep, Set, dcs, run, postgres, handler, Loop, StoreTypes, RunTypes, PostgresTypes, HandlerTypes, InSync
      <3> QED
        BY <1>3, <3>1, <3>2, <3>3 DEF EnableSync, Refused
    <2>2. ASSUME NEW m \in Node PROVE Published(m)'
      BY <1>3 DEF EnableSync, write_sync_state, Publish, Saw, Versions, Refused, Sleep, Set, dcs, run, postgres, handler, Published, Loop, StoreTypes, RunTypes, PostgresTypes, HandlerTypes, SyncKey, View, InSync, NoView, NoSync
    <2>3. NamesNobody'
      BY <1>3 DEF EnableSync, write_sync_state, Publish, Saw, Versions, Refused, Sleep, Set, dcs, run, postgres, handler, NamesNobody, StoreTypes, RunTypes, PostgresTypes, HandlerTypes
    <2> QED
      BY <2>1, <2>2, <2>3
  <1>4. ASSUME NEW n \in Node, process_sync_replication(n), UNCHANGED faults PROVE Goal
    <2>0. PICK now, s : CurrentStateIs(n, now, s)
      BY <1>4, CurrentState DEF process_sync_replication
    <2>1. ASSUME NEW m \in Node PROVE Loop(m)'
      BY <2>0, <1>4 DEF process_sync_replication, CurrentStateIs, Streams, Members, Set, dcs, run, postgres, handler, Loop, StoreTypes, RunTypes, PostgresTypes, HandlerTypes, SyncKey, View, InSync, NoView, NoSync
    <2>2. ASSUME NEW m \in Node PROVE Published(m)'
      BY <2>0, <1>4 DEF process_sync_replication, CurrentStateIs, Streams, Members, Set, dcs, run, postgres, handler, Published, Loop, StoreTypes, RunTypes, PostgresTypes, HandlerTypes, SyncKey, View, InSync, NoView, NoSync
    <2>3. NamesNobody'
      BY <1>4 DEF process_sync_replication, Members, Set, dcs, run, postgres, handler, NamesNobody, StoreTypes, RunTypes, PostgresTypes, HandlerTypes
    <2> QED
      BY <2>1, <2>2, <2>3
  <1>5. ASSUME NEW n \in Node, WriteCommon(n), UNCHANGED faults PROVE Goal
    <2>1. ASSUME NEW m \in Node PROVE Loop(m)'
      <3> DEFINE common == Members(n) \intersect state[n].allow
      <3>1. CASE Saw(n, common, "assign") /\ write_sync_state(n, common)
        <4>1. CASE m = n
          <5>1. pc'[n] = "assign" /\ view'[n].sync = sync' /\ state' = state /\ pg' = pg /\ upstream' = upstream /\ ssn' = ssn /\ ready' = ready
            BY <3>1, <1>5 DEF WriteCommon, Saw, write_sync_state, Publish, Set, dcs, run, postgres, handler, RunTypes
          <5>2. pc[n] = "temporary"
            BY <1>5 DEF WriteCommon
          <5> QED
            BY <4>1, <5>1, <5>2 DEF Loop, InSync
        <4>2. CASE m /= n
          <5>1. pc'[m] = pc[m] /\ fresh'[m] = FALSE /\ state' = state /\ pg' = pg /\ upstream' = upstream /\ ssn' = ssn /\ ready' = ready
            BY <1>5, <3>1, <4>2 DEF WriteCommon, Saw, Versions, Set, dcs, run, postgres, handler, StoreTypes, RunTypes, PostgresTypes, HandlerTypes
          <5> QED
            BY <5>1 DEF Loop
        <4> QED
          BY <4>1, <4>2
      <3>2. CASE UNCHANGED sync /\ Goto(n, "done")
        BY <1>5, <3>2 DEF WriteCommon, Goto, Set, dcs, run, postgres, handler, Loop, StoreTypes, RunTypes, PostgresTypes, HandlerTypes, InSync
      <3> QED
        BY <1>5, <3>1, <3>2 DEF WriteCommon, Refused
    <2>2. ASSUME NEW m \in Node PROVE Published(m)'
      BY <1>5 DEF WriteCommon, write_sync_state, Publish, Saw, Versions, Refused, Goto, Members, Set, dcs, run, postgres, handler, Published, Loop, StoreTypes, RunTypes, PostgresTypes, HandlerTypes, SyncKey, View, InSync, NoView, NoSync
    <2>3. NamesNobody'
      BY <1>5 DEF WriteCommon, write_sync_state, Publish, Saw, Versions, Refused, Goto, Members, Set, dcs, run, postgres, handler, NamesNobody, StoreTypes, RunTypes, PostgresTypes, HandlerTypes
    <2> QED
      BY <2>1, <2>2, <2>3
  <1>6. ASSUME NEW n \in Node, Assign(n), UNCHANGED faults PROVE Goal
    <2>1. ASSUME NEW m \in Node PROVE Loop(m)'
      <3> DEFINE names == IF Strict /\ state[n].picked = {} THEN {Star} ELSE state[n].picked
      <3>1. /\ ssn' = Set(ssn, n, names) /\ (ready' = ready \/ ready' = Set(ready, n, ready[n] \intersect names))
            /\ names = ssn[n] => ready' = ready
            /\ names /= ssn[n] => ready' = Set(ready, n, ready[n] \intersect names)
        BY <1>6 DEF Assign, set_synchronous_standby_names
      <3>2. pc[n] = "assign" /\ pc' = Set(pc, n, pc'[n]) /\ pc'[n] \in {"wait", "publish"} /\ UNCHANGED <<view, fresh, state, dcs, postgres>>
        BY <1>6 DEF Assign, Goto, Set, RunTypes
      <3>3. state[n].allow = {} \/ names = state[n].picked
        BY <3>2 DEF Loop, InSync
      <3>4. ready[n] \subseteq Node /\ state[n].picked \subseteq Node /\ Star \notin Node
        BY DEF HandlerTypes, RunTypes
      <3> HIDE DEF names
      <3>5. CASE m = n
        <4>1. ready'[n] \subseteq ssn'[n]
          BY <3>1, <3>5 DEF Loop, Set, HandlerTypes
        <4>2. state[n].allow \subseteq ready'[n] \intersect state[n].picked
          BY <3>1, <3>2, <3>3, <3>5 DEF Loop, InSync, Set, HandlerTypes
        <4>3. pg[n] \in {"primary", "crashed"}
          BY <3>2, <3>5 DEF Loop, InSync
        <4> QED
          BY <3>2, <3>5, <4>1, <4>2, <4>3 DEF Loop, InSync, postgres, dcs
      <3>6. CASE m /= n
        <4>1. ready'[m] = ready[m] /\ ssn'[m] = ssn[m] /\ pc'[m] = pc[m]
          BY <3>1, <3>2, <3>6 DEF Set, HandlerTypes, RunTypes
        <4> QED
          BY <3>2, <4>1 DEF Loop, postgres, dcs
      <3> QED
        BY <3>5, <3>6
    <2>2. ASSUME NEW m \in Node PROVE Published(m)'
      BY <1>6 DEF Assign, set_synchronous_standby_names, Goto, Set, dcs, run, postgres, handler, Published, Loop, StoreTypes, RunTypes, PostgresTypes, HandlerTypes, SyncKey, View, InSync, NoView, NoSync
    <2>3. NamesNobody'
      BY <1>6 DEF Assign, set_synchronous_standby_names, Goto, Set, dcs, run, postgres, handler, NamesNobody, StoreTypes, RunTypes, PostgresTypes, HandlerTypes
    <2> QED
      BY <2>1, <2>2, <2>3
  <1>7. ASSUME NEW n \in Node, WaitReady(n), UNCHANGED faults PROVE Goal
    <2>0. PICK now, s : CurrentStateIs(n, now, s)
      BY <1>7, CurrentState DEF WaitReady
    <2>1. ASSUME NEW m \in Node PROVE Loop(m)'
      BY <2>0, <1>7 DEF WaitReady, CurrentStateIs, Streams, Set, dcs, run, postgres, handler, Loop, StoreTypes, RunTypes, PostgresTypes, HandlerTypes, SyncKey, View, InSync, NoView, NoSync
    <2>2. ASSUME NEW m \in Node PROVE Published(m)'
      BY <2>0, <1>7 DEF WaitReady, CurrentStateIs, Streams, Set, dcs, run, postgres, handler, Published, Loop, StoreTypes, RunTypes, PostgresTypes, HandlerTypes, SyncKey, View, InSync, NoView, NoSync
    <2>3. NamesNobody'
      BY <1>7 DEF WaitReady, Set, dcs, run, postgres, handler, NamesNobody, StoreTypes, RunTypes, PostgresTypes, HandlerTypes
    <2> QED
      BY <2>1, <2>2, <2>3
  <1>8. ASSUME NEW n \in Node, WriteAssigned(n), UNCHANGED faults PROVE Goal
    <2>1. ASSUME NEW m \in Node PROVE Loop(m)'
      <3>1. CASE sync' = sync
        BY <1>8, <3>1 DEF WriteAssigned, Set, dcs, run, postgres, handler, Loop, StoreTypes, RunTypes, PostgresTypes, HandlerTypes, InSync
      <3>2. CASE sync' /= sync
        <4>1. fresh' = [x \in Node |-> x = n] /\ state' = state /\ pg' = pg /\ upstream' = upstream /\ ssn' = ssn /\ ready' = ready
              /\ pc' = Set(pc, n, "done") /\ pc[n] = "publish"
          BY <1>8, <3>2 DEF WriteAssigned, dcs, run, postgres, handler
        <4>2. CASE m = n
          BY <4>1, <4>2 DEF Loop, Set, InSync, RunTypes
        <4>3. CASE m /= n
          <5>1. pc'[m] = pc[m] /\ fresh'[m] = FALSE /\ state' = state /\ pg' = pg /\ upstream' = upstream /\ ssn' = ssn /\ ready' = ready
            BY <4>1, <4>3 DEF Set, RunTypes
          <5> QED
            BY <5>1 DEF Loop
        <4> QED
          BY <4>2, <4>3
      <3> QED
        BY <3>1, <3>2
    <2>2. ASSUME NEW m \in Node PROVE Published(m)'
      BY <1>8 DEF WriteAssigned, write_sync_state, Publish, Refused, Members, Set, dcs, run, postgres, handler, Published, Loop, StoreTypes, RunTypes, PostgresTypes, HandlerTypes, SyncKey, View, InSync, NoView, NoSync
    <2>3. NamesNobody'
      BY <1>8 DEF WriteAssigned, write_sync_state, Publish, Refused, Members, Set, dcs, run, postgres, handler, NamesNobody, StoreTypes, RunTypes, PostgresTypes, HandlerTypes
    <2> QED
      BY <2>1, <2>2, <2>3
  <1>9. ASSUME NEW n \in Node, update_cluster_history(n), UNCHANGED faults PROVE Goal
    <2>1. ASSUME NEW m \in Node PROVE Loop(m)'
      BY <1>9 DEF update_cluster_history, Sleep, Set, dcs, run, postgres, handler, Loop, StoreTypes, RunTypes, PostgresTypes, HandlerTypes, SyncKey, View, InSync, NoView, NoSync
    <2>2. ASSUME NEW m \in Node PROVE Published(m)'
      BY <1>9 DEF update_cluster_history, Sleep, Set, dcs, run, postgres, handler, Published, Loop, StoreTypes, RunTypes, PostgresTypes, HandlerTypes, SyncKey, View, InSync, NoView, NoSync
    <2>3. NamesNobody'
      BY <1>9 DEF update_cluster_history, Sleep, Set, dcs, run, postgres, handler, NamesNobody, StoreTypes, RunTypes, PostgresTypes, HandlerTypes
    <2> QED
      BY <2>1, <2>2, <2>3
  <1>10. ASSUME NEW n \in Node, is_healthiest_node(n), UNCHANGED faults PROVE Goal
    <2>1. ASSUME NEW m \in Node PROVE Loop(m)'
      BY <1>10 DEF is_healthiest_node, Goto, Sleep, Set, dcs, run, postgres, handler, Loop, StoreTypes, RunTypes, PostgresTypes, HandlerTypes, SyncKey, View, InSync, NoView, NoSync
    <2>2. ASSUME NEW m \in Node PROVE Published(m)'
      BY <1>10 DEF is_healthiest_node, Goto, Sleep, Set, dcs, run, postgres, handler, Published, Loop, StoreTypes, RunTypes, PostgresTypes, HandlerTypes, SyncKey, View, InSync, NoView, NoSync
    <2>3. NamesNobody'
      BY <1>10 DEF is_healthiest_node, Goto, Sleep, Set, dcs, run, postgres, handler, NamesNobody, StoreTypes, RunTypes, PostgresTypes, HandlerTypes
    <2> QED
      BY <2>1, <2>2, <2>3
  <1>11. ASSUME NEW n \in Node, acquire_lock(n), UNCHANGED faults PROVE Goal
    <2>1. ASSUME NEW m \in Node PROVE Loop(m)'
      BY <1>11 DEF acquire_lock, Goto, Lose, Sleep, Set, dcs, run, postgres, handler, Loop, StoreTypes, RunTypes, PostgresTypes, HandlerTypes, SyncKey, View, InSync, NoView, NoSync
    <2>2. ASSUME NEW m \in Node PROVE Published(m)'
      BY <1>11 DEF acquire_lock, Goto, Lose, Sleep, Set, dcs, run, postgres, handler, Published, Loop, StoreTypes, RunTypes, PostgresTypes, HandlerTypes, SyncKey, View, InSync, NoView, NoSync
    <2>3. NamesNobody'
      BY <1>11 DEF acquire_lock, Goto, Lose, Sleep, Set, dcs, run, postgres, handler, NamesNobody, StoreTypes, RunTypes, PostgresTypes, HandlerTypes
    <2> QED
      BY <2>1, <2>2, <2>3
  <1>12. ASSUME NEW n \in Node, process_unhealthy_cluster(n), UNCHANGED faults PROVE Goal
    <2>1. ASSUME NEW m \in Node PROVE Loop(m)'
      BY <1>12 DEF process_unhealthy_cluster, LoadView, Set, dcs, run, postgres, handler, Loop, StoreTypes, RunTypes, PostgresTypes, HandlerTypes, SyncKey, View, InSync, NoView, NoSync
    <2>2. ASSUME NEW m \in Node PROVE Published(m)'
      BY <1>12 DEF process_unhealthy_cluster, LoadView, Set, dcs, run, postgres, handler, Published, Loop, StoreTypes, RunTypes, PostgresTypes, HandlerTypes, SyncKey, View, InSync, NoView, NoSync
    <2>3. NamesNobody'
      BY <1>12 DEF process_unhealthy_cluster, LoadView, Set, dcs, run, postgres, handler, NamesNobody, StoreTypes, RunTypes, PostgresTypes, HandlerTypes
    <2> QED
      BY <2>1, <2>2, <2>3
  <1>13. ASSUME NEW n \in Node, enforce_primary_role(n), UNCHANGED faults PROVE Goal
    <2>1. ASSUME NEW m \in Node PROVE Loop(m)'
      <3>0. pc[n] = "enforce" /\ UNCHANGED <<upstream>> 
        BY <1>13 DEF enforce_primary_role
      <3>1. CASE pg[n] = "primary" /\ Goto(n, "process") /\ UNCHANGED <<sync, pg, handler>>
        BY <3>0, <3>1 DEF Goto, Set, dcs, run, postgres, handler, Loop, StoreTypes, RunTypes, PostgresTypes, HandlerTypes, InSync
      <3>2. CASE /\ pg' = Set(pg, n, "promoting") /\ set_synchronous_standby_names(n, IF Strict THEN {Star} ELSE {})
                 /\ pc' = Set(pc, n, "sleep") /\ fresh' = [x \in Node |-> FALSE]
                 /\ UNCHANGED state
        <4>1. /\ ssn' = Set(ssn, n, ssn'[n]) /\ ssn'[n] \subseteq {Star} /\ ready' = Set(ready, n, ready'[n]) /\ ready'[n] \subseteq ready[n]
              /\ ready'[n] \subseteq ssn'[n]
          BY <3>2 DEF set_synchronous_standby_names, Set, HandlerTypes, Loop
        <4>2. CASE m = n
          BY <3>0, <3>2, <4>1, <4>2 DEF Set, Loop, StoreTypes, RunTypes, PostgresTypes, HandlerTypes, InSync
        <4>3. CASE m /= n
          <5>1. ready'[m] = ready[m] /\ ssn'[m] = ssn[m] /\ pc'[m] = pc[m] /\ pg'[m] = pg[m] /\ upstream' = upstream
            BY <3>0, <3>2, <4>1, <4>3 DEF Set, StoreTypes, RunTypes, PostgresTypes, HandlerTypes
          <5> QED
            BY <3>2, <5>1 DEF Loop
        <4> QED
          BY <4>2, <4>3
      <3>3. CASE Sleep(n) /\ UNCHANGED <<sync, pg, handler>>
        BY <3>0, <3>3 DEF Sleep, Set, dcs, run, postgres, handler, Loop, StoreTypes, RunTypes, PostgresTypes, HandlerTypes, InSync
      <3> QED
        BY <1>13, <3>1, <3>2, <3>3 DEF enforce_primary_role
    <2>2. ASSUME NEW m \in Node PROVE Published(m)'
      BY <1>13 DEF enforce_primary_role, Goto, Refused, Sleep, write_sync_state, Publish, set_synchronous_standby_names, Set, dcs, run, postgres, handler, Published, Loop, StoreTypes, RunTypes, PostgresTypes, HandlerTypes, SyncKey, View, InSync, NoView, NoSync
    <2>3. NamesNobody'
      BY <1>13 DEF enforce_primary_role, Goto, Refused, Sleep, write_sync_state, Publish, set_synchronous_standby_names, Set, dcs, run, postgres, handler, NamesNobody, StoreTypes, RunTypes, PostgresTypes, HandlerTypes
    <2> QED
      BY <2>1, <2>2, <2>3
  <1>14. ASSUME NEW n \in Node, demote(n), UNCHANGED faults PROVE Goal
    <2>1. ASSUME NEW m \in Node PROVE Loop(m)'
      BY <1>14 DEF demote, Sleep, Set, dcs, run, postgres, handler, Loop, StoreTypes, RunTypes, PostgresTypes, HandlerTypes, SyncKey, View, InSync, NoView, NoSync
    <2>2. ASSUME NEW m \in Node PROVE Published(m)'
      BY <1>14 DEF demote, Sleep, Set, dcs, run, postgres, handler, Published, Loop, StoreTypes, RunTypes, PostgresTypes, HandlerTypes, SyncKey, View, InSync, NoView, NoSync
    <2>3. NamesNobody'
      BY <1>14 DEF demote, Sleep, Set, dcs, run, postgres, handler, NamesNobody, StoreTypes, RunTypes, PostgresTypes, HandlerTypes
    <2> QED
      BY <2>1, <2>2, <2>3
  <1>15. ASSUME NEW n \in Node, recover(n), UNCHANGED faults PROVE Goal
    <2>1. ASSUME NEW m \in Node PROVE Loop(m)'
      BY <1>15 DEF recover, Set, dcs, run, postgres, handler, Loop, StoreTypes, RunTypes, PostgresTypes, HandlerTypes, SyncKey, View, InSync, NoView, NoSync
    <2>2. ASSUME NEW m \in Node PROVE Published(m)'
      <3>1. CASE m = n
        BY <1>15, <3>1 DEF recover, Set, dcs, run, postgres, handler, Published, Loop, StoreTypes, RunTypes, PostgresTypes, HandlerTypes, InSync
      <3>2. CASE m /= n
        <4>1. pg'[m] = pg[m] /\ ssn'[m] = ssn[m] /\ UNCHANGED <<dcs, run>>
          BY <1>15, <3>2 DEF recover, Set, handler, StoreTypes, RunTypes, PostgresTypes, HandlerTypes
        <4> QED
          BY <4>1 DEF Published, dcs, run
      <3> QED
        BY <3>1, <3>2
    <2>3. NamesNobody'
      BY <1>15 DEF recover, Set, dcs, run, postgres, handler, NamesNobody, StoreTypes, RunTypes, PostgresTypes, HandlerTypes
    <2> QED
      BY <2>1, <2>2, <2>3
  <1>16. ASSUME NEW n \in Node, follow(n), UNCHANGED faults PROVE Goal
    <2>1. ASSUME NEW m \in Node PROVE Loop(m)'
      BY <1>16 DEF follow, Set, dcs, run, postgres, handler, Loop, StoreTypes, RunTypes, PostgresTypes, HandlerTypes, SyncKey, View, InSync, NoView, NoSync
    <2>2. ASSUME NEW m \in Node PROVE Published(m)'
      BY <1>16 DEF follow, Set, dcs, run, postgres, handler, Published, Loop, StoreTypes, RunTypes, PostgresTypes, HandlerTypes, SyncKey, View, InSync, NoView, NoSync
    <2>3. NamesNobody'
      BY <1>16 DEF follow, Set, dcs, run, postgres, handler, NamesNobody, StoreTypes, RunTypes, PostgresTypes, HandlerTypes
    <2> QED
      BY <2>1, <2>2, <2>3
  <1>17. ASSUME NEW n \in Node, promote(n), UNCHANGED faults PROVE Goal
    <2>1. ASSUME NEW m \in Node PROVE Loop(m)'
      BY <1>17 DEF promote, Set, dcs, run, postgres, handler, Loop, StoreTypes, RunTypes, PostgresTypes, HandlerTypes, SyncKey, View, InSync, NoView, NoSync
    <2>2. ASSUME NEW m \in Node PROVE Published(m)'
      BY <1>17 DEF promote, Set, dcs, run, postgres, handler, Published, Loop, StoreTypes, RunTypes, PostgresTypes, HandlerTypes, SyncKey, View, InSync, NoView, NoSync
    <2>3. NamesNobody'
      BY <1>17 DEF promote, Set, dcs, run, postgres, handler, NamesNobody, StoreTypes, RunTypes, PostgresTypes, HandlerTypes
    <2> QED
      BY <2>1, <2>2, <2>3
  <1>18. ASSUME NEW n \in Node, CancelPromote(n), UNCHANGED faults PROVE Goal
    <2>1. ASSUME NEW m \in Node PROVE Loop(m)'
      BY <1>18 DEF CancelPromote, Set, dcs, run, postgres, handler, Loop, StoreTypes, RunTypes, PostgresTypes, HandlerTypes, SyncKey, View, InSync, NoView, NoSync
    <2>2. ASSUME NEW m \in Node PROVE Published(m)'
      BY <1>18 DEF CancelPromote, Set, dcs, run, postgres, handler, Published, Loop, StoreTypes, RunTypes, PostgresTypes, HandlerTypes, SyncKey, View, InSync, NoView, NoSync
    <2>3. NamesNobody'
      BY <1>18 DEF CancelPromote, Set, dcs, run, postgres, handler, NamesNobody, StoreTypes, RunTypes, PostgresTypes, HandlerTypes
    <2> QED
      BY <2>1, <2>2, <2>3
  <1>19. ASSUME NEW n \in Node, Write(n), UNCHANGED faults PROVE Goal
    <2>1. ASSUME NEW m \in Node PROVE Loop(m)'
      BY <1>19 DEF Write, Set, dcs, run, postgres, handler, Loop, StoreTypes, RunTypes, PostgresTypes, HandlerTypes, SyncKey, View, InSync, NoView, NoSync
    <2>2. ASSUME NEW m \in Node PROVE Published(m)'
      BY <1>19 DEF Write, Set, dcs, run, postgres, handler, Published, Loop, StoreTypes, RunTypes, PostgresTypes, HandlerTypes, SyncKey, View, InSync, NoView, NoSync
    <2>3. NamesNobody'
      BY <1>19 DEF Write, Set, dcs, run, postgres, handler, NamesNobody, StoreTypes, RunTypes, PostgresTypes, HandlerTypes
    <2> QED
      BY <2>1, <2>2, <2>3
  <1>20. ASSUME NEW n \in Node, Ack(n), UNCHANGED faults PROVE Goal
    <2>1. ASSUME NEW m \in Node PROVE Loop(m)'
      BY <1>20 DEF Ack, dcs, run, postgres, handler, Loop, StoreTypes, RunTypes, PostgresTypes, HandlerTypes, SyncKey, View, InSync, NoView, NoSync
    <2>2. ASSUME NEW m \in Node PROVE Published(m)'
      BY <1>20 DEF Ack, dcs, run, postgres, handler, Published, Loop, StoreTypes, RunTypes, PostgresTypes, HandlerTypes, SyncKey, View, InSync, NoView, NoSync
    <2>3. NamesNobody'
      BY <1>20 DEF Ack, dcs, run, postgres, handler, NamesNobody, StoreTypes, RunTypes, PostgresTypes, HandlerTypes
    <2> QED
      BY <2>1, <2>2, <2>3
  <1>21. ASSUME NEW n \in Node, Stream(n), UNCHANGED faults PROVE Goal
    <2>1. ASSUME NEW m \in Node PROVE Loop(m)'
      BY <1>21 DEF Stream, Set, dcs, run, postgres, handler, Loop, StoreTypes, RunTypes, PostgresTypes, HandlerTypes, SyncKey, View, InSync, NoView, NoSync
    <2>2. ASSUME NEW m \in Node PROVE Published(m)'
      BY <1>21 DEF Stream, Set, dcs, run, postgres, handler, Published, Loop, StoreTypes, RunTypes, PostgresTypes, HandlerTypes, SyncKey, View, InSync, NoView, NoSync
    <2>3. NamesNobody'
      BY <1>21 DEF Stream, Set, dcs, run, postgres, handler, NamesNobody, StoreTypes, RunTypes, PostgresTypes, HandlerTypes
    <2> QED
      BY <2>1, <2>2, <2>3
  <1>22. ASSUME NEW n \in Node, Disconnect(n), UNCHANGED faults PROVE Goal
    <2>1. ASSUME NEW m \in Node PROVE Loop(m)'
      BY <1>22 DEF Disconnect, Set, dcs, run, postgres, handler, Loop, StoreTypes, RunTypes, PostgresTypes, HandlerTypes, SyncKey, View, InSync, NoView, NoSync
    <2>2. ASSUME NEW m \in Node PROVE Published(m)'
      BY <1>22 DEF Disconnect, Set, dcs, run, postgres, handler, Published, Loop, StoreTypes, RunTypes, PostgresTypes, HandlerTypes, SyncKey, View, InSync, NoView, NoSync
    <2>3. NamesNobody'
      BY <1>22 DEF Disconnect, Set, dcs, run, postgres, handler, NamesNobody, StoreTypes, RunTypes, PostgresTypes, HandlerTypes
    <2> QED
      BY <2>1, <2>2, <2>3
  <1>23. ASSUME NEW n \in Node, PostgresCrashes(n) PROVE Goal
    <2>1. ASSUME NEW m \in Node PROVE Loop(m)'
      BY <1>23 DEF PostgresCrashes, Fault, Set, dcs, run, postgres, handler, Loop, StoreTypes, RunTypes, PostgresTypes, HandlerTypes, SyncKey, View, InSync, NoView, NoSync
    <2>2. ASSUME NEW m \in Node PROVE Published(m)'
      BY <1>23 DEF PostgresCrashes, Fault, Set, dcs, run, postgres, handler, Published, Loop, StoreTypes, RunTypes, PostgresTypes, HandlerTypes, SyncKey, View, InSync, NoView, NoSync
    <2>3. NamesNobody'
      BY <1>23 DEF PostgresCrashes, Fault, Set, dcs, run, postgres, handler, NamesNobody, StoreTypes, RunTypes, PostgresTypes, HandlerTypes
    <2> QED
      BY <2>1, <2>2, <2>3
  <1>24. ASSUME NEW n \in Node, Crash(n) PROVE Goal
    <2>1. ASSUME NEW m \in Node PROVE Loop(m)'
      BY <1>24 DEF Crash, Fault, Reset, Sleep, Set, dcs, run, postgres, handler, Loop, StoreTypes, RunTypes, PostgresTypes, HandlerTypes, SyncKey, View, InSync, NoView, NoSync
    <2>2. ASSUME NEW m \in Node PROVE Published(m)'
      BY <1>24 DEF Crash, Fault, Reset, Sleep, Set, dcs, run, postgres, handler, Published, Loop, StoreTypes, RunTypes, PostgresTypes, HandlerTypes, SyncKey, View, InSync, NoView, NoSync
    <2>3. NamesNobody'
      BY <1>24 DEF Crash, Fault, Reset, Sleep, Set, dcs, run, postgres, handler, NamesNobody, StoreTypes, RunTypes, PostgresTypes, HandlerTypes
    <2> QED
      BY <2>1, <2>2, <2>3
  <1>25. CASE Expire
    <2>1. ASSUME NEW m \in Node PROVE Loop(m)'
      BY <1>25 DEF Expire, Fault, Reset, Sleep, Set, dcs, run, postgres, handler, Loop, StoreTypes, RunTypes, PostgresTypes, HandlerTypes, SyncKey, View, InSync, NoView, NoSync
    <2>2. ASSUME NEW m \in Node PROVE Published(m)'
      BY <1>25 DEF Expire, Fault, Reset, Sleep, Set, dcs, run, postgres, handler, Published, Loop, StoreTypes, RunTypes, PostgresTypes, HandlerTypes, SyncKey, View, InSync, NoView, NoSync
    <2>3. NamesNobody'
      BY <1>25 DEF Expire, Fault, Reset, Sleep, Set, dcs, run, postgres, handler, NamesNobody, StoreTypes, RunTypes, PostgresTypes, HandlerTypes
    <2> QED
      BY <2>1, <2>2, <2>3
  <1>26. CASE UNCHANGED vars
    BY <1>26 DEF vars, dcs, run, postgres, handler, Loop, Published, NamesNobody, InSync
  <1> QED
    BY <1>1, <1>2, <1>3, <1>4, <1>5, <1>6, <1>7, <1>8, <1>9, <1>10, <1>11, <1>12, <1>13, <1>14, <1>15, <1>16, <1>17, <1>18, <1>19, <1>20, <1>21, <1>22, <1>23, <1>24, <1>25, <1>26 DEF Next, Cycle

\* The logs still match when one becomes a prefix of another.
LEMMA PrefixMatches ==
    ASSUME Types, Matching, NEW n \in Node, NEW p \in Node, NEW s \in Seq(Commit), IsPrefix(s, log[p]),
           log' = Set(log, n, s)
    PROVE  Matching'
  <1>1. /\ Len(s) \in Nat /\ Len(s) <= Len(log[p]) /\ Len(log[p]) \in Nat
        /\ \A i \in 1 .. Len(s) : s[i] = log[p][i]
    BY PrefixIs DEF Types, LogTypes
  <1>2. log'[n] = s /\ \A m \in Node \ {n} : log'[m] = log[m]
    BY DEF Types, LogTypes, Set
  <1>3. \A m \in Node : \E x \in Node : Len(log'[m]) <= Len(log[x]) /\ Len(log[x]) \in Nat /\ Len(log'[m]) \in Nat
            /\ \A i \in 1 .. Len(log'[m]) : log'[m][i] = log[x][i]
    <2> TAKE m \in Node
    <2>1. CASE m = n
      BY <1>1, <1>2, <2>1
    <2>2. CASE m /= n
      <3>1. Len(log[m]) \in Nat
        BY DEF Types, LogTypes
      <3> QED
        BY <1>2, <2>2, <3>1
    <2> QED
      BY <2>1, <2>2
  <1> SUFFICES ASSUME NEW a \in Node, NEW b \in Node, NEW i \in 1 .. Len(log'[a]), NEW j \in 1 .. Len(log'[b]),
                      log'[a][i] = log'[b][j]
               PROVE  i = j /\ \A k \in 1 .. i : log'[a][k] = log'[b][k]
    BY DEF Matching
  <1>4. PICK x \in Node : Len(log'[a]) <= Len(log[x]) /\ Len(log[x]) \in Nat /\ Len(log'[a]) \in Nat
            /\ \A h \in 1 .. Len(log'[a]) : log'[a][h] = log[x][h]
    BY <1>3
  <1>5. PICK y \in Node : Len(log'[b]) <= Len(log[y]) /\ Len(log[y]) \in Nat /\ Len(log'[b]) \in Nat
            /\ \A h \in 1 .. Len(log'[b]) : log'[b][h] = log[y][h]
    BY <1>3
  <1>6. i \in 1 .. Len(log[x]) /\ j \in 1 .. Len(log[y]) /\ log[x][i] = log[y][j]
    BY <1>4, <1>5
  <1>7. i = j /\ \A k \in 1 .. i : log[x][k] = log[y][k]
    BY <1>6 DEF Matching
  <1> QED
    BY <1>4, <1>5, <1>7

\* A commit is written to one log only when no log has it.
LEMMA WriteMatches ==
    ASSUME Types, Matching, NEW n \in Node, NEW c \in Commit, \A m \in Node : c \notin Range(log[m]),
           log' = Set(log, n, Append(log[n], c))
    PROVE  Matching'
  <1>1. /\ Len(log'[n]) = Len(log[n]) + 1 /\ log'[n][Len(log[n]) + 1] = c /\ Len(log[n]) \in Nat
        /\ \A i \in 1 .. Len(log[n]) : log'[n][i] = log[n][i]
    BY DEF Types, LogTypes, Set
  <1>2. \A m \in Node \ {n} : log'[m] = log[m] /\ Len(log[m]) \in Nat
    BY DEF Types, LogTypes, Set
  <1>3. \A m \in Node : \A i \in 1 .. Len(log[m]) : log[m][i] /= c
    BY DEF Types, LogTypes, Range
  <1> SUFFICES ASSUME NEW a \in Node, NEW b \in Node, NEW i \in 1 .. Len(log'[a]), NEW j \in 1 .. Len(log'[b]),
                      log'[a][i] = log'[b][j]
               PROVE  i = j /\ \A k \in 1 .. i : log'[a][k] = log'[b][k]
    BY DEF Matching
  <1>4. CASE i \in 1 .. Len(log[a]) /\ j \in 1 .. Len(log[b])
    <2>1. \A h \in 1 .. Len(log[a]) : log'[a][h] = log[a][h]
      BY <1>1, <1>2
    <2>2. \A h \in 1 .. Len(log[b]) : log'[b][h] = log[b][h]
      BY <1>1, <1>2
    <2>3. log[a][i] = log[b][j]
      BY <1>4, <2>1, <2>2
    <2>4. i = j /\ \A k \in 1 .. i : log[a][k] = log[b][k]
      BY <1>4, <2>3 DEF Matching
    <2>5. Len(log[a]) \in Nat /\ Len(log[b]) \in Nat
      BY <1>1, <1>2
    <2> QED
      BY <1>4, <2>1, <2>2, <2>4, <2>5
  <1>5. CASE i \notin 1 .. Len(log[a])
    <2>1. a = n /\ i = Len(log[n]) + 1 /\ log'[a][i] = c
      BY <1>1, <1>2, <1>5
    <2>2. b = n /\ j = Len(log[n]) + 1
      BY <1>1, <1>2, <1>3, <2>1
    <2> QED
      BY <2>1, <2>2
  <1>6. CASE j \notin 1 .. Len(log[b])
    <2>1. b = n /\ j = Len(log[n]) + 1 /\ log'[b][j] = c
      BY <1>1, <1>2, <1>6
    <2>2. a = n /\ i = Len(log[n]) + 1
      BY <1>1, <1>2, <1>3, <2>1
    <2> QED
      BY <2>1, <2>2
  <1> QED
    BY <1>4, <1>5, <1>6

\* What a stream and a rewind make of the log of n: a prefix of another node's, with what both had.
LEMMA StreamIs ==
    ASSUME Types, NEW n \in Node, Stream(n)
    PROVE  LET p == upstream[n]
               s == SubSeq(log[p], 1, Len(log[n]) + 1)
           IN /\ p \in Node /\ pg[p] = "primary" /\ pg[n] = "replica" /\ s \in Seq(Commit) /\ log' = Set(log, n, s)
              /\ IsPrefix(s, log[p]) /\ IsPrefix(log[n], s)
  <1> DEFINE p == upstream[n]
             s == SubSeq(log[p], 1, Len(log[n]) + 1)
  <1>1. p \in Node /\ pg[p] = "primary" /\ pg[n] = "replica" /\ log' = Set(log, n, s)
    BY DEF Stream, Types, PostgresTypes
  <1>2. log[n] \in Seq(Commit) /\ log[p] \in Seq(Commit) /\ IsStrictPrefix(log[n], log[p])
    BY <1>1 DEF Stream, Types, LogTypes
  <1>3. Len(log[n]) + 1 <= Len(log[p]) /\ Len(log[n]) \in Nat /\ Len(log[p]) \in Nat
    BY <1>2, StrictPrefixIs
  <1>4. \A i \in 1 .. Len(log[n]) : log[n][i] = log[p][i]
    BY <1>2, PrefixIs DEF IsStrictPrefix
  <1>5. s \in Seq(Commit) /\ Len(s) = Len(log[n]) + 1 /\ \A i \in 1 .. Len(log[n]) + 1 : s[i] = log[p][i]
    BY <1>2, <1>3
  <1> HIDE DEF s
  <1>6. IsPrefix(s, log[p])
    BY <1>2, <1>3, <1>5, PrefixIs
  <1>7. IsPrefix(log[n], s)
    <2>1. ASSUME NEW i \in 1 .. Len(log[n]) PROVE log[n][i] = s[i]
      <3>1. i \in 1 .. Len(log[n]) + 1
        BY <1>3
      <3> QED
        BY <1>4, <1>5, <3>1
    <2>2. Len(log[n]) <= Len(s)
      BY <1>3, <1>5
    <2> QED
      BY <1>2, <1>5, <2>1, <2>2, PrefixIs
  <1> QED
    BY <1>1, <1>5, <1>6, <1>7 DEF s

LEMMA FollowIs ==
    ASSUME Types, Matching, NEW n \in Node, follow(n)
    PROVE  \E s \in Seq(Commit) :
              /\ key \in Node \ {n} /\ pg[key] = "primary" /\ pg[n] = "replica" /\ log' = Set(log, n, s)
              /\ IsPrefix(s, log[key]) /\ IsPrefix(s, log[n])
              /\ Range(log[n]) \intersect Range(log[key]) \subseteq Range(s)
  <1> DEFINE s == LongestCommonPrefix({log[n], log[key]})
  <1>1. key \in Node \ {n} /\ pg[key] = "primary" /\ pg[n] = "replica" /\ log' = Set(log, n, s)
    BY DEF follow, Types, StoreTypes
  <1>2. log[n] \in Seq(Commit) /\ log[key] \in Seq(Commit)
    BY <1>1 DEF Types, LogTypes
  <1>3. /\ s \in Seq(Commit) /\ IsPrefix(s, log[n]) /\ IsPrefix(s, log[key])
        /\ \A i \in 1 .. Len(log[n]) : i <= Len(log[key]) /\ (\A j \in 1 .. i : log[n][j] = log[key][j]) => i <= Len(s)
    BY <1>2, LcpIs
  <1> HIDE DEF s
  <1>4. ASSUME NEW c \in Range(log[n]) \intersect Range(log[key]) PROVE c \in Range(s)
    <2>1. PICK i \in 1 .. Len(log[n]) : log[n][i] = c
      BY <1>2 DEF Range
    <2>2. PICK j \in 1 .. Len(log[key]) : log[key][j] = c
      BY <1>2 DEF Range
    <2>3. i = j /\ \A h \in 1 .. i : log[n][h] = log[key][h]
      BY <1>1, <2>1, <2>2 DEF Matching
    <2>0. Len(log[key]) \in Nat /\ Len(log[n]) \in Nat
      BY <1>2
    <2>4. i <= Len(s) /\ i \in Nat /\ i >= 1
      <3>1. i <= Len(log[key]) /\ \A h \in 1 .. i : log[n][h] = log[key][h]
        BY <2>0, <2>2, <2>3
      <3> QED
        BY <1>3, <2>0, <3>1
    <2>5. s[i] = c /\ i \in DOMAIN s
      BY <1>2, <1>3, <2>1, <2>4, PrefixIs
    <2> QED
      BY <2>5 DEF Range
  <1> QED
    BY <1>1, <1>3, <1>4

\* Every step keeps the logs matching.
LEMMA MatchingStep ==
    ASSUME Types, Matching, Next \/ UNCHANGED vars
    PROVE  Matching'
  <1>1. CASE UNCHANGED log
    BY <1>1 DEF Matching
  <1>2. ASSUME NEW n \in Node, Write(n) PROVE Matching'
    BY <1>2, WriteMatches DEF Write
  <1>3. ASSUME NEW n \in Node, Stream(n) PROVE Matching'
    BY <1>3, StreamIs, PrefixMatches
  <1>4. ASSUME NEW n \in Node, follow(n) PROVE Matching'
    BY <1>4, FollowIs, PrefixMatches
  <1>5. ASSUME NEW n \in Node, Cycle(n) PROVE follow(n) \/ UNCHANGED log
    BY <1>5 DEF Cycle, postgres, load_cluster_from_dcs, update_lock, EnableSync, process_sync_replication, WriteCommon, Assign, WaitReady, WriteAssigned, update_cluster_history, is_healthiest_node, acquire_lock, process_unhealthy_cluster, enforce_primary_role, demote, recover
  <1>6. ASSUME NEW n \in Node, promote(n) \/ CancelPromote(n) \/ Ack(n) \/ Disconnect(n) \/ PostgresCrashes(n) \/ Crash(n)
        PROVE  UNCHANGED log
    BY <1>6 DEF promote, CancelPromote, Ack, Disconnect, PostgresCrashes, Crash
  <1>7. CASE Expire \/ UNCHANGED vars
    BY <1>1, <1>7 DEF Expire, vars, postgres
  <1> QED
    BY <1>1, <1>2, <1>3, <1>4, <1>5, <1>6, <1>7 DEF Next

LEMMA BasicStep ==
    ASSUME PatroniSyncAssumption, Basic, Next \/ UNCHANGED vars
    PROVE  Basic'
  <1>1. Types' /\ Matching'
    BY TypesStep, MatchingStep DEF Basic
  <1>2. NamesNobody' /\ (\A n \in Node : Loop(n)') /\ (\A n \in Node : Published(n)')
    BY <1>1, LoopStep DEF Basic
  <1> QED
    BY <1>1, <1>2 DEF Basic

-----------------------------------------------------------------------------
(* Synchronous replication: the first primary.                              *)

\* What a longer log, and a prefix, have.
LEMMA AppendIs ==
    ASSUME NEW S, NEW s \in Seq(S), NEW c \in S
    PROVE  /\ Append(s, c) \in Seq(S) /\ IsPrefix(s, Append(s, c)) /\ Len(Append(s, c)) = Len(s) + 1
           /\ Range(Append(s, c)) = Range(s) \union {c}
  <1>1. Append(s, c) \in Seq(S) /\ Len(Append(s, c)) = Len(s) + 1 /\ Len(s) \in Nat
        /\ (\A i \in 1 .. Len(s) : Append(s, c)[i] = s[i]) /\ Append(s, c)[Len(s) + 1] = c
    OBVIOUS
  <1>3. DOMAIN s = 1 .. Len(s) /\ DOMAIN Append(s, c) = 1 .. Len(s) + 1
    BY <1>1
  <1> DEFINE t == Append(s, c)
  <1> HIDE DEF t
  <1>2. IsPrefix(s, t)
    <2>1. t \in Seq(S) /\ Len(s) <= Len(t) /\ \A i \in 1 .. Len(s) : s[i] = t[i]
      BY <1>1 DEF t
    <2> QED
      BY <2>1, PrefixIs
  <1>4. Range(t) = Range(s) \union {c}
    BY <1>1, <1>3 DEF Range, t
  <1> QED
    BY <1>1, <1>2, <1>4 DEF t

LEMMA PrefixHas ==
    ASSUME NEW S, NEW s \in Seq(S), NEW t \in Seq(S), IsPrefix(s, t)
    PROVE  /\ Range(s) \subseteq Range(t)
           /\ \A i \in 1 .. Len(t) : i <= Len(s) => t[i] \in Range(s)
  <1>1. Len(s) <= Len(t) /\ (\A i \in 1 .. Len(s) : s[i] = t[i]) /\ Len(s) \in Nat /\ Len(t) \in Nat
    BY PrefixIs
  <1>2. DOMAIN s = 1 .. Len(s) /\ DOMAIN t = 1 .. Len(t)
    OBVIOUS
  <1> QED
    BY <1>1, <1>2 DEF Range

LEMMA PrefixOfPrefix ==
    ASSUME NEW S, NEW s \in Seq(S), NEW t \in Seq(S), NEW u \in Seq(S), IsPrefix(s, t), IsPrefix(t, u)
    PROVE  IsPrefix(s, u)
  <1>1. Len(s) <= Len(t) /\ (\A i \in 1 .. Len(s) : s[i] = t[i]) /\ Len(s) \in Nat /\ Len(t) \in Nat
    BY PrefixIs
  <1>2. Len(t) <= Len(u) /\ (\A i \in 1 .. Len(t) : t[i] = u[i]) /\ Len(u) \in Nat
    BY PrefixIs
  <1> QED
    BY <1>1, <1>2, PrefixIs

\* The step of a node that changes nothing but where its own run is.
LEMMA OnlyRuns ==
    ASSUME Basic, KeyHeld, NEW n \in Node, pg[n] = "replica", Cycle(n)
    PROVE  \/ /\ UNCHANGED <<sync, pg, upstream, log, acked, handler>>
              /\ \A m \in Node \ {n} : pc'[m] = pc[m] /\ view'[m] = view[m] /\ fresh'[m] = fresh[m] /\ state'[m] = state[m]
              /\ pc[n] /= "sleep" \/ key \in {None, n}
              /\ key' = key \/ (key = None /\ key' = n)
           \/ pc[n] = "enforce" /\ enforce_primary_role(n) /\ sync' /= sync
           \/ pc[n] = "enforce" /\ enforce_primary_role(n) /\ pg' /= pg
           \/ follow(n)
  <1> DEFINE Ran == /\ UNCHANGED <<sync, pg, upstream, log, acked, handler>>
                    /\ \A m \in Node \ {n} : pc'[m] = pc[m] /\ view'[m] = view[m] /\ fresh'[m] = fresh[m] /\ state'[m] = state[m]
                    /\ pc[n] /= "sleep" \/ key \in {None, n}
                    /\ key' = key \/ (key = None /\ key' = n)
  <1>0. pc[n] \notin InSync \union {"done", "demote"} /\ RunTypes
    BY DEF Basic, Loop, Types
  <1>1. CASE load_cluster_from_dcs(n)
    BY <1>0, <1>1 DEF load_cluster_from_dcs, LoadView, Set, RunTypes, dcs, postgres
  <1>2. CASE update_lock(n)
    BY <1>0, <1>2 DEF update_lock, Goto, Lose, Sleep, Set, RunTypes, dcs, postgres
  <1>3. CASE is_healthiest_node(n)
    BY <1>0, <1>3 DEF is_healthiest_node, Goto, Sleep, Set, RunTypes, dcs, postgres
  <1>4. CASE acquire_lock(n)
    BY <1>0, <1>4 DEF acquire_lock, Goto, Lose, Sleep, Set, RunTypes, dcs, postgres
  <1>5. CASE process_unhealthy_cluster(n)
    BY <1>0, <1>5 DEF process_unhealthy_cluster, LoadView, Set, RunTypes, dcs, postgres
  <1>6. CASE enforce_primary_role(n)
    <2>1. pc[n] = "enforce" /\ UNCHANGED <<key, upstream, log, acked>>
      BY <1>6 DEF enforce_primary_role
    <2>2. CASE Sleep(n) /\ UNCHANGED <<sync, pg, handler>>
      BY <2>1, <2>2 DEF Sleep, Set, RunTypes
    <2>3. CASE pg' = Set(pg, n, "promoting")
      <3>1. pg'[n] = "promoting"
        BY <2>3 DEF Set, Basic, Types, PostgresTypes
      <3> QED
        BY <1>6, <2>1, <3>1
    <2> QED
      BY <1>6, <2>2, <2>3 DEF enforce_primary_role
  <1>7. ~(EnableSync(n) \/ process_sync_replication(n) \/ WriteCommon(n) \/ Assign(n) \/ WaitReady(n) \/ WriteAssigned(n)
          \/ update_cluster_history(n) \/ demote(n) \/ recover(n))
    BY <1>0 DEF InSync, EnableSync, process_sync_replication, WriteCommon, Assign, WaitReady, WriteAssigned,
                update_cluster_history, demote, recover
  <1> QED
    BY <1>1, <1>2, <1>3, <1>4, <1>5, <1>6, <1>7 DEF Cycle

\* One fault: after it there is no other, and before it the first primary has the key.
LEMMA KeyHeldStep ==
    ASSUME PatroniSyncAssumption, MaxFaults <= 1, Basic, KeyHeld, Spent \/ \E p \in Node : Standbys(p) /\ Undisturbed(p),
           Next \/ UNCHANGED vars
    PROVE  KeyHeld'
  <1> USE DEF Basic, Types, KeyHeld
  <1>0. faults \in Nat /\ MaxFaults \in Nat
    BY DEF PostgresTypes, PatroniSyncAssumption
  <1>1. \A n \in Node : ~Spent => pc[n] /= "reload" /\ pg[n] /= "promoting" /\ (pg[n] = "replica" => pc[n] = "sleep")
    BY DEF Standbys, Undisturbed
  <1>2. ASSUME Fault PROVE ~Spent /\ Spent'
    BY <1>0, <1>2 DEF Fault, Spent
  <1>3. ASSUME UNCHANGED faults PROVE Spent' = Spent
    BY <1>3 DEF Spent
  <1>4. ASSUME NEW n \in Node, UNCHANGED faults,
               load_cluster_from_dcs(n) \/ update_lock(n) \/ is_healthiest_node(n) \/ acquire_lock(n)
               \/ process_unhealthy_cluster(n)
        PROVE  KeyHeld'
    BY <1>1, <1>3, <1>4 DEF load_cluster_from_dcs, update_lock, is_healthiest_node, acquire_lock, process_unhealthy_cluster,
       LoadView, Goto, Lose, Sleep, Set, RunTypes, PostgresTypes, StoreTypes, dcs, postgres, PatroniSyncAssumption
  <1>5. ASSUME NEW n \in Node, UNCHANGED faults, enforce_primary_role(n) PROVE KeyHeld'
    BY <1>1, <1>3, <1>5 DEF enforce_primary_role, Goto, Sleep, Set, RunTypes, PostgresTypes
  <1>6. ASSUME NEW n \in Node, UNCHANGED faults,
               demote(n) \/ recover(n) \/ follow(n) \/ promote(n) \/ CancelPromote(n)
        PROVE  KeyHeld'
    BY <1>3, <1>6 DEF demote, recover, follow, promote, CancelPromote, Sleep, Set, RunTypes, PostgresTypes, dcs, run, Loop
  <1>7. ASSUME NEW n \in Node, UNCHANGED faults, Write(n) \/ Ack(n) \/ Stream(n) \/ Disconnect(n)
        PROVE  KeyHeld'
    BY <1>3, <1>7 DEF Write, Ack, Stream, Disconnect, dcs, run
  <1>8. ASSUME NEW n \in Node, UNCHANGED faults,
               EnableSync(n) \/ process_sync_replication(n) \/ WriteCommon(n) \/ Assign(n) \/ WaitReady(n) \/ WriteAssigned(n)
               \/ update_cluster_history(n)
        PROVE  KeyHeld'
    <2>1. key' = key /\ pg' = pg /\ (\E step \in Steps \ {"reload", "enforce"} : pc' = Set(pc, n, step))
      BY <1>8 DEF EnableSync, process_sync_replication, WriteCommon, Assign, WaitReady, WriteAssigned, update_cluster_history,
         Saw, Sleep, Goto, dcs, postgres, Steps
    <2> QED
      BY <1>3, <1>8, <2>1 DEF Set, RunTypes
  <1>9. ASSUME NEW n \in Node, PostgresCrashes(n) \/ Crash(n) PROVE KeyHeld'
    BY <1>1, <1>2, <1>9 DEF PostgresCrashes, Crash, Reset, Sleep, Set, RunTypes, PostgresTypes, dcs, run
  <1>10. CASE Expire
    BY <1>1, <1>2, <1>10 DEF Expire, Reset, Sleep, Set, RunTypes, PostgresTypes, StoreTypes, dcs, run
  <1>11. CASE UNCHANGED vars
    BY <1>3, <1>11 DEF vars, dcs, run, postgres
  <1> QED
    BY <1>4, <1>5, <1>6, <1>7, <1>8, <1>9, <1>10, <1>11 DEF Next, Cycle

\* A step of a node that is not the first primary: it follows it, or it takes its place.
LEMMA FirstOther ==
    ASSUME PatroniSyncAssumption, Basic, Basic', KeyHeld, NEW p \in Node, First(p), NEW n \in Node \ {p},
           Cycle(n) \/ Stream(n) \/ Disconnect(n), UNCHANGED faults, ~unnamed'
    PROVE  First(p)' \/ Second(p, n)'
  <1>0. pg[n] = "replica" /\ upstream[n] \in {None, p} /\ None \notin Node /\ Spent' = Spent
    BY DEF First, Standbys, PatroniSyncAssumption, Spent
  <1>1. /\ log \in [Node -> Seq(Commit)] /\ log' \in [Node -> Seq(Commit)]
        /\ upstream \in [Node -> Node \union {None}] /\ pg \in [Node -> {"primary", "replica", "promoting", "crashed", "stopped"}]
    BY DEF Basic, Types, LogTypes, PostgresTypes
  <1>2. CASE /\ UNCHANGED <<sync, pg, upstream, log, acked, handler>>
             /\ \A m \in Node \ {n} : pc'[m] = pc[m] /\ view'[m] = view[m] /\ fresh'[m] = fresh[m] /\ state'[m] = state[m]
             /\ pc[n] /= "sleep" \/ key \in {None, n}
             /\ key' = key \/ (key = None /\ key' = n)
    <2>1. Spent
      BY <1>0, <1>2 DEF First, Undisturbed, KeyHeld
    <2>2. OneLeader(p)' /\ Standbys(p)' /\ Safe(p, acked)'
      BY <1>2 DEF First, OneLeader, Standbys, Safe, Held, Copied, Caught, Seen, handler
    <2>3. Undisturbed(p)'
      BY <1>0, <1>2, <2>1 DEF First, Undisturbed
    <2> QED
      BY <2>2, <2>3 DEF First
  <1>3. CASE enforce_primary_role(n) /\ pc[n] = "enforce" /\ (sync' /= sync \/ pg' /= pg)
    <2>1. /\ write_sync_state(n, {}) /\ pg' = Set(pg, n, "promoting") /\ view[n].sync.leader /= None /\ sync_allows(n)
          /\ pc' = Set(pc, n, "sleep") /\ fresh' = [m \in Node |-> FALSE] /\ UNCHANGED state
          /\ set_synchronous_standby_names(n, IF Strict THEN {Star} ELSE {})
          /\ view' = Set(view, n, NoView)
      BY <1>0, <1>3 DEF enforce_primary_role, handler, Refused
    <2>2. UNCHANGED <<key, upstream, log, acked>>
      BY <1>3 DEF enforce_primary_role
    <2>3. sync.leader = p /\ n \in sync.members
      BY <1>3, <2>1 DEF write_sync_state, Basic, Loop, sync_allows, Names, First, OneLeader
    <2>4. key = n /\ Spent
      BY <1>0, <1>3 DEF KeyHeld
    <2>5. sync' = [leader |-> n, members |-> {}]
      BY <2>1 DEF write_sync_state, Publish
    <2>6. pc'[n] = "sleep" /\ pg'[n] = "promoting" /\ \A m \in Node \ {n} : pc'[m] = pc[m] /\ pg'[m] = pg[m] /\ view'[m] = view[m]
      BY <1>1, <2>1 DEF Set, Basic, Types, RunTypes
    <2>7. Successor(n)'
      BY <1>0, <2>2, <2>4, <2>5, <2>6 DEF Successor
    <2>8. ready'[n] = {} /\ ssn'[p] = ssn[p]
      <3>1. ready'[n] \subseteq Node /\ ready'[n] \subseteq {Star}
        BY <2>6 DEF Basic, Types, HandlerTypes, Loop
      <3>2. Star \notin Node
        BY DEF PatroniSyncAssumption
      <3>3. ssn'[p] = ssn[p]
        BY <2>1 DEF set_synchronous_standby_names, Set, Basic, Types, HandlerTypes
      <3> QED
        BY <3>1, <3>2, <3>3
    <2>9. Overtaken(p, n)'
      <3>1. pg[p] \in {"primary", "replica", "stopped"}
        BY <1>1, <2>4 DEF KeyHeld, First, Undisturbed
      <3>2. pg[p] = "primary" => n \in ssn[p]
        BY <2>3 DEF Basic, Published
      <3>3. pc[p] = "assign" => n \in state[p].picked
        BY <2>3 DEF Basic, Published
      <3>4. pc[p] \in {"enforce", "process"} => n \in view[p].sync.members
        BY <2>3 DEF First, Safe, Seen
      <3> QED
        BY <2>1, <2>6, <2>8, <3>1, <3>2, <3>3, <3>4 DEF Overtaken
    <2>10. Followers(p, n)'
      BY <1>0, <2>2, <2>6 DEF Followers, First, Standbys
    <2>11. Safe(n, May(p, n))'
      <3>1. acked \subseteq Range(log[n])
        BY <2>3 DEF First, Safe, Copied
      <3>2. Held(n, May(p, n))'
        BY <2>2, <3>1 DEF Held, May
      <3> QED
        BY <2>5, <2>6, <2>8, <3>2 DEF Safe, Copied, Caught, Seen
    <2> QED
      BY <2>7, <2>9, <2>10, <2>11 DEF Second
  <1>4. CASE \E s \in Seq(Commit) : /\ log' = Set(log, n, s) /\ IsPrefix(s, log[p]) /\ acked \intersect Range(log[n]) \subseteq Range(s)
                                    /\ UNCHANGED <<dcs, run, pg, acked, handler>>
                                    /\ upstream' = upstream \/ upstream' = Set(upstream, n, p)
    <2>1. PICK s \in Seq(Commit) : /\ log' = Set(log, n, s) /\ IsPrefix(s, log[p]) /\ acked \intersect Range(log[n]) \subseteq Range(s)
      BY <1>4
    <2>2. log'[n] = s /\ \A m \in Node \ {n} : log'[m] = log[m]
      BY <1>1, <2>1 DEF Set
    <2>3. \A m \in Node : acked \intersect Range(log[m]) \subseteq Range(log'[m])
      BY <2>1, <2>2
    <2>4. Standbys(p)'
      <3>1. upstream'[p] = upstream[p] /\ \A m \in Node \ {p} : upstream'[m] \in {upstream[m], p}
        BY <1>1, <1>4 DEF Set
      <3> QED
        BY <1>4, <2>1, <2>2, <3>1 DEF First, Standbys
    <2>5. OneLeader(p)' /\ Undisturbed(p)'
      BY <1>0, <1>4 DEF First, OneLeader, Undisturbed, dcs, run
    <2>6. Held(p, acked)' /\ Copied(p, acked)' /\ Seen(p)'
      <3>1. sync.members \union ready[p] \subseteq Node
        BY DEF Basic, Types, StoreTypes, SyncKey, HandlerTypes
      <3> QED
        BY <1>4, <2>2, <2>3, <3>1 DEF First, Safe, Held, Copied, Seen, dcs, run, handler
    <2>7. Caught(p, acked)'
      <3>1. ssn[p] \ {Star} \subseteq Node
        BY DEF Basic, Types, HandlerTypes
      <3>2. log'[p] = log[p] /\ UNCHANGED <<pg, ssn, flush, acked>>
        BY <1>4, <2>2 DEF handler
      <3> QED
        BY <2>3, <3>1, <3>2 DEF First, Safe, Caught
    <2> QED
      BY <2>4, <2>5, <2>6, <2>7 DEF First, Safe
  <1>5. CASE Stream(n)
    <2> DEFINE s == SubSeq(log[upstream[n]], 1, Len(log[n]) + 1)
    <2>1. /\ upstream[n] \in Node /\ s \in Seq(Commit) /\ log' = Set(log, n, s) /\ IsPrefix(s, log[upstream[n]]) /\ IsPrefix(log[n], s)
      BY <1>5, StreamIs DEF Basic
    <2> HIDE DEF s
    <2>2. upstream[n] = p
      BY <1>0, <2>1
    <2>3. Range(log[n]) \subseteq Range(s)
      BY <1>1, <2>1, PrefixHas
    <2>4. UNCHANGED <<dcs, run, pg, acked, handler, upstream>>
      BY <1>5 DEF Stream
    <2> QED
      BY <1>4, <2>1, <2>2, <2>3, <2>4
  <1>6. CASE follow(n)
    <2>1. PICK s \in Seq(Commit) :
              /\ key \in Node \ {n} /\ pg[key] = "primary" /\ log' = Set(log, n, s)
              /\ IsPrefix(s, log[key]) /\ Range(log[n]) \intersect Range(log[key]) \subseteq Range(s)
      BY <1>6, FollowIs DEF Basic
    <2>2. key = p
      BY <2>1 DEF First, Standbys
    <2>3. UNCHANGED <<dcs, run, pg, acked, handler>> /\ upstream' = Set(upstream, n, p)
      BY <1>6, <2>2 DEF follow
    <2>4. acked \intersect Range(log[n]) \subseteq Range(s)
      BY <2>1, <2>2 DEF First, Safe, Held
    <2> QED
      BY <1>4, <2>1, <2>2, <2>3, <2>4
  <1>7. CASE Disconnect(n)
    <2>1. upstream' = Set(upstream, n, None) /\ UNCHANGED <<dcs, run, pg, log, acked, handler>>
      BY <1>7 DEF Disconnect
    <2>2. Standbys(p)'
      BY <1>1, <2>1 DEF First, Standbys, Set
    <2>3. OneLeader(p)' /\ Undisturbed(p)' /\ Safe(p, acked)'
      BY <1>0, <2>1 DEF First, OneLeader, Undisturbed, Safe, Held, Copied, Caught, Seen, dcs, run, handler
    <2> QED
      BY <2>2, <2>3 DEF First
  <1> QED
    BY <1>0, <1>2, <1>3, <1>5, <1>6, <1>7, OnlyRuns

\* The in-sync steps of a leader l whose clients were told of D or may still be.
LEMMA SafeInSync ==
    ASSUME PatroniSyncAssumption, Basic, Basic', NEW l \in Node, NEW D, Safe(l, D),
           EnableSync(l) \/ process_sync_replication(l) \/ WriteCommon(l) \/ Assign(l) \/ WaitReady(l) \/ WriteAssigned(l)
           \/ update_cluster_history(l),
           \A n \in Node : upstream[n] = l /\ pg[n] = "replica" => IsPrefix(log[n], log[l])
    PROVE  Safe(l, D)' /\ (sync' = sync \/ sync'.leader = l)
  <1>1. /\ sync \in SyncKey /\ RunTypes /\ HandlerTypes /\ LogTypes /\ PostgresTypes
        /\ Loop(l)
    BY DEF Basic, Types, StoreTypes
  <1>2. UNCHANGED <<log, pg>>
    BY DEF EnableSync, process_sync_replication, WriteCommon, Assign, WaitReady, WriteAssigned, update_cluster_history, postgres
  <1>3. pc[l] \in InSync \union {"done"} /\ pg[l] \in {"primary", "crashed"}
    BY <1>1 DEF EnableSync, process_sync_replication, WriteCommon, Assign, WaitReady, WriteAssigned, update_cluster_history,
                Loop, InSync
  <1>4. Held(l, D)'
    BY <1>2 DEF Safe, Held
  <1>5. CASE Assign(l)
    <2> DEFINE names == IF Strict /\ state[l].picked = {} THEN {Star} ELSE state[l].picked
    <2>1. /\ set_synchronous_standby_names(l, names) /\ UNCHANGED <<sync, view>>
      BY <1>5 DEF Assign, Goto, dcs
    <2> HIDE DEF names
    <2>2. Seen(l)'
      <3>1. pc[l] = "assign"
        BY <1>5 DEF Assign
      <3> QED
        BY <2>1, <3>1 DEF Safe, Seen
    <2>3. Copied(l, D)'
      <3>1. ready'[l] \subseteq ready[l]
        BY <1>1, <2>1 DEF set_synchronous_standby_names, Set, HandlerTypes
      <3> QED
        BY <1>2, <2>1, <3>1 DEF Safe, Copied
    <2>4. CASE names = ssn[l]
      <3>1. ssn'[l] = ssn[l] /\ flush' = flush
        BY <1>1, <2>1, <2>4 DEF set_synchronous_standby_names, Set, HandlerTypes
      <3> QED
        BY <1>2, <1>4, <2>1, <2>2, <2>3, <3>1 DEF Safe, Caught
    <2>5. CASE names /= ssn[l]
      <3>1. flush'[l] = Len(log[l])
        BY <1>1, <2>1, <2>5 DEF set_synchronous_standby_names, Set, HandlerTypes
      <3>2. \A c \in D : \E i \in 1 .. Len(log[l]) : i <= Len(log[l]) /\ log[l][i] = c
        <4>1. DOMAIN log[l] = 1 .. Len(log[l]) /\ Len(log[l]) \in Nat
          BY <1>1 DEF LogTypes
        <4> QED
          BY <4>1 DEF Safe, Held, Range
      <3>3. Caught(l, D)'
        BY <1>2, <3>1, <3>2 DEF Caught
      <3> QED
        BY <1>4, <2>1, <2>2, <2>3, <3>3 DEF Safe
    <2> QED
      BY <2>1, <2>4, <2>5
  <1>6. ASSUME NEW now, NEW s, CurrentStateIs(l, now, s), UNCHANGED <<sync, view, ssn, flush>>, pc[l] \in InSync
        PROVE  Safe(l, D)' /\ sync' = sync
    <2>1. ready'[l] = now
      BY <1>1, <1>6 DEF CurrentStateIs, Set, HandlerTypes
    <2>2. view[l].sync = sync
      BY <1>6 DEF Safe, Seen, InSync
    <2>3. ASSUME NEW r \in now PROVE D \subseteq Range(log[r])
      <3>1. CASE r \in ready[l] \/ r \in sync.members
        BY <3>1 DEF Safe, Copied
      <3>2. CASE r \notin ready[l] /\ r \notin sync.members
        <4>1. r \in Streams(l) /\ r \in ssn[l] /\ r \in Node /\ Len(log[r]) >= flush[l]
          BY <1>6, <2>2, <2>3, <3>2 DEF CurrentStateIs
        <4>2. IsPrefix(log[r], log[l]) /\ log[r] \in Seq(Commit) /\ log[l] \in Seq(Commit) /\ r /= Star
          BY <1>1, <4>1 DEF Streams, LogTypes, PatroniSyncAssumption
        <4>3. \A i \in 1 .. Len(log[l]) : i <= Len(log[r]) => log[l][i] \in Range(log[r])
          BY <4>2, PrefixHas
        <4>4. flush[l] \in Nat /\ Len(log[r]) \in Nat
          BY <1>1, <4>2 DEF HandlerTypes
        <4>5. \A c \in D : c \in Range(log[r]) \/ \E i \in 1 .. Len(log[l]) : i <= flush[l] /\ log[l][i] = c
          BY <1>3, <4>1, <4>2 DEF Safe, Caught
        <4>6. \A i \in 1 .. Len(log[l]) : i <= flush[l] => i <= Len(log[r])
          BY <4>1, <4>4
        <4> QED
          BY <4>3, <4>5, <4>6
      <3> QED
        BY <3>1, <3>2
    <2>4. Copied(l, D)'
      BY <1>2, <1>6, <2>1, <2>3 DEF Safe, Copied
    <2>5. Caught(l, D)' /\ Seen(l)'
      BY <1>2, <1>6, <2>2 DEF Safe, Caught, Seen
    <2> QED
      BY <1>4, <1>6, <2>4, <2>5 DEF Safe
  <1>7. CASE process_sync_replication(l)
    <2>1. PICK now, s : CurrentStateIs(l, now, s)
      BY <1>7, CurrentState DEF process_sync_replication, Basic
    <2> QED
      BY <1>6, <1>7, <2>1 DEF process_sync_replication, dcs, InSync
  <1>8. CASE WaitReady(l)
    <2>1. PICK now, s : CurrentStateIs(l, now, s)
      BY <1>8, CurrentState DEF WaitReady, Basic
    <2> QED
      BY <1>6, <1>8, <2>1 DEF WaitReady, dcs, InSync
  <1>9. CASE EnableSync(l) \/ WriteCommon(l) \/ WriteAssigned(l) \/ update_cluster_history(l)
    <2>1. UNCHANGED handler
      BY <1>9 DEF EnableSync, WriteCommon, WriteAssigned, update_cluster_history
    <2>2. Caught(l, D)'
      BY <1>2, <2>1 DEF Safe, Caught, handler
    <2>3. CASE sync' = sync
      <3>1. Copied(l, D)'
        BY <1>2, <2>1, <2>3 DEF Safe, Copied, handler
      <3>2. Seen(l)'
        <4>1. CASE EnableSync(l)
          <5>1. CASE Sleep(l)
            BY <1>1, <5>1 DEF Sleep, Set, RunTypes, Seen
          <5>2. CASE write_sync_state(l, {}) /\ Saw(l, {}, "process")
            <6>1. view'[l].sync = [leader |-> l, members |-> {}] /\ sync' = [leader |-> l, members |-> {}]
              BY <1>1, <5>2 DEF Saw, Set, RunTypes, write_sync_state, Publish
            <6> QED
              BY <6>1 DEF Seen
          <5> QED
            BY <4>1, <5>1, <5>2 DEF EnableSync
        <4>2. CASE WriteCommon(l)
          <5> DEFINE common == Members(l) \intersect state[l].allow
          <5>1. CASE Goto(l, "done")
            BY <1>1, <5>1 DEF Goto, Set, RunTypes, Seen
          <5>2. CASE write_sync_state(l, common) /\ Saw(l, common, "assign")
            <6>1. view'[l].sync = [leader |-> l, members |-> common] /\ sync' = [leader |-> l, members |-> common]
              BY <1>1, <5>2 DEF Saw, Set, RunTypes, write_sync_state, Publish
            <6> QED
              BY <6>1 DEF Seen
          <5> QED
            BY <4>2, <5>1, <5>2 DEF WriteCommon
        <4>3. CASE WriteAssigned(l) \/ update_cluster_history(l)
          BY <1>1, <4>3 DEF WriteAssigned, update_cluster_history, Sleep, Set, RunTypes, Seen
        <4> QED
          BY <1>9, <4>1, <4>2, <4>3
      <3> QED
        BY <1>4, <2>2, <2>3, <3>1, <3>2 DEF Safe
    <2>4. CASE sync' /= sync
      <3>1. CASE EnableSync(l)
        <4>0. write_sync_state(l, {}) /\ Saw(l, {}, "process")
          BY <2>4, <3>1 DEF EnableSync, Refused
        <4>1. sync' = [leader |-> l, members |-> {}] /\ view'[l].sync = sync'
          BY <1>1, <4>0 DEF Saw, Set, RunTypes, write_sync_state, Publish
        <4>2. Copied(l, D)' /\ Seen(l)'
          BY <1>2, <2>1, <4>1 DEF Safe, Copied, Seen, handler
        <4> QED
          BY <1>4, <2>2, <4>1, <4>2 DEF Safe
      <3>2. CASE WriteCommon(l)
        <4> DEFINE common == Members(l) \intersect state[l].allow
        <4>0. write_sync_state(l, common) /\ Saw(l, common, "assign")
          BY <2>4, <3>2 DEF WriteCommon, Refused
        <4>1. sync' = [leader |-> l, members |-> common] /\ view'[l].sync = sync'
          BY <1>1, <4>0 DEF Saw, Set, RunTypes, write_sync_state, Publish
        <4>2. Members(l) = sync.members
          BY <3>2 DEF WriteCommon, Members, Safe, Seen
        <4>3. Copied(l, D)' /\ Seen(l)'
          BY <1>2, <2>1, <4>1, <4>2 DEF Safe, Copied, Seen, handler
        <4> QED
          BY <1>4, <2>2, <4>1, <4>3 DEF Safe
      <3>3. CASE WriteAssigned(l)
        <4>1. sync' = [leader |-> l, members |-> state[l].allow] /\ pc'[l] = "done" /\ pc[l] = "publish"
          BY <1>1, <2>4, <3>3 DEF WriteAssigned, Refused, Set, RunTypes, write_sync_state, Publish
        <4>2. state[l].allow \subseteq ready[l]
          BY <1>1, <4>1 DEF Loop, InSync
        <4>3. Copied(l, D)' /\ Seen(l)'
          BY <1>2, <2>1, <4>1, <4>2 DEF Safe, Copied, Seen, handler
        <4> QED
          BY <1>4, <2>2, <4>1, <4>3 DEF Safe
      <3>4. ~update_cluster_history(l)
        BY <2>4 DEF update_cluster_history
      <3> QED
        BY <1>9, <3>1, <3>2, <3>3, <3>4
    <2> QED
      BY <2>3, <2>4
  <1> QED
    BY <1>5, <1>7, <1>8, <1>9

\* The steps of the first primary itself: its run.
LEMMA FirstRuns ==
    ASSUME PatroniSyncAssumption, Basic, KeyHeld, NEW p \in Node, First(p), UNCHANGED faults,
           load_cluster_from_dcs(p) \/ update_lock(p) \/ is_healthiest_node(p) \/ acquire_lock(p) \/ process_unhealthy_cluster(p)
    PROVE  First(p)'
  <1>1. RunTypes /\ None \notin Node /\ Spent' = Spent
    BY DEF Basic, Types, PatroniSyncAssumption, Spent
  <1>2. /\ UNCHANGED <<sync, pg, upstream, log, acked, handler>>
        /\ \A n \in Node \ {p} : pc'[n] = pc[n]
        /\ key' = key \/ key' = p
    BY <1>1 DEF load_cluster_from_dcs, update_lock, is_healthiest_node, acquire_lock, process_unhealthy_cluster,
                LoadView, Goto, Lose, Sleep, Set, RunTypes, dcs, postgres
  <1>3. OneLeader(p)' /\ Standbys(p)' /\ Held(p, acked)' /\ Copied(p, acked)' /\ Caught(p, acked)'
    BY <1>2 DEF First, OneLeader, Standbys, Safe, Held, Copied, Caught, handler
  <1>4. Seen(p)'
    BY <1>1, <1>2 DEF load_cluster_from_dcs, update_lock, is_healthiest_node, acquire_lock, process_unhealthy_cluster,
                LoadView, Goto, Lose, Sleep, Set, RunTypes, First, Safe, Seen
  <1>5. Undisturbed(p)'
    <2>1. pg[p] = "crashed" => key' = p
      BY <1>2 DEF First, Undisturbed
    <2>2. ASSUME ~Spent
          PROVE  key' = p /\ pc'[p] \notin {"acquire", "reload", "demote"} /\ (pc'[p] = "loaded" => view'[p].leader = p)
      <3>1. CASE load_cluster_from_dcs(p)
        BY <1>1, <1>2, <2>2, <3>1 DEF load_cluster_from_dcs, LoadView, Set, RunTypes, First, Undisturbed
      <3>2. CASE update_lock(p)
        BY <1>1, <1>2, <2>2, <3>2 DEF update_lock, Goto, Set, RunTypes, First, Undisturbed
      <3>3. ~is_healthiest_node(p) /\ ~acquire_lock(p) /\ ~process_unhealthy_cluster(p)
        BY <1>1, <2>2 DEF is_healthiest_node, acquire_lock, process_unhealthy_cluster, First, Undisturbed
      <3> QED
        BY <3>1, <3>2, <3>3
    <2> QED
      BY <1>1, <1>2, <2>1, <2>2 DEF First, Undisturbed
  <1> QED
    BY <1>3, <1>4, <1>5 DEF First, Safe

\* Its synchronous steps, its change of role, and the commits.
LEMMA FirstInSync ==
    ASSUME PatroniSyncAssumption, Basic, Basic', NEW p \in Node, First(p), UNCHANGED faults,
           EnableSync(p) \/ process_sync_replication(p) \/ WriteCommon(p) \/ Assign(p) \/ WaitReady(p) \/ WriteAssigned(p)
           \/ update_cluster_history(p)
    PROVE  First(p)'
  <1>1. RunTypes /\ Spent' = Spent
    BY DEF Basic, Types, Spent
  <1>2. /\ UNCHANGED <<key, pg, upstream, log, acked>>
        /\ \A n \in Node \ {p} : pc'[n] = pc[n]
        /\ pc'[p] \notin {"loaded", "acquire", "reload", "demote"}
    BY <1>1 DEF EnableSync, process_sync_replication, WriteCommon, Assign, WaitReady, WriteAssigned, update_cluster_history,
                Saw, Sleep, Goto, Set, RunTypes, dcs, postgres
  <1>3. \A n \in Node : upstream[n] = p /\ pg[n] = "replica" => IsPrefix(log[n], log[p])
    <2>1. p \notin Node \ {p} /\ upstream[p] = None
      BY DEF First, Standbys
    <2> QED
      BY <2>1 DEF First, Standbys, PatroniSyncAssumption
  <1>4. PICK D : D = acked
    OBVIOUS
  <1>5. Safe(p, D)' /\ (sync' = sync \/ sync'.leader = p)
    BY <1>3, <1>4, SafeInSync DEF First
  <1>6. Safe(p, acked)'
    BY <1>2, <1>4, <1>5
  <1>7. OneLeader(p)' /\ Standbys(p)'
    BY <1>2, <1>5 DEF First, OneLeader, Standbys, PatroniSyncAssumption
  <1>8. Undisturbed(p)'
    BY <1>1, <1>2 DEF First, Undisturbed
  <1> QED
    BY <1>6, <1>7, <1>8 DEF First

LEMMA FirstRole ==
    ASSUME PatroniSyncAssumption, Basic, Basic', KeyHeld, NEW p \in Node, First(p), UNCHANGED faults,
           enforce_primary_role(p) \/ demote(p) \/ recover(p) \/ promote(p)
    PROVE  First(p)'
  <1>1. RunTypes /\ HandlerTypes /\ PostgresTypes /\ Spent' = Spent /\ Star \notin Node /\ None \notin Node
    BY DEF Basic, Types, Spent, PatroniSyncAssumption
  <1>2. UNCHANGED <<key, log, acked>>
    BY DEF enforce_primary_role, demote, recover, promote, dcs
  <1>3. /\ upstream'[p] = None
        /\ \A n \in Node \ {p} : pg'[n] = pg[n] /\ pc'[n] = pc[n] /\ upstream'[n] = upstream[n]
    BY <1>1 DEF enforce_primary_role, demote, recover, promote, Sleep, Goto, Set, RunTypes, PostgresTypes, run, First, Standbys
  <1>4. Standbys(p)' /\ Held(p, acked)'
    BY <1>2, <1>3 DEF First, Standbys, Safe, Held
  <1>5. CASE pg[p] = "primary" /\ enforce_primary_role(p)
    <2>1. Goto(p, "process") /\ pc[p] = "enforce" /\ UNCHANGED <<sync, pg, handler>>
      BY <1>5 DEF enforce_primary_role
    <2>2. pc'[p] = "process" /\ UNCHANGED view
      BY <1>1, <2>1 DEF Goto, Set, RunTypes
    <2>3. OneLeader(p)' /\ Copied(p, acked)' /\ Caught(p, acked)' /\ Seen(p)' /\ Undisturbed(p)'
      BY <1>1, <1>2, <1>3, <2>1, <2>2 DEF First, OneLeader, Safe, Copied, Caught, Seen, Undisturbed, handler
    <2> QED
      BY <1>4, <2>3 DEF First, Safe
  <1>6. CASE pg[p] /= "primary" /\ enforce_primary_role(p)
    <2>1. Spent /\ Spent'
      BY <1>1, <1>6 DEF First, Undisturbed
    <2>2. CASE Sleep(p) /\ UNCHANGED <<sync, pg, handler>>
      <3>1. pc'[p] = "sleep"
        BY <1>1, <2>2 DEF Sleep, Set, RunTypes
      <3>2. OneLeader(p)' /\ Copied(p, acked)' /\ Caught(p, acked)' /\ Seen(p)' /\ Undisturbed(p)'
        BY <1>2, <2>1, <2>2, <3>1 DEF First, OneLeader, Safe, Copied, Caught, Seen, Undisturbed, handler
      <3> QED
        BY <1>4, <3>2 DEF First, Safe
    <2>3. CASE write_sync_state(p, {}) /\ pg' = Set(pg, p, "promoting") /\ pc' = Set(pc, p, "sleep")
      <3>1. sync' = [leader |-> p, members |-> {}] /\ pg'[p] = "promoting" /\ pc'[p] = "sleep"
        BY <1>1, <2>3 DEF write_sync_state, Publish, Set, RunTypes, PostgresTypes
      <3>2. ready'[p] = {}
        BY <1>1, <3>1 DEF Basic, Loop, Types, HandlerTypes
      <3>3. OneLeader(p)' /\ Copied(p, acked)' /\ Caught(p, acked)' /\ Seen(p)' /\ Undisturbed(p)'
        BY <1>1, <1>2, <2>1, <3>1, <3>2 DEF OneLeader, Copied, Caught, Seen, Undisturbed
      <3> QED
        BY <1>4, <3>3 DEF First, Safe
    <2> QED
      BY <1>6, <2>2, <2>3 DEF enforce_primary_role
  <1>7. CASE demote(p)
    <2>1. Spent /\ Spent'
      BY <1>1, <1>7 DEF First, Undisturbed, demote
    <2>2. pg'[p] = "replica" /\ ready'[p] = {} /\ pc'[p] = "sleep" /\ UNCHANGED sync
      BY <1>1, <1>7 DEF demote, Sleep, Set, dcs, RunTypes, HandlerTypes, PostgresTypes
    <2>3. OneLeader(p)' /\ Copied(p, acked)' /\ Caught(p, acked)' /\ Seen(p)' /\ Undisturbed(p)'
      BY <1>2, <2>1, <2>2 DEF First, OneLeader, Safe, Copied, Caught, Seen, Undisturbed
    <2> QED
      BY <1>4, <2>3 DEF First, Safe
  <1>8. CASE recover(p)
    <2>1. Spent /\ Spent'
      BY <1>1, <1>8 DEF First, Undisturbed, recover
    <2>2. UNCHANGED <<sync, run>> /\ pg'[p] \in {"primary", "replica"}
      BY <1>1, <1>8 DEF recover, Set, dcs, PostgresTypes
    <2>3. CASE UNCHANGED handler
      <3>1. pg[p] = "crashed" \/ pg'[p] = "replica"
        BY <1>1, <1>8 DEF recover, Set, PostgresTypes
      <3>2. OneLeader(p)' /\ Copied(p, acked)' /\ Caught(p, acked)' /\ Seen(p)' /\ Undisturbed(p)'
        BY <1>2, <2>1, <2>2, <2>3, <3>1 DEF First, OneLeader, Safe, Copied, Caught, Seen, Undisturbed, handler, run
      <3> QED
        BY <1>4, <3>2 DEF First, Safe
    <2>4. CASE pg' = Set(pg, p, "replica") /\ ready' = Set(ready, p, {})
      <3>1. pg'[p] = "replica" /\ ready'[p] = {}
        BY <1>1, <2>4 DEF Set, HandlerTypes, PostgresTypes
      <3>2. OneLeader(p)' /\ Copied(p, acked)' /\ Caught(p, acked)' /\ Seen(p)' /\ Undisturbed(p)'
        BY <1>2, <2>1, <2>2, <3>1 DEF First, OneLeader, Safe, Copied, Caught, Seen, Undisturbed, run
      <3> QED
        BY <1>4, <3>2 DEF First, Safe
    <2> QED
      BY <1>8, <2>3, <2>4 DEF recover
  <1>9. CASE promote(p)
    <2>1. Spent /\ Spent'
      BY <1>1, <1>9 DEF First, Undisturbed, promote
    <2>2. ssn[p] \subseteq {Star} /\ UNCHANGED <<sync, run, handler>> /\ pg'[p] = "primary"
      BY <1>1, <1>9 DEF promote, Set, dcs, PostgresTypes, Basic, Loop
    <2>3. OneLeader(p)' /\ Copied(p, acked)' /\ Caught(p, acked)' /\ Seen(p)' /\ Undisturbed(p)'
      BY <1>2, <2>1, <2>2 DEF First, OneLeader, Safe, Copied, Caught, Seen, Undisturbed, run, handler
    <2> QED
      BY <1>4, <2>3 DEF First, Safe
  <1> QED
    BY <1>5, <1>6, <1>7, <1>8, <1>9

LEMMA FirstCommits ==
    ASSUME PatroniSyncAssumption, Basic, NEW p \in Node, First(p), UNCHANGED faults, Write(p) \/ Ack(p)
    PROVE  First(p)'
  <1>1. LogTypes /\ HandlerTypes /\ StoreTypes /\ Spent' = Spent /\ Star \notin Node /\ None \notin Node
    BY DEF Basic, Types, Spent, PatroniSyncAssumption
  <1>2. UNCHANGED <<dcs, run, handler, pg, upstream>>
    BY DEF Write, Ack
  <1>3. CASE Write(p)
    <2>1. PICK c \in Commit : log' = Set(log, p, Append(log[p], c))
      BY <1>3 DEF Write
    <2>2. log[p] \in Seq(Commit) /\ log'[p] = Append(log[p], c) /\ \A n \in Node \ {p} : log'[n] = log[n]
      BY <1>1, <2>1 DEF LogTypes, Set
    <2>3. /\ log'[p] \in Seq(Commit) /\ IsPrefix(log[p], log'[p]) /\ Len(log'[p]) = Len(log[p]) + 1
          /\ Range(log'[p]) = Range(log[p]) \union {c}
      BY <2>2, AppendIs
    <2>4. \A n \in Node : Range(log[n]) \subseteq Range(log'[n])
      BY <2>2, <2>3
    <2>5. acked' = acked
      BY <1>3 DEF Write
    <2>6. Standbys(p)'
      <3>1. \A n \in Node \ {p} : IsPrefix(log[n], log[p]) => IsPrefix(log'[n], log'[p])
        <4> TAKE n \in Node \ {p}
        <4>1. log[n] \in Seq(Commit) /\ log'[n] = log[n]
          BY <1>1, <2>2 DEF LogTypes
        <4> QED
          BY <2>2, <2>3, <4>1, PrefixOfPrefix
      <3> QED
        BY <1>2, <3>1 DEF First, Standbys
    <2>7. OneLeader(p)' /\ Undisturbed(p)' /\ Seen(p)'
      BY <1>1, <1>2, <2>5 DEF First, OneLeader, Undisturbed, Safe, Seen, dcs, run
    <2>8. Held(p, acked)' /\ Copied(p, acked)'
      <3>1. sync.members \union ready[p] \subseteq Node
        BY <1>1 DEF StoreTypes, SyncKey, HandlerTypes
      <3> QED
        BY <1>2, <2>4, <2>5, <3>1 DEF First, Safe, Held, Copied, dcs, handler
    <2>9. Caught(p, acked)'
      <3>1. \A i \in 1 .. Len(log[p]) : i \in 1 .. Len(log'[p]) /\ log'[p][i] = log[p][i]
        <4>1. Len(log[p]) \in Nat /\ \A i \in 1 .. Len(log[p]) : log'[p][i] = log[p][i]
          BY <2>2, <2>3, PrefixIs
        <4> QED
          BY <2>3, <4>1
      <3>2. ssn[p] \ {Star} \subseteq Node
        BY <1>1 DEF HandlerTypes
      <3> QED
        BY <1>2, <2>4, <2>5, <3>1, <3>2 DEF First, Safe, Caught, handler
    <2> QED
      BY <2>6, <2>7, <2>8, <2>9 DEF First, Safe
  <1>4. CASE Ack(p)
    <2>1. PICK c \in Range(log[p]) : acked' = acked \union {c} /\ \A r \in ssn[p] \ {Star} : c \in Range(log[r])
      BY <1>4 DEF Ack
    <2>2. log' = log /\ sync.leader = p /\ pg[p] = "primary"
      BY <1>4 DEF Ack, First, OneLeader
    <2>3. sync.members \subseteq ssn[p] /\ ready[p] \subseteq ssn[p]
      BY <2>2 DEF Basic, Published, Loop
    <2>4. Star \notin sync.members \union ready[p]
      BY <1>1 DEF StoreTypes, SyncKey, HandlerTypes
    <2>5. Held(p, acked)' /\ Copied(p, acked)'
      BY <1>2, <2>1, <2>2, <2>3, <2>4 DEF First, Safe, Held, Copied, dcs, handler
    <2>6. Caught(p, acked)'
      BY <1>2, <2>1, <2>2 DEF First, Safe, Caught, handler
    <2>7. OneLeader(p)' /\ Undisturbed(p)' /\ Seen(p)' /\ Standbys(p)'
      BY <1>1, <1>2, <2>2 DEF First, OneLeader, Undisturbed, Safe, Seen, Standbys, dcs, run
    <2> QED
      BY <2>5, <2>6, <2>7 DEF First, Safe
  <1> QED
    BY <1>3, <1>4

\* A crash of Postgres, of the machine, or an expiration, of which there is one.
LEMMA FirstFails ==
    ASSUME PatroniSyncAssumption, MaxFaults <= 1, Basic, NEW p \in Node, First(p),
           Expire \/ \E n \in Node : PostgresCrashes(n) \/ Crash(n)
    PROVE  First(p)'
  <1>1. RunTypes /\ HandlerTypes /\ PostgresTypes /\ None \notin Node
    BY DEF Basic, Types, PatroniSyncAssumption
  <1>2. ~Spent /\ Spent'
    BY <1>1 DEF Expire, PostgresCrashes, Crash, Fault, Spent, PostgresTypes, PatroniSyncAssumption
  <1>3. key = p /\ pg[p] = "primary" /\ UNCHANGED <<sync, log, acked, ssn>>
    BY <1>2 DEF First, Undisturbed, Expire, PostgresCrashes, Crash, dcs, handler
  <1>4. \A n \in Node \ {p} : ~PostgresCrashes(n) /\ ~Crash(n)
    BY DEF First, Standbys, PostgresCrashes, Crash
  <1>5. CASE PostgresCrashes(p)
    <2>1. UNCHANGED <<dcs, run, handler, upstream>> /\ pg'[p] = "crashed" /\ \A n \in Node \ {p} : pg'[n] = pg[n]
      BY <1>1, <1>5 DEF PostgresCrashes, Set, PostgresTypes
    <2> QED
      BY <1>2, <1>3, <2>1 DEF First, OneLeader, Standbys, Undisturbed, Safe, Held, Copied, Caught, Seen, dcs, run, handler
  <1>6. CASE Reset(p)
    <2>1. /\ pg'[p] = "stopped" /\ upstream'[p] = None /\ ready'[p] = {} /\ pc'[p] = "sleep"
          /\ \A n \in Node \ {p} : pg'[n] = pg[n] /\ upstream'[n] = upstream[n]
      BY <1>1, <1>6 DEF Reset, Sleep, Set, RunTypes, HandlerTypes, PostgresTypes
    <2> QED
      BY <1>2, <1>3, <2>1 DEF First, OneLeader, Standbys, Undisturbed, Safe, Held, Copied, Caught, Seen
  <1>7. CASE UNCHANGED <<pg, upstream, ready, flush, run>>
    BY <1>2, <1>3, <1>7 DEF First, OneLeader, Standbys, Undisturbed, Safe, Held, Copied, Caught, Seen, run
  <1> QED
    BY <1>3, <1>4, <1>5, <1>6, <1>7 DEF Expire, Crash

\* The first primary rules, or one that /sync names takes over.
LEMMA FirstStep ==
    ASSUME PatroniSyncAssumption, MaxFaults <= 1, Basic, Basic', KeyHeld, NEW p \in Node, First(p),
           Next \/ UNCHANGED vars, ~unnamed'
    PROVE  First(p)' \/ \E q \in Node : Second(p, q)'
  <1>1. ASSUME NEW n \in Node \ {p}, Cycle(n) \/ Stream(n) \/ Disconnect(n), UNCHANGED faults
        PROVE  First(p)' \/ Second(p, n)'
    BY <1>1, FirstOther
  <1>2. ASSUME NEW n \in Node \ {p} PROVE ~promote(n) /\ ~CancelPromote(n) /\ ~Write(n) /\ ~Ack(n)
    BY DEF promote, CancelPromote, Write, Ack, First, Standbys
  <1>3. ~Stream(p) /\ ~Disconnect(p) /\ ~CancelPromote(p) /\ ~follow(p)
    <2>1. ~follow(p)
      <3>1. key \in Node \union {None}
        BY DEF Basic, Types, StoreTypes
      <3> QED
        BY <3>1 DEF follow, First, Standbys
    <2> QED
      BY <2>1 DEF Stream, Disconnect, CancelPromote, First, Standbys, KeyHeld
  <1>4. CASE UNCHANGED vars
    BY <1>4 DEF vars, dcs, run, postgres, handler, First, OneLeader, Standbys, Undisturbed, Spent, Safe, Held, Copied, Caught, Seen
  <1>5. CASE Cycle(p) /\ UNCHANGED faults
    BY <1>3, <1>5, FirstRuns, FirstInSync, FirstRole DEF Cycle
  <1>6. CASE (promote(p) \/ Write(p) \/ Ack(p)) /\ UNCHANGED faults
    BY <1>6, FirstRole, FirstCommits
  <1> QED
    BY <1>1, <1>2, <1>3, <1>4, <1>5, <1>6, FirstFails DEF Next

-----------------------------------------------------------------------------
(* Synchronous replication: the second leader.                              *)

\* What is safe stays it when logs lose nothing that counts and the leader's own only grows.
LEMMA SafeKept ==
    ASSUME Types, Types', NEW l \in Node, NEW D, Safe(l, D), UNCHANGED sync,
           pg'[l] = pg[l], ready'[l] = ready[l], ssn'[l] = ssn[l], flush'[l] = flush[l], Seen(l)',
           \A r \in Node : D \intersect Range(log[r]) \subseteq Range(log'[r]), IsPrefix(log[l], log'[l])
    PROVE  Safe(l, D)'
  <1>1. sync.members \union ready[l] \subseteq Node /\ ssn[l] \ {Star} \subseteq Node
    BY DEF Types, StoreTypes, SyncKey, HandlerTypes
  <1>2. \A i \in 1 .. Len(log[l]) : i \in 1 .. Len(log'[l]) /\ log'[l][i] = log[l][i]
    <2>1. log[l] \in Seq(Commit) /\ log'[l] \in Seq(Commit)
      BY DEF Types, LogTypes
    <2>2. Len(log[l]) <= Len(log'[l]) /\ Len(log[l]) \in Nat /\ Len(log'[l]) \in Nat /\ \A i \in 1 .. Len(log[l]) : log[l][i] = log'[l][i]
      BY <2>1, PrefixIs
    <2> QED
      BY <2>2
  <1>3. Held(l, D)' /\ Copied(l, D)'
    BY <1>1 DEF Safe, Held, Copied
  <1>4. Caught(l, D)'
    BY <1>1, <1>2 DEF Safe, Caught
  <1> QED
    BY <1>3, <1>4 DEF Safe

\* The second leader: the clients may be told of less and less.
LEMMA SecondFrom ==
    ASSUME NEW p \in Node, NEW q \in Node, NEW D, Successor(q)', Overtaken(p, q)', Followers(p, q)', Safe(q, D)',
           May(p, q)' \subseteq D
    PROVE  Second(p, q)'
  <1>1. Safe(q, May(p, q))'
    BY DEF Safe, Held, Copied, Caught, Seen
  <1> QED
    BY <1>1 DEF Second

\* A node that streams from nothing that runs can be the old primary that is no primary any more.
LEMMA OvertakenReplica ==
    ASSUME Basic, KeyHeld, NEW p \in Node, NEW q \in Node \ {p}, key = q, pg[p] = "replica"
    PROVE  Overtaken(p, q)
  <1>1. pc[p] \notin InSync \union {"enforce"}
    BY DEF Basic, Loop, KeyHeld
  <1> QED
    BY <1>1 DEF Overtaken, InSync

\* The log of a node becomes a prefix of another's, and loses nothing that counts.
LEMMA SecondCopies ==
    ASSUME PatroniSyncAssumption, Basic, Basic', KeyHeld', NEW p \in Node, NEW q \in Node, Second(p, q),
           NEW n \in Node \ {q}, pg[n] = "replica", UNCHANGED <<dcs, run, pg, acked, handler, faults>>,
           NEW s \in Seq(Commit), log' = Set(log, n, s), May(p, q) \intersect Range(log[n]) \subseteq Range(s),
           upstream' = upstream \/ upstream' = Set(upstream, n, upstream'[n]),
           upstream'[n] = q => IsPrefix(s, log[q])
    PROVE  Second(p, q)'
  <1>1. LogTypes /\ PostgresTypes /\ Types /\ Types'
    BY DEF Basic, Types
  <1>2. log'[n] = s /\ \A m \in Node \ {n} : log'[m] = log[m] /\ upstream'[m] = upstream[m]
    BY <1>1 DEF LogTypes, PostgresTypes, Set
  <1>3. Successor(q)'
    BY DEF Second, Successor, dcs, run, Spent
  <1>4. Overtaken(p, q)'
    BY DEF Second, Overtaken, dcs, run, handler
  <1>5. Followers(p, q)'
    BY <1>2 DEF Second, Followers
  <1>6. PICK D : D = May(p, q)
    OBVIOUS
  <1>7. log[q] \in Seq(Commit) /\ IsPrefix(log[q], log'[q])
    BY <1>1, <1>2, PrefixIs DEF LogTypes
  <1>8. Safe(q, D) /\ Seen(q)'
    BY <1>6 DEF Second, Safe, Seen, run, dcs
  <1>9. \A r \in Node : D \intersect Range(log[r]) \subseteq Range(log'[r])
    BY <1>2, <1>6
  <1>10. Safe(q, D)'
    BY <1>1, <1>7, <1>8, <1>9, SafeKept DEF dcs, run, handler
  <1>11. May(p, q)' \subseteq D
    <2>1. p /= n \/ pg[p] /= "primary"
      OBVIOUS
    <2> QED
      BY <1>2, <1>6, <2>1 DEF May
  <1> QED
    BY <1>3, <1>4, <1>5, <1>10, <1>11, SecondFrom

\* Any replica beside the promoted one follows it, or just goes on.
LEMMA SecondReplica ==
    ASSUME PatroniSyncAssumption, Basic, Basic', KeyHeld, KeyHeld', NEW p \in Node, NEW q \in Node, Second(p, q),
           NEW n \in Node \ {q}, pg[n] = "replica", Cycle(n) \/ Stream(n) \/ Disconnect(n), UNCHANGED faults
    PROVE  Second(p, q)'
  <1>1. LogTypes /\ PostgresTypes /\ None \notin Node /\ key = q /\ key' = q /\ Spent' = Spent /\ p /= q
    <2>1. key = q /\ key' = key
      BY DEF Second, Successor, Cycle, Stream, Disconnect, dcs, PatroniSyncAssumption, load_cluster_from_dcs, update_lock, EnableSync,
         process_sync_replication, WriteCommon, Assign, WaitReady, WriteAssigned, update_cluster_history, is_healthiest_node,
         acquire_lock, process_unhealthy_cluster, enforce_primary_role, demote, recover, follow
    <2> QED
      BY <2>1 DEF Basic, Types, PatroniSyncAssumption, Spent, Second, Overtaken
  <1>2. CASE /\ UNCHANGED <<sync, pg, upstream, log, acked, handler>>
             /\ \A m \in Node \ {n} : pc'[m] = pc[m] /\ view'[m] = view[m] /\ fresh'[m] = fresh[m] /\ state'[m] = state[m]
    <2>1. Successor(q)'
      BY <1>1, <1>2 DEF Second, Successor
    <2>2. Overtaken(p, q)'
      <3>1. CASE n = p
        <4>1. pg'[p] = "replica"
          BY <1>2, <3>1
        <4>2. pc'[p] \notin InSync \union {"enforce"}
          BY <1>1, <4>1 DEF Basic, Loop, KeyHeld
        <4> QED
          BY <1>1, <4>1, <4>2 DEF Overtaken, InSync
      <3>2. CASE n /= p
        BY <1>2, <3>2 DEF Second, Overtaken, handler
      <3> QED
        BY <3>1, <3>2
    <2>3. Followers(p, q)' /\ Safe(q, May(p, q))'
      BY <1>2 DEF Second, Followers, Safe, May, Held, Copied, Caught, Seen, handler
    <2> QED
      BY <2>1, <2>2, <2>3 DEF Second
  <1>3. ~(pc[n] = "enforce")
    BY <1>1 DEF KeyHeld
  <1>4. CASE follow(n)
    <2>1. PICK s \in Seq(Commit) :
              /\ key \in Node \ {n} /\ pg[key] = "primary" /\ log' = Set(log, n, s)
              /\ IsPrefix(s, log[key]) /\ Range(log[n]) \intersect Range(log[key]) \subseteq Range(s)
      BY <1>4, FollowIs DEF Basic
    <2>2. UNCHANGED <<dcs, run, pg, acked, handler>> /\ upstream' = Set(upstream, n, q)
      BY <1>1, <1>4 DEF follow
    <2>3. May(p, q) \intersect Range(log[n]) \subseteq Range(s)
      BY <1>1, <2>1 DEF Second, Safe, Held
    <2>4. upstream'[n] = q
      BY <1>1, <2>2 DEF PostgresTypes, Set
    <2> QED
      BY <1>1, <2>1, <2>2, <2>3, <2>4, SecondCopies
  <1>5. CASE Stream(n)
    <2> DEFINE s == SubSeq(log[upstream[n]], 1, Len(log[n]) + 1)
    <2>1. /\ upstream[n] \in Node /\ s \in Seq(Commit) /\ log' = Set(log, n, s) /\ IsPrefix(s, log[upstream[n]]) /\ IsPrefix(log[n], s)
      BY <1>5, StreamIs DEF Basic
    <2> HIDE DEF s
    <2>2. Range(log[n]) \subseteq Range(s)
      BY <1>1, <2>1, PrefixHas DEF LogTypes
    <2>3. UNCHANGED <<dcs, run, pg, acked, handler, upstream>>
      BY <1>5 DEF Stream
    <2> QED
      BY <2>1, <2>2, <2>3, SecondCopies
  <1>6. CASE Disconnect(n)
    <2>1. upstream' = Set(upstream, n, None) /\ UNCHANGED <<dcs, run, pg, log, acked, handler>>
      BY <1>6 DEF Disconnect
    <2>2. log[n] \in Seq(Commit) /\ log' = Set(log, n, log[n]) /\ upstream'[n] = None
      BY <1>1, <2>1 DEF LogTypes, PostgresTypes, Set
    <2> QED
      BY <1>1, <2>1, <2>2, SecondCopies
  <1> QED
    BY <1>2, <1>3, <1>4, <1>5, <1>6, OnlyRuns

\* Writes and acknowledgements of the promoted primary and of the old one.
LEMMA SecondWrites ==
    ASSUME PatroniSyncAssumption, Basic, Basic', NEW p \in Node, NEW q \in Node, Second(p, q), UNCHANGED faults,
           NEW n \in {p, q}, Write(n)
    PROVE  Second(p, q)'
  <1>1. LogTypes /\ Types /\ Types' /\ p /= q /\ n \in Node
    BY DEF Basic, Types, Second, Overtaken
  <1>2. UNCHANGED <<dcs, run, handler, pg, upstream, acked>>
    BY DEF Write
  <1>3. PICK c \in Commit : log' = Set(log, n, Append(log[n], c)) /\ \A m \in Node : c \notin Range(log[m])
    BY DEF Write
  <1>4. log[n] \in Seq(Commit) /\ log'[n] = Append(log[n], c) /\ \A m \in Node \ {n} : log'[m] = log[m]
    BY <1>1, <1>3 DEF LogTypes, Set
  <1>5. /\ log'[n] \in Seq(Commit) /\ IsPrefix(log[n], log'[n]) /\ Range(log'[n]) = Range(log[n]) \union {c}
    BY <1>4, AppendIs
  <1>6. \A m \in Node : log[m] \in Seq(Commit) /\ log'[m] \in Seq(Commit) /\ IsPrefix(log[m], log'[m])
    <2> TAKE m \in Node
    <2>1. CASE m = n
      BY <1>4, <1>5, <2>1
    <2>2. CASE m /= n
      BY <1>1, <1>4, <2>2, PrefixIs DEF LogTypes
    <2> QED
      BY <2>1, <2>2
  <1>7. Successor(q)' /\ Overtaken(p, q)'
    BY <1>2 DEF Second, Successor, Overtaken, dcs, run, handler, Spent
  <1>8. Followers(p, q)'
    <2>1. ASSUME NEW m \in Node, upstream[m] = q, pg[m] = "replica" PROVE IsPrefix(log'[m], log'[q])
      <3>1. pg[n] = "primary"
        BY DEF Write
      <3>2. log'[m] = log[m]
        BY <1>4, <2>1, <3>1
      <3>3. IsPrefix(log[m], log[q])
        BY <2>1 DEF Second, Followers
      <3> QED
        BY <1>6, <2>1, <3>2, <3>3, PrefixOfPrefix
    <2> QED
      BY <1>2, <2>1 DEF Second, Followers
  <1>9. PICK D : D = May(p, q)
    OBVIOUS
  <1>10. Safe(q, D)'
    <2>1. Safe(q, D) /\ Seen(q)'
      BY <1>2, <1>9 DEF Second, Safe, Seen, run, dcs
    <2>2. \A r \in Node : D \intersect Range(log[r]) \subseteq Range(log'[r])
      BY <1>4, <1>5
    <2> QED
      BY <1>1, <1>2, <1>6, <2>1, <2>2, SafeKept DEF dcs, handler
  <1>11. May(p, q)' \subseteq D
    <2>1. Range(log'[p]) \intersect Range(log'[q]) = Range(log[p]) \intersect Range(log[q])
      BY <1>1, <1>3, <1>4, <1>5
    <2> QED
      BY <1>2, <1>9, <2>1 DEF May
  <1> QED
    BY <1>7, <1>8, <1>10, <1>11, SecondFrom

LEMMA SecondAcks ==
    ASSUME PatroniSyncAssumption, Basic, NEW p \in Node, NEW q \in Node, Second(p, q), UNCHANGED faults,
           NEW n \in {p, q}, Ack(n)
    PROVE  Second(p, q)'
  <1>1. HandlerTypes /\ StoreTypes /\ Star \notin Node /\ p /= q /\ n \in Node
    BY DEF Basic, Types, Second, Overtaken, PatroniSyncAssumption
  <1>2. UNCHANGED <<dcs, run, handler, pg, upstream, log>> /\ pg[n] = "primary"
    BY DEF Ack
  <1>3. PICK c \in Range(log[n]) : acked' = acked \union {c} /\ \A r \in ssn[n] \ {Star} : c \in Range(log[r])
    BY DEF Ack
  <1>4. Successor(q)' /\ Overtaken(p, q)' /\ Followers(p, q)'
    BY <1>2 DEF Second, Successor, Overtaken, Followers, dcs, run, handler, Spent
  <1>5. Seen(q)'
    BY <1>2 DEF Second, Safe, Seen, run, dcs
  <1>6. CASE n = p
    <2>1. q \in ssn[p] /\ q /= Star
      BY <1>1, <1>2, <1>6 DEF Second, Overtaken
    <2>2. May(p, q)' = May(p, q)
      BY <1>2, <1>3, <1>6, <2>1 DEF May
    <2>3. Safe(q, May(p, q))'
      BY <1>2, <1>5, <2>2 DEF Second, Safe, Held, Copied, Caught, dcs, handler
    <2> QED
      BY <1>4, <2>3 DEF Second
  <1>7. CASE n = q
    <2>1. May(p, q)' = May(p, q) \union {c}
      BY <1>2, <1>3 DEF May
    <2>2. sync.leader = q
      BY DEF Second, Successor
    <2>3. sync.members \subseteq ssn[q] /\ ready[q] \subseteq ssn[q]
      BY <1>2, <1>7, <2>2 DEF Basic, Published, Loop
    <2>4. Star \notin sync.members \union ready[q]
      BY <1>1 DEF StoreTypes, SyncKey, HandlerTypes
    <2>5. Held(q, May(p, q))' /\ Copied(q, May(p, q))' /\ Caught(q, May(p, q))'
      BY <1>2, <1>3, <1>7, <2>1, <2>3, <2>4 DEF Second, Safe, Held, Copied, Caught, dcs, handler
    <2> QED
      BY <1>4, <1>5, <2>5 DEF Second, Safe
  <1> QED
    BY <1>6, <1>7

\* The run of the promoted node, as a primary that has the lock.
LEMMA SecondSelf ==
    ASSUME PatroniSyncAssumption, Basic, Basic', KeyHeld, NEW p \in Node, NEW q \in Node, Second(p, q), UNCHANGED faults,
           Cycle(q) \/ promote(q) \/ CancelPromote(q) \/ Stream(q) \/ Disconnect(q)
    PROVE  Second(p, q)'
  <1>1. RunTypes /\ PostgresTypes /\ Spent' = Spent /\ None \notin Node /\ p /= q /\ Types /\ Types' /\ LogTypes
    BY DEF Basic, Types, Spent, PatroniSyncAssumption, Second, Overtaken
  <1>2. /\ key = q /\ sync.leader = q /\ pg[q] \in {"promoting", "primary"}
        /\ pc[q] \notin {"acquire", "reload", "demote"} /\ (pc[q] = "loaded" => view[q].leader = q)
    BY DEF Second, Successor
  <1>3. ~is_healthiest_node(q) /\ ~acquire_lock(q) /\ ~process_unhealthy_cluster(q) /\ ~demote(q) /\ ~recover(q) /\ ~follow(q)
        /\ ~CancelPromote(q) /\ ~Stream(q) /\ ~Disconnect(q)
    BY <1>1, <1>2 DEF is_healthiest_node, acquire_lock, process_unhealthy_cluster, demote, recover, follow, CancelPromote, Stream,
                Disconnect
  <1>4. ASSUME UNCHANGED <<key, pg, upstream, log, acked>>, \A n \in Node \ {q} : pc'[n] = pc[n],
               \A n \in Node \ {q} : pc[n] \in InSync \union {"enforce"} /\ ~fresh[n] => ~fresh'[n],
               \A n \in Node \ {q} : view'[n] = view[n] /\ state'[n] = state[n] /\ ssn'[n] = ssn[n],
               pc'[q] \notin {"acquire", "reload", "demote"}, pc'[q] = "loaded" => view'[q].leader = q,
               sync'.leader = q, Safe(q, May(p, q))'
        PROVE  Second(p, q)'
    <2>1. Successor(q)'
      BY <1>1, <1>2, <1>4 DEF Second, Successor
    <2>2. Overtaken(p, q)' /\ Followers(p, q)'
      BY <1>1, <1>4 DEF Second, Overtaken, Followers
    <2> QED
      BY <1>4, <2>1, <2>2 DEF Second
  <1>5. ASSUME load_cluster_from_dcs(q) \/ update_lock(q) \/ enforce_primary_role(q) PROVE Second(p, q)'
    <2>1. /\ UNCHANGED <<sync, key, pg, upstream, log, acked, handler>>
          /\ \A n \in Node \ {q} : pc'[n] = pc[n] /\ fresh'[n] = fresh[n] /\ view'[n] = view[n] /\ state'[n] = state[n]
          /\ pc'[q] \notin {"acquire", "reload", "demote", "sleep", "done"}
          /\ pc'[q] = "loaded" => view'[q].leader = q
          /\ view'[q].sync = sync'
      <3>1. CASE load_cluster_from_dcs(q)
        BY <1>1, <1>2, <3>1 DEF load_cluster_from_dcs, LoadView, Set, RunTypes, dcs, postgres
      <3>2. CASE update_lock(q)
        BY <1>1, <1>2, <3>2 DEF update_lock, Goto, Set, RunTypes, dcs, postgres, Second, Safe, Seen
      <3>3. CASE enforce_primary_role(q)
        <4>1. pc[q] = "enforce" /\ pg[q] = "primary"
          BY <1>1, <1>2, <3>3 DEF enforce_primary_role, Basic, Loop
        <4>2. Goto(q, "process") /\ UNCHANGED <<key, sync, pg, handler, upstream, log, acked>>
          BY <3>3, <4>1 DEF enforce_primary_role
        <4> QED
          BY <1>1, <1>2, <4>1, <4>2 DEF Goto, Set, RunTypes, Second, Safe, Seen
      <3> QED
        BY <1>5, <3>1, <3>2, <3>3
    <2>2. Safe(q, May(p, q))'
      BY <2>1 DEF Second, May, Safe, Held, Copied, Caught, Seen, handler
    <2> QED
      BY <1>2, <1>4, <2>1, <2>2 DEF handler
  <1>6. ASSUME EnableSync(q) \/ process_sync_replication(q) \/ WriteCommon(q) \/ Assign(q) \/ WaitReady(q) \/ WriteAssigned(q)
               \/ update_cluster_history(q)
        PROVE  Second(p, q)'
    <2>1. /\ UNCHANGED <<key, pg, upstream, log, acked>>
          /\ \A n \in Node \ {q} : pc'[n] = pc[n] /\ view'[n] = view[n] /\ state'[n] = state[n]
          /\ pc'[q] \notin {"loaded", "acquire", "reload", "demote"}
      BY <1>1, <1>6 DEF EnableSync, process_sync_replication, WriteCommon, Assign, WaitReady, WriteAssigned, update_cluster_history,
                  current_state, Saw, Sleep, Goto, Set, RunTypes, dcs, postgres
    <2>2. \A n \in Node \ {q} : ~fresh[n] => ~fresh'[n]
      BY <1>1, <1>6 DEF EnableSync, process_sync_replication, WriteCommon, Assign, WaitReady, WriteAssigned, update_cluster_history,
                  Saw, Versions, Sleep, Goto, Set, RunTypes
    <2>3. \A n \in Node \ {q} : ssn'[n] = ssn[n]
      BY <1>1, <1>6 DEF EnableSync, process_sync_replication, WriteCommon, Assign, WaitReady, WriteAssigned, update_cluster_history,
                  set_synchronous_standby_names, Set, handler, Types, HandlerTypes
    <2>4. PICK D : D = May(p, q)
      OBVIOUS
    <2>5. \A n \in Node : upstream[n] = q /\ pg[n] = "replica" => IsPrefix(log[n], log[q])
      BY DEF Second, Followers
    <2>6. Safe(q, D)' /\ (sync' = sync \/ sync'.leader = q)
      BY <1>6, <2>4, <2>5, SafeInSync DEF Second
    <2>7. May(p, q)' = D
      BY <2>1, <2>4 DEF May
    <2>8. Safe(q, May(p, q))'
      BY <2>6, <2>7
    <2> QED
      BY <1>2, <1>4, <2>1, <2>2, <2>3, <2>6, <2>8
  <1>7. CASE promote(q)
    <2>1. /\ pg'[q] = "primary" /\ upstream'[q] = None /\ pg[q] = "promoting" /\ UNCHANGED <<dcs, run, log, acked, handler>>
          /\ \A n \in Node \ {q} : pg'[n] = pg[n] /\ upstream'[n] = upstream[n]
      BY <1>1, <1>7 DEF promote, Set, PostgresTypes
    <2>2. Successor(q)' /\ Overtaken(p, q)' /\ Followers(p, q)'
      BY <1>1, <2>1 DEF Second, Successor, Overtaken, Followers, dcs, run, handler
    <2>3. ssn[q] \subseteq {Star}
      BY <2>1 DEF Basic, Loop
    <2>4. Safe(q, May(p, q))'
      BY <1>1, <2>1, <2>3 DEF Second, Safe, May, Held, Copied, Caught, Seen, dcs, run, handler
    <2> QED
      BY <2>2, <2>4 DEF Second
  <1> QED
    BY <1>3, <1>5, <1>6, <1>7 DEF Cycle

\* The old primary writes nothing to the store, and names the promoted node until it demotes.
LEMMA SecondOld ==
    ASSUME PatroniSyncAssumption, Basic, Basic', KeyHeld, NEW p \in Node, NEW q \in Node, Second(p, q), UNCHANGED faults,
           pg[p] /= "replica",
           Cycle(p) \/ promote(p) \/ CancelPromote(p) \/ Stream(p) \/ Disconnect(p)
    PROVE  Second(p, q)'
  <1>1. RunTypes /\ PostgresTypes /\ HandlerTypes /\ Spent' = Spent /\ None \notin Node /\ p /= q /\ Star \notin Node
    BY DEF Basic, Types, Spent, PatroniSyncAssumption, Second, Overtaken
  <1>2. /\ key = q /\ pg[p] \in {"primary", "stopped"} /\ upstream[p] = None
        /\ pg[p] = "primary" => q \in ssn[p]
        /\ pc[p] = "assign" => q \in state[p].picked
        /\ pc[p] \in {"enforce", "process"} => q \in view[p].sync.members
        /\ pc[p] \in InSync \union {"enforce"} => ~fresh[p]
    BY DEF Second, Successor, Overtaken, Basic, Loop
  <1>3. ~process_unhealthy_cluster(p) /\ ~follow(p) /\ ~promote(p) /\ ~CancelPromote(p) /\ ~Stream(p) /\ ~Disconnect(p)
    BY <1>1, <1>2 DEF process_unhealthy_cluster, follow, promote, CancelPromote, Stream, Disconnect, KeyHeld
  <1>4. ASSUME UNCHANGED <<sync, key, upstream, log, acked>>,
               \A n \in Node \ {p} : pc'[n] = pc[n] /\ view'[n] = view[n] /\ pg'[n] = pg[n] /\ ready'[n] = ready[n] /\ ssn'[n] = ssn[n]
                                     /\ flush'[n] = flush[n],
               pg'[p] = pg[p] \/ pg'[p] = "replica",
               Overtaken(p, q)'
        PROVE  Second(p, q)'
    <2>1. Successor(q)'
      BY <1>1, <1>4 DEF Second, Successor
    <2>2. Followers(p, q)'
      BY <1>1, <1>2, <1>4 DEF Second, Followers
    <2>3. PICK D : D = May(p, q)
      OBVIOUS
    <2>4. Safe(q, D)'
      BY <1>1, <1>4, <2>3 DEF Second, Safe, Held, Copied, Caught, Seen
    <2>5. May(p, q)' \subseteq D
      BY <1>4, <2>3 DEF May
    <2> QED
      BY <1>4, <2>1, <2>2, <2>4, <2>5, SecondFrom
  <1>5. CASE load_cluster_from_dcs(p) \/ update_lock(p) \/ is_healthiest_node(p) \/ acquire_lock(p)
    <2>1. /\ UNCHANGED <<sync, key, pg, upstream, log, acked, handler>>
          /\ \A n \in Node \ {p} : pc'[n] = pc[n] /\ view'[n] = view[n]
      BY <1>1, <1>2, <1>5 DEF load_cluster_from_dcs, update_lock, is_healthiest_node, acquire_lock, LoadView, Goto, Lose, Sleep, Set,
                  RunTypes, dcs, postgres
    <2>2. pc'[p] \in {"sleep", "loaded", "acquire", "demote"}
      BY <1>1, <1>2, <1>5 DEF load_cluster_from_dcs, update_lock, is_healthiest_node, acquire_lock, LoadView, Goto, Lose, Sleep, Set,
                  RunTypes
    <2>3. Overtaken(p, q)'
      BY <1>1, <1>2, <2>1, <2>2 DEF Overtaken, InSync, handler
    <2> QED
      BY <1>4, <2>1, <2>3 DEF handler
  <1>6. CASE enforce_primary_role(p)
    <2>1. pc[p] = "enforce" /\ pg[p] = "primary"
      BY <1>1, <1>2, <1>6 DEF enforce_primary_role, Basic, Loop
    <2>2. Goto(p, "process") /\ UNCHANGED <<key, sync, pg, handler, upstream, log, acked>>
      BY <1>6, <2>1 DEF enforce_primary_role
    <2>3. pc' = Set(pc, p, "process") /\ UNCHANGED <<view, fresh, state>> /\ pc'[p] = "process"
      BY <1>1, <2>2 DEF Goto, Set, RunTypes
    <2>4. Overtaken(p, q)'
      BY <1>1, <1>2, <2>1, <2>2, <2>3 DEF Overtaken, InSync, handler
    <2>5. \A n \in Node \ {p} : pc'[n] = pc[n]
      BY <1>1, <2>3 DEF Set, RunTypes
    <2> QED
      BY <1>4, <2>2, <2>3, <2>4, <2>5 DEF handler
  <1>7. CASE demote(p)
    <2>1. /\ UNCHANGED <<sync, key, upstream, log, acked>> /\ pg'[p] = "replica" /\ pc'[p] = "sleep"
          /\ \A n \in Node \ {p} : pc'[n] = pc[n] /\ view'[n] = view[n] /\ pg'[n] = pg[n] /\ ready'[n] = ready[n] /\ ssn'[n] = ssn[n]
                                   /\ flush'[n] = flush[n]
      BY <1>1, <1>7 DEF demote, Sleep, Set, RunTypes, PostgresTypes, HandlerTypes, dcs
    <2>2. Overtaken(p, q)'
      BY <1>1, <2>1 DEF Overtaken, InSync
    <2> QED
      BY <1>4, <2>1, <2>2
  <1>8. CASE recover(p)
    <2>1. pg[p] = "stopped" /\ pc[p] = "sleep"
      BY <1>2, <1>8 DEF recover
    <2>2. /\ UNCHANGED <<sync, key, upstream, log, acked, run>> /\ pg'[p] = "replica"
          /\ \A n \in Node \ {p} : pg'[n] = pg[n] /\ ready'[n] = ready[n] /\ ssn'[n] = ssn[n] /\ flush'[n] = flush[n]
      BY <1>1, <1>8, <2>1 DEF recover, Set, PostgresTypes, HandlerTypes, dcs
    <2>3. Overtaken(p, q)'
      BY <1>1, <2>1, <2>2 DEF Overtaken, InSync, run
    <2> QED
      BY <1>4, <2>2, <2>3 DEF run
  <1>9. ASSUME EnableSync(p) \/ process_sync_replication(p) \/ WriteCommon(p) \/ Assign(p) \/ WaitReady(p) \/ WriteAssigned(p)
               \/ update_cluster_history(p)
        PROVE  Second(p, q)'
    <2>1. ~fresh[p] \/ update_cluster_history(p)
      BY <1>2, <1>9 DEF EnableSync, process_sync_replication, WriteCommon, Assign, WaitReady, WriteAssigned, InSync
    <2>2. /\ UNCHANGED <<sync, key, pg, upstream, log, acked>>
          /\ \A n \in Node \ {p} : pc'[n] = pc[n] /\ view'[n] = view[n]
      BY <1>1, <1>9, <2>1 DEF EnableSync, process_sync_replication, WriteCommon, Assign, WaitReady, WriteAssigned,
                  update_cluster_history, write_sync_state, Refused, Saw, Sleep, Goto, Set, RunTypes, dcs, postgres
    <2>3. \A n \in Node \ {p} : ready'[n] = ready[n] /\ ssn'[n] = ssn[n] /\ flush'[n] = flush[n]
      BY <1>1, <1>9 DEF EnableSync, process_sync_replication, WriteCommon, Assign, WaitReady, WriteAssigned, current_state,
                  update_cluster_history, set_synchronous_standby_names, Set, HandlerTypes, handler
    <2>4. Overtaken(p, q)'
      <3>1. CASE EnableSync(p)
        <4>1. Sleep(p) /\ UNCHANGED <<handler>>
          BY <2>1, <3>1 DEF EnableSync, write_sync_state, update_cluster_history
        <4>2. pc'[p] = "sleep"
          BY <1>1, <4>1 DEF Sleep, Set, RunTypes
        <4> QED
          BY <1>1, <1>2, <2>2, <4>1, <4>2 DEF Overtaken, InSync, handler
      <3>2. CASE process_sync_replication(p)
        <4>1. PICK now, s : CurrentStateIs(p, now, s)
          BY <3>2, CurrentState DEF process_sync_replication, Basic
        <4>2. pc[p] = "process" /\ q \in Members(p) /\ state'[p] = s
          BY <1>1, <1>2, <3>2, <4>1 DEF process_sync_replication, Members, CurrentStateIs, Set, RunTypes
        <4>3. pc'[p] \in {"done", "temporary", "assign"} /\ (pc'[p] = "assign" => Members(p) \subseteq s.allow)
          BY <1>1, <3>2, <4>2 DEF process_sync_replication, Set, RunTypes
        <4>4. s.allow \subseteq s.picked
          BY <4>1 DEF CurrentStateIs
        <4>5. UNCHANGED <<fresh, ssn, pg>>
          BY <3>2 DEF process_sync_replication, postgres
        <4> QED
          BY <1>1, <1>2, <4>2, <4>3, <4>4, <4>5 DEF Overtaken, InSync
      <3>3. CASE WriteCommon(p)
        <4>1. Goto(p, "done") /\ UNCHANGED <<handler>>
          BY <2>1, <3>3 DEF WriteCommon, write_sync_state, update_cluster_history
        <4>2. pc'[p] = "done"
          BY <1>1, <4>1 DEF Goto, Set, RunTypes
        <4> QED
          BY <1>1, <1>2, <2>2, <4>1, <4>2 DEF Overtaken, InSync, handler
      <3>4. CASE Assign(p)
        <4>1. /\ pc[p] = "assign" /\ q \in state[p].picked /\ UNCHANGED <<fresh, pg>> /\ pc'[p] \in {"wait", "publish"}
          BY <1>1, <1>2, <3>4 DEF Assign, Goto, Set, RunTypes, postgres
        <4>2. set_synchronous_standby_names(p, state[p].picked)
          BY <3>4, <4>1 DEF Assign
        <4>3. ssn'[p] = state[p].picked
          BY <1>1, <4>2 DEF set_synchronous_standby_names, Set, HandlerTypes
        <4> QED
          BY <1>1, <1>2, <4>1, <4>3 DEF Overtaken, InSync
      <3>5. CASE WaitReady(p)
        <4>1. pc[p] = "wait" /\ pc'[p] = "publish" /\ UNCHANGED <<fresh, ssn, pg>>
          BY <1>1, <3>5 DEF WaitReady, Set, RunTypes, postgres
        <4> QED
          BY <1>1, <1>2, <4>1 DEF Overtaken, InSync
      <3>6. CASE WriteAssigned(p) \/ update_cluster_history(p)
        <4>1. pc'[p] \in {"done", "sleep"} /\ UNCHANGED <<handler, pg>>
          BY <1>1, <3>6 DEF WriteAssigned, update_cluster_history, Sleep, Set, RunTypes, postgres
        <4> QED
          BY <1>1, <1>2, <4>1 DEF Overtaken, InSync, handler
      <3> QED
        BY <1>9, <3>1, <3>2, <3>3, <3>4, <3>5, <3>6
    <2> QED
      BY <1>4, <2>2, <2>3, <2>4
  <1> QED
    BY <1>3, <1>5, <1>6, <1>7, <1>8, <1>9 DEF Cycle

\* No step takes the role from the second leader.
LEMMA SecondStep ==
    ASSUME PatroniSyncAssumption, Basic, Basic', KeyHeld, KeyHeld', NEW p \in Node, NEW q \in Node, Second(p, q),
           Next \/ UNCHANGED vars
    PROVE  Second(p, q)'
  <1>1. faults \in Nat /\ MaxFaults \in Nat /\ Spent /\ p /= q
    BY DEF Basic, Types, PostgresTypes, PatroniSyncAssumption, Second, Successor, Overtaken
  <1>2. ~Fault
    BY <1>1 DEF Fault, Spent
  <1>3. ASSUME NEW n \in Node \ {q}, pg[n] = "replica" PROVE ~promote(n) /\ ~CancelPromote(n) /\ ~Write(n) /\ ~Ack(n)
    BY <1>3 DEF promote, CancelPromote, Write, Ack
  <1>4. \A n \in Node : pg[n] = "replica" \/ n \in {p, q}
    BY DEF Second, Followers
  <1>5. CASE UNCHANGED vars
    <2>1. UNCHANGED <<dcs, run, postgres, handler, faults>>
      BY <1>5 DEF vars
    <2> QED
      BY <2>1 DEF dcs, run, postgres, handler, Second, Successor, Overtaken, Followers, Spent, Safe, May, Held, Copied, Caught, Seen
  <1>6. ASSUME NEW n \in Node, Cycle(n) \/ promote(n) \/ CancelPromote(n) \/ Stream(n) \/ Disconnect(n), UNCHANGED faults
        PROVE  Second(p, q)'
    <2>1. CASE n = q
      BY <1>6, <2>1, SecondSelf
    <2>2. CASE n /= q /\ pg[n] = "replica"
      BY <1>3, <1>6, <2>2, SecondReplica
    <2>3. CASE n = p /\ pg[n] /= "replica"
      BY <1>6, <2>3, SecondOld
    <2> QED
      BY <1>4, <2>1, <2>2, <2>3
  <1>7. ASSUME NEW n \in Node, Write(n) \/ Ack(n), UNCHANGED faults
        PROVE  Second(p, q)'
    <2>1. n \in {p, q}
      BY <1>4, <1>7 DEF Write, Ack
    <2> QED
      BY <1>7, <2>1, SecondWrites, SecondAcks
  <1> QED
    BY <1>2, <1>5, <1>6, <1>7 DEF Next, PostgresCrashes, Crash, Expire

-----------------------------------------------------------------------------
(* Synchronous replication: the theorems.                                   *)

LEMMA InitIInv ==
    ASSUME PatroniSyncAssumption, Init
    PROVE  IInv
  <1>1. PICK p \in Node :
            /\ key = p /\ sync = NoSync /\ history = 1
            /\ fresh = [n \in Node |-> FALSE]
            /\ pc = [n \in Node |-> "sleep"]
            /\ view = [n \in Node |-> NoView]
            /\ state = [n \in Node |-> NoState]
            /\ pg = [n \in Node |-> IF n = p THEN "primary" ELSE "replica"]
            /\ tl = [n \in Node |-> 1]
            /\ upstream = [n \in Node |-> IF n = p THEN None ELSE p]
            /\ log = [n \in Node |-> <<>>]
            /\ acked = {} /\ unnamed = FALSE /\ faults = 0
            /\ ssn = [n \in Node |-> {}]
            /\ ready = [n \in Node |-> {}]
            /\ flush = [n \in Node |-> 0]
    BY DEF Init
  <1>2. NoView \in View /\ NoSync \in SyncKey /\ NoState \in [picked : SUBSET Node, allow : SUBSET Node] /\ "sleep" \in Steps
    BY DEF NoView, NoSync, NoState, View, SyncKey, Steps
  <1>3. StoreTypes /\ RunTypes /\ PostgresTypes /\ HandlerTypes
    BY <1>1, <1>2 DEF StoreTypes, RunTypes, PostgresTypes, HandlerTypes
  <1>4. LogTypes /\ Matching
    BY <1>1 DEF LogTypes, Matching
  <1>5. NamesNobody /\ (\A n \in Node : Loop(n)) /\ (\A n \in Node : Published(n))
    BY <1>1 DEF NamesNobody, Loop, Published, NoSync, InSync, PatroniSyncAssumption
  <1>6. KeyHeld
    BY <1>1 DEF KeyHeld, PatroniSyncAssumption
  <1>7. OneLeader(p) /\ Undisturbed(p) /\ Safe(p, acked)
    BY <1>1 DEF OneLeader, NoSync, Undisturbed, Safe, Held, Copied, Caught, Seen
  <1>8. Standbys(p)
    <2>1. <<>> \in Seq(Commit) /\ Len(<<>>) = 0
      OBVIOUS
    <2>2. IsPrefix(<<>>, <<>>)
      <3>1. <<>> \in Seq(Commit) /\ Len(<<>>) <= Len(<<>>) /\ \A i \in 1 .. Len(<<>>) : <<>>[i] = <<>>[i]
        BY <2>1
      <3> QED
        BY <3>1, PrefixIs
    <2> QED
      BY <1>1, <2>2 DEF Standbys
  <1> QED
    BY <1>3, <1>4, <1>5, <1>6, <1>7, <1>8 DEF IInv, Basic, Types, First

\* A node that took the role unnamed stays in the history.
LEMMA UnnamedStays ==
    ASSUME Basic, Next \/ UNCHANGED vars, unnamed
    PROVE  unnamed'
  <1> USE DEF postgres
  <1>1. ASSUME NEW n \in Node, Cycle(n) PROVE unnamed'
    BY <1>1 DEF Cycle, load_cluster_from_dcs, update_lock, EnableSync, process_sync_replication, WriteCommon, Assign, WaitReady,
       WriteAssigned, update_cluster_history, is_healthiest_node, acquire_lock, process_unhealthy_cluster, enforce_primary_role,
       demote, recover, follow
  <1>2. ASSUME NEW n \in Node,
               promote(n) \/ CancelPromote(n) \/ Write(n) \/ Ack(n) \/ Stream(n) \/ Disconnect(n) \/ PostgresCrashes(n) \/ Crash(n)
        PROVE  unnamed'
    BY <1>2 DEF promote, CancelPromote, Write, Ack, Stream, Disconnect, PostgresCrashes, Crash
  <1>3. CASE Expire
    BY <1>3 DEF Expire
  <1>4. CASE UNCHANGED vars
    BY <1>4 DEF vars
  <1> QED
    BY <1>1, <1>2, <1>3, <1>4 DEF Next

\* The inductive step.
LEMMA IInvStep ==
    ASSUME PatroniSyncAssumption, MaxFaults <= 1, IInv, Next \/ UNCHANGED vars
    PROVE  IInv'
  <1>1. Basic /\ Basic'
    BY BasicStep DEF IInv
  <1>2. CASE unnamed'
    BY <1>1, <1>2 DEF IInv
  <1>3. CASE ~unnamed'
    <2>1. ~unnamed
      BY <1>1, <1>3, UnnamedStays
    <2>2. KeyHeld /\ ((\E p \in Node : First(p)) \/ \E p, q \in Node : Second(p, q))
      BY <2>1 DEF IInv
    <2>3. Spent \/ \E p \in Node : Standbys(p) /\ Undisturbed(p)
      BY <2>2 DEF First, Second, Successor
    <2>4. KeyHeld'
      BY <1>1, <2>2, <2>3, KeyHeldStep
    <2>5. CASE \E p \in Node : First(p)
      <3>1. PICK p \in Node : First(p)
        BY <2>5
      <3>2. First(p)' \/ \E q \in Node : Second(p, q)'
        BY <1>1, <1>3, <2>2, <3>1, FirstStep
      <3>3. (\E x \in Node : First(x))' \/ (\E x, q \in Node : Second(x, q))'
        BY <3>2
      <3> QED
        BY <1>1, <2>4, <3>3 DEF IInv
    <2>6. CASE \E p, q \in Node : Second(p, q)
      <3>1. PICK p \in Node, q \in Node : Second(p, q)
        BY <2>6
      <3>2. Second(p, q)'
        BY <1>1, <2>2, <2>4, <3>1, SecondStep
      <3>3. (\E x, y \in Node : Second(x, y))'
        BY <3>2
      <3> QED
        BY <1>1, <2>4, <3>3 DEF IInv
    <2> QED
      BY <2>2, <2>5, <2>6
  <1> QED
    BY <1>2, <1>3

\* The invariant implies the property.
LEMMA BasicIsSafe ==
    ASSUME PatroniSyncAssumption, Basic
    PROVE  TypeOK /\ PublishedIsSet
  <1>1. TypeOK
    BY DEF Basic, Types, StoreTypes, PostgresTypes, HandlerTypes, SyncKey, Loop, TypeOK
  <1>2. PublishedIsSet
    BY DEF Basic, Types, StoreTypes, SyncKey, Published, PublishedIsSet
  <1> QED
    BY <1>1, <1>2

LEMMA IInvIsSafe ==
    ASSUME PatroniSyncAssumption, IInv
    PROVE  SyncSafe
  <1>1. Basic
    BY DEF IInv
  <1>2. sync \in SyncKey /\ HandlerTypes
    BY <1>1 DEF Basic, Types, StoreTypes
  <1>3. ASSUME ~unnamed PROVE AckedSafe
    <2>1. CASE \E p \in Node : First(p)
      <3>1. PICK p \in Node : First(p)
        BY <2>1
      <3>2. sync.leader \in {None, p} /\ (sync.leader = None => sync.members = {})
        BY <1>1, <3>1 DEF First, OneLeader, Basic, NamesNobody
      <3> QED
        BY <3>1, <3>2 DEF First, Safe, Held, Copied, AckedSafe, MayPromote
    <2>2. CASE \E p, q \in Node : Second(p, q)
      <3>1. PICK p \in Node, q \in Node : Second(p, q)
        BY <2>2
      <3>2. sync.leader = q /\ acked \subseteq May(p, q)
        BY <3>1 DEF Second, Successor, May
      <3> QED
        BY <3>1, <3>2 DEF Second, Safe, Held, Copied, AckedSafe, MayPromote
    <2> QED
      BY <1>3, <2>1, <2>2 DEF IInv
  <1>4. LossNeedsUnnamed
    BY <1>1, <1>3 DEF LossNeedsUnnamed, Basic, Types, PostgresTypes
  <1> QED
    BY <1>1, <1>4, BasicIsSafe DEF SyncSafe

\* Whoever owns /sync names nobody there whom its synchronous_standby_names does not
\* name, for any nodes, commits and number of faults (process_sync_replication, which
\* takes a standby out of /sync before, and puts it in after, it changes the setting).
THEOREM SyncIsPublished ==
    ASSUME PatroniSyncAssumption
    PROVE  Spec => [](TypeOK /\ PublishedIsSet)
  <1>1. Init => Basic
    BY InitIInv DEF IInv
  <1>2. Basic /\ [Next]_vars => Basic'
    BY BasicStep
  <1>3. Basic => TypeOK /\ PublishedIsSet
    BY BasicIsSafe
  <1> QED
    BY <1>1, <1>2, <1>3, PTL DEF Spec

\* With one crash or expiration, nothing that a client was told of is lost unless a
\* node took the role that /sync did not name, for any nodes and commits, strict or
\* not, with or without a watchdog (SyncHandler, sync_allows, promote).
THEOREM SyncIsSafe ==
    ASSUME PatroniSyncAssumption, MaxFaults <= 1
    PROVE  Spec => []SyncSafe
  <1>1. Init => IInv
    BY InitIInv
  <1>2. IInv /\ [Next]_vars => IInv'
    BY IInvStep
  <1>3. IInv => SyncSafe
    BY IInvIsSafe
  <1> QED
    BY <1>1, <1>2, <1>3, PTL DEF Spec

-----------------------------------------------------------------------------
(* The postmaster: stopping a postmaster.                                   *)

\* A postmaster has its file, backends without one are orphans, and a process that
\* took its pid soon after the start has been noted.
Processes ==
    /\ pm /= "none" => pidfile
    /\ pm \in {"none", "shut_down"} => backends = {} \/ orphaned
    /\ holder = "near" => near

\* The steps in which there is a process to stop.
InStop == {"signal", "connection", "list", "backends", "shutdown", "end", "abort", "aborted", "kill", "forever"}

\* What a stop has found out when it gets to each of its steps.
Stopped ==
    /\ stop_pc \in InStop => proc \in {"postmaster", "near"} /\ (holder = "postmaster" => proc = "postmaster")
    /\ stop_pc \in {"list", "backends"} => pm /= "up" \/ late
    /\ stop_pc = "backends" => backends \subseteq listed \/ late
    /\ stop_pc = "stopped" => pm = "none"

\* What start told the new postmaster about the pid in the file is still so, but
\* for a pid that has been reused since.
Launched == stop_pc = "launch" /\ ~told => ~pidfile \/ holder = "none" \/ reused

\* A stop that failed could not signal Postgres.
Failed == stop_pc = "failed" => unsignaled

PostmasterIInv == PostmasterSafe /\ Processes /\ Stopped /\ Failed /\ Launched

USE DEF PostmasterIInv, PostmasterSafe

LEMMA ConnectsKeeps ==
  ASSUME PostmasterIInv, Connects
  PROVE  PostmasterIInv'
  <1> USE DEF Connects, Os, stopping, NoFault, wrong
  <1>1. PostmasterTypeOK'
    BY DEF PostmasterTypeOK
  <1>2. Processes' /\ Stopped' /\ Failed' /\ Launched' /\ WatchdogUntilSafe' /\ KeyUntilStopped' /\ StalePidfile'
    BY DEF Processes, Stopped, Failed, Launched, WatchdogUntilSafe, KeyUntilStopped, StalePidfile, CannotCommit
  <1> QED BY <1>1, <1>2

LEMMA BackendEndsKeeps ==
  ASSUME PostmasterIInv, BackendEnds
  PROVE  PostmasterIInv'
  <1> USE DEF BackendEnds, Os, stopping, NoFault, wrong
  <1>1. PostmasterTypeOK'
    BY DEF PostmasterTypeOK
  <1>2. Processes'
    BY DEF Processes
  <1>3. Stopped'
    BY DEF Stopped
  <1>4. Failed' /\ Launched' /\ WatchdogUntilSafe' /\ KeyUntilStopped' /\ StalePidfile'
    BY DEF Failed, Launched, WatchdogUntilSafe, KeyUntilStopped, StalePidfile, CannotCommit
  <1> QED BY <1>1, <1>2, <1>3, <1>4

LEMMA TakesSignalKeeps ==
  ASSUME PostmasterIInv, TakesSignal
  PROVE  PostmasterIInv'
  <1> USE DEF TakesSignal, Os, stopping, NoFault, wrong
  <1>1. PostmasterTypeOK'
    BY DEF PostmasterTypeOK
  <1>2. Processes' /\ Stopped' /\ Failed' /\ Launched' /\ WatchdogUntilSafe' /\ KeyUntilStopped' /\ StalePidfile'
    BY DEF Processes, Stopped, Failed, Launched, WatchdogUntilSafe, KeyUntilStopped, StalePidfile, CannotCommit
  <1> QED BY <1>1, <1>2

LEMMA ShutDownKeeps ==
  ASSUME PostmasterIInv, ShutDown
  PROVE  PostmasterIInv'
  <1> USE DEF ShutDown, Os, stopping, NoFault, wrong
  <1>1. PostmasterTypeOK'
    BY DEF PostmasterTypeOK
  <1>2. Processes'
    BY DEF Processes
  <1>3. Stopped' /\ Failed' /\ Launched' /\ WatchdogUntilSafe' /\ KeyUntilStopped' /\ StalePidfile'
    BY DEF Stopped, Failed, Launched, WatchdogUntilSafe, KeyUntilStopped, StalePidfile, CannotCommit
  <1> QED BY <1>1, <1>2, <1>3

LEMMA ExitKeeps ==
  ASSUME PostmasterIInv, Exit
  PROVE  PostmasterIInv'
  <1> USE DEF Exit, Os, stopping, NoFault, wrong
  <1>1. PostmasterTypeOK'
    <2>1. pidfile' \in BOOLEAN /\ primary' \in BOOLEAN /\ timeout' \in BOOLEAN /\ told' \in BOOLEAN
      BY DEF PostmasterTypeOK
    <2> QED BY <2>1 DEF PostmasterTypeOK
  <1>2. Processes'
    BY DEF Processes, PostmasterTypeOK
  <1>3. Stopped'
    BY DEF Stopped
  <1>4. Launched'
    BY DEF Launched
  <1>5. Failed' /\ WatchdogUntilSafe' /\ KeyUntilStopped' /\ StalePidfile'
    BY DEF Failed, WatchdogUntilSafe, KeyUntilStopped, StalePidfile, CannotCommit
  <1> QED BY <1>1, <1>2, <1>3, <1>4, <1>5

LEMMA DiesKeeps ==
  ASSUME PostmasterIInv, Dies
  PROVE  PostmasterIInv'
  <1> USE DEF Dies, Os, stopping, MayFail, wrong
  <1>1. PostmasterTypeOK'
    BY DEF PostmasterTypeOK
  <1>2. Processes'
    BY DEF Processes
  <1>3. Stopped'
    BY DEF Stopped
  <1>4. Launched'
    BY DEF Launched
  <1>5. Failed' /\ WatchdogUntilSafe' /\ KeyUntilStopped' /\ StalePidfile'
    BY DEF Failed, WatchdogUntilSafe, KeyUntilStopped, StalePidfile, CannotCommit
  <1> QED BY <1>1, <1>2, <1>3, <1>4, <1>5

LEMMA PidReusedKeeps ==
  ASSUME PostmasterIInv, PidReused
  PROVE  PostmasterIInv'
  <1> USE DEF PidReused, Os, stopping, MayFail, wrong
  <1>1. PostmasterTypeOK'
    BY DEF PostmasterTypeOK
  <1>2. Processes'
    BY DEF Processes, PostmasterTypeOK
  <1>3. Stopped'
    BY DEF Stopped
  <1>4. Launched'
    BY DEF Launched
  <1>5. StalePidfile'
    <2>1. reused => reused'
      OBVIOUS
    <2>2. near => near'
      OBVIOUS
    <2>3. victim' = victim /\ refused' = refused
      OBVIOUS
    <2> QED BY <2>1, <2>2, <2>3 DEF StalePidfile
  <1>6. Failed' /\ WatchdogUntilSafe' /\ KeyUntilStopped'
    BY DEF Failed, WatchdogUntilSafe, KeyUntilStopped, CannotCommit
  <1> QED BY <1>1, <1>2, <1>3, <1>4, <1>5, <1>6

LEMMA OtherEndsKeeps ==
  ASSUME PostmasterIInv, OtherEnds
  PROVE  PostmasterIInv'
  <1> USE DEF OtherEnds, Os, stopping, NoFault, wrong
  <1>1. PostmasterTypeOK'
    BY DEF PostmasterTypeOK
  <1>2. Processes'
    BY DEF Processes
  <1>3. Stopped'
    BY DEF Stopped
  <1>4. Launched'
    BY DEF Launched
  <1>5. Failed' /\ WatchdogUntilSafe' /\ KeyUntilStopped' /\ StalePidfile'
    BY DEF Failed, WatchdogUntilSafe, KeyUntilStopped, StalePidfile, CannotCommit
  <1> QED BY <1>1, <1>2, <1>3, <1>4, <1>5

LEMMA StopKeeps ==
  ASSUME PostmasterIInv, NEW m \in Mode, stop(m)
  PROVE  PostmasterIInv'
  <1> USE DEF stop, from_pidfile, Safepoint, Patroni, NoFault, wrong
  <1>1. PostmasterTypeOK'
    BY DEF PostmasterTypeOK, Mode
  <1>2. Stopped'
    <2>1. CASE from_pidfile
      BY <2>1 DEF Stopped, InStop
    <2>2. CASE ~from_pidfile
      BY <2>2 DEF Stopped, PostmasterTypeOK, Processes, InStop
    <2> QED BY <2>1, <2>2
  <1>3. WatchdogUntilSafe'
    BY DEF WatchdogUntilSafe, PostmasterTypeOK, Processes, CannotCommit
  <1>4. Launched'
    BY DEF Launched
  <1>5. Processes' /\ Failed' /\ KeyUntilStopped' /\ StalePidfile'
    BY DEF Processes, Failed, KeyUntilStopped, StalePidfile, CannotCommit
  <1> QED BY <1>1, <1>2, <1>3, <1>4, <1>5

LEMMA SignalStopKeeps ==
  ASSUME PostmasterIInv, signal_stop
  PROVE  PostmasterIInv'
  <1> USE DEF signal_stop, Gone, Safepoint, StopMode, Patroni, NoFault, MayFail, wrong, stopping
  <1>1. PostmasterTypeOK'
    BY DEF PostmasterTypeOK
  <1>2. Stopped'
    BY DEF Stopped, PostmasterTypeOK, InStop
  <1>3. WatchdogUntilSafe'
    BY DEF WatchdogUntilSafe, PostmasterTypeOK, Processes, Stopped, InStop, CannotCommit
  <1>4. StalePidfile'
    <2>1. near' = near /\ refused' = refused /\ reused' = reused
      OBVIOUS
    <2>2. victim' => victim \/ near
      BY DEF PostmasterTypeOK, Processes, Stopped, InStop
    <2> QED BY <2>1, <2>2 DEF StalePidfile
  <1>5. Launched'
    BY DEF Launched
  <1>6. Processes' /\ Failed' /\ KeyUntilStopped'
    BY DEF Processes, Failed, KeyUntilStopped, CannotCommit
  <1> QED BY <1>1, <1>2, <1>3, <1>4, <1>5, <1>6

LEMMA ConnectionKeeps ==
  ASSUME PostmasterIInv, _wait_for_connection_close
  PROVE  PostmasterIInv'
  <1> USE DEF _wait_for_connection_close, Step, ConnectionClosed, Late, Patroni, NoFault, MayFail, wrong
  <1>1. PostmasterTypeOK'
    BY DEF PostmasterTypeOK
  <1>2. Stopped'
    BY DEF Stopped, InStop
  <1>3. WatchdogUntilSafe'
    BY DEF WatchdogUntilSafe, CannotCommit
  <1>4. Launched'
    BY DEF Launched
  <1>5. Processes' /\ Failed' /\ KeyUntilStopped' /\ StalePidfile'
    BY DEF Processes, Failed, KeyUntilStopped, StalePidfile, CannotCommit
  <1> QED BY <1>1, <1>2, <1>3, <1>4, <1>5

LEMMA ListBackendsKeeps ==
  ASSUME PostmasterIInv, ListBackends
  PROVE  PostmasterIInv'
  <1> USE DEF ListBackends, Step, Late, Patroni, NoFault, MayFail, wrong
  <1>1. PostmasterTypeOK'
    BY DEF PostmasterTypeOK
  <1>2. Stopped'
    BY DEF Stopped, InStop
  <1>3. WatchdogUntilSafe'
    BY DEF WatchdogUntilSafe, CannotCommit
  <1>4. Launched'
    BY DEF Launched
  <1>5. Processes' /\ Failed' /\ KeyUntilStopped' /\ StalePidfile'
    BY DEF Processes, Failed, KeyUntilStopped, StalePidfile, CannotCommit
  <1> QED BY <1>1, <1>2, <1>3, <1>4, <1>5

LEMMA BackendsKeep ==
  ASSUME PostmasterIInv, wait_for_user_backends_to_close
  PROVE  PostmasterIInv'
  <1> USE DEF wait_for_user_backends_to_close, Step, Safepoint, Late, Patroni, NoFault, MayFail, wrong
  <1>1. PostmasterTypeOK'
    BY DEF PostmasterTypeOK
  <1>2. Stopped'
    BY DEF Stopped, InStop
  <1>3. WatchdogUntilSafe'
    BY DEF WatchdogUntilSafe, Stopped, CannotCommit
  <1>4. Launched'
    BY DEF Launched
  <1>5. Processes' /\ Failed' /\ KeyUntilStopped' /\ StalePidfile'
    BY DEF Processes, Failed, KeyUntilStopped, StalePidfile, CannotCommit
  <1> QED BY <1>1, <1>2, <1>3, <1>4, <1>5

LEMMA OnShutdownKeeps ==
  ASSUME PostmasterIInv, on_shutdown
  PROVE  PostmasterIInv'
  <1> USE DEF on_shutdown, Step, IsShutDown, Gone, Patroni, NoFault, MayFail, wrong
  <1>1. PostmasterTypeOK'
    <2>1. leader_key' \in BOOLEAN
      BY DEF PostmasterTypeOK
    <2>2. stop_pc' = "end"
      OBVIOUS
    <2> QED BY <2>1, <2>2 DEF PostmasterTypeOK
  <1>2. Stopped'
    BY DEF Stopped, InStop
  <1>3. KeyUntilStopped'
    BY DEF KeyUntilStopped, Processes, CannotCommit
  <1>4. Launched'
    BY DEF Launched
  <1>5. Processes' /\ Failed' /\ WatchdogUntilSafe' /\ StalePidfile'
    BY DEF Processes, Failed, WatchdogUntilSafe, StalePidfile, CannotCommit
  <1> QED BY <1>1, <1>2, <1>3, <1>4, <1>5

LEMMA WaitKeeps ==
  ASSUME PostmasterIInv, wait
  PROVE  PostmasterIInv'
  <1> USE DEF wait, Step, Gone, Patroni, NoFault, MayFail, wrong
  <1>1. PostmasterTypeOK'
    BY DEF PostmasterTypeOK
  <1>2. Stopped'
    BY DEF Stopped, PostmasterTypeOK, InStop
  <1>3. Launched'
    BY DEF Launched
  <1>4. Processes' /\ Failed' /\ WatchdogUntilSafe' /\ KeyUntilStopped' /\ StalePidfile'
    BY DEF Processes, Failed, WatchdogUntilSafe, KeyUntilStopped, StalePidfile, CannotCommit
  <1> QED BY <1>1, <1>2, <1>3, <1>4

LEMMA TerminateKeeps ==
  ASSUME PostmasterIInv, terminate_postmaster
  PROVE  PostmasterIInv'
  <1> USE DEF terminate_postmaster, Gone, Patroni, NoFault, wrong, stopping
  <1>1. PostmasterTypeOK'
    BY DEF PostmasterTypeOK
  <1>2. Stopped'
    BY DEF Stopped, PostmasterTypeOK, InStop
  <1>3. Launched'
    BY DEF Launched
  <1>4. Processes' /\ Failed' /\ WatchdogUntilSafe' /\ KeyUntilStopped' /\ StalePidfile'
    BY DEF Processes, Failed, WatchdogUntilSafe, KeyUntilStopped, StalePidfile, CannotCommit
  <1> QED BY <1>1, <1>2, <1>3, <1>4

LEMMA KillKeeps ==
  ASSUME PostmasterIInv, signal_kill
  PROVE  PostmasterIInv'
  <1> USE DEF signal_kill, Killed, Gone, NoFault, MayFail, stopping, wrong
  <1>1. PostmasterTypeOK'
    BY DEF PostmasterTypeOK, Stopped, InStop
  <1>2. Processes'
    BY DEF Processes, PostmasterTypeOK, Stopped, InStop
  <1>3. Stopped'
    BY DEF Stopped, InStop
  <1>4. Launched'
    BY DEF Launched
  <1>5. Failed' /\ WatchdogUntilSafe' /\ KeyUntilStopped' /\ StalePidfile'
    BY DEF Failed, WatchdogUntilSafe, KeyUntilStopped, StalePidfile, CannotCommit
  <1> QED BY <1>1, <1>2, <1>3, <1>4, <1>5

LEMMA AfterStopKeeps ==
  ASSUME PostmasterIInv, AfterStop
  PROVE  PostmasterIInv'
  <1> USE DEF AfterStop, from_pidfile, Releases, Patroni, NoFault, wrong, stopping
  <1>1. PostmasterTypeOK'
    BY DEF PostmasterTypeOK
  <1>2. KeyUntilStopped'
    BY DEF KeyUntilStopped, Processes, Stopped, Failed, CannotCommit
  <1>3. Stopped'
    BY DEF Stopped, InStop
  <1>4. Launched'
    BY DEF Launched
  <1>5. Processes' /\ Failed' /\ WatchdogUntilSafe' /\ StalePidfile'
    BY DEF Processes, Failed, WatchdogUntilSafe, StalePidfile, CannotCommit
  <1> QED BY <1>1, <1>2, <1>3, <1>4, <1>5

LEMMA StartKeeps ==
  ASSUME PostmasterIInv, start
  PROVE  PostmasterIInv'
  <1> USE DEF start, Told, from_pidfile, Patroni, NoFault, wrong
  <1>1. PostmasterTypeOK'
    BY DEF PostmasterTypeOK
  <1>2. Launched'
    BY DEF Launched
  <1>3. StalePidfile'
    BY DEF StalePidfile
  <1>4. Stopped'
    BY DEF Stopped, InStop
  <1>5. Processes' /\ Failed' /\ WatchdogUntilSafe' /\ KeyUntilStopped'
    BY DEF Processes, Failed, WatchdogUntilSafe, KeyUntilStopped, CannotCommit
  <1> QED BY <1>1, <1>2, <1>3, <1>4, <1>5

LEMMA LaunchKeeps ==
  ASSUME PostmasterIInv, Launch
  PROVE  PostmasterIInv'
  <1> USE DEF Launch, server, stopping, NoFault, wrong
  <1>1. PostmasterTypeOK'
    BY DEF PostmasterTypeOK
  <1>2. Processes'
    BY DEF Processes
  <1>3. StalePidfile'
    BY DEF StalePidfile, Launched
  <1>4. Stopped'
    BY DEF Stopped, InStop
  <1>5. Launched'
    BY DEF Launched
  <1>6. WatchdogUntilSafe'
    BY DEF WatchdogUntilSafe, CannotCommit
  <1>7. KeyUntilStopped'
    BY DEF KeyUntilStopped, CannotCommit
  <1>8. Failed'
    BY DEF Failed
  <1> QED BY <1>1, <1>2, <1>3, <1>4, <1>5, <1>6, <1>7, <1>8

LEMMA PromoteKeeps ==
  ASSUME PostmasterIInv, Promote
  PROVE  PostmasterIInv'
  <1> USE DEF Promote, NoFault, wrong, stopping
  <1>1. PostmasterTypeOK'
    BY DEF PostmasterTypeOK
  <1>2. Stopped'
    BY DEF Stopped
  <1>3. WatchdogUntilSafe'
    BY DEF WatchdogUntilSafe
  <1>4. KeyUntilStopped'
    BY DEF KeyUntilStopped
  <1>5. Processes' /\ Failed' /\ Launched' /\ StalePidfile'
    BY DEF Processes, Failed, Launched, StalePidfile
  <1> QED BY <1>1, <1>2, <1>3, <1>4, <1>5

LEMMA InitPostmasterIInv == PostmasterInit => PostmasterIInv
  BY DEF PostmasterInit, PostmasterTypeOK, Mode, Processes, Stopped, Failed, Launched, InStop,
         WatchdogUntilSafe, KeyUntilStopped, StalePidfile

LEMMA NextPostmasterIInv == PostmasterIInv /\ [PostmasterNext]_postmasterVars => PostmasterIInv'
  <1> SUFFICES ASSUME PostmasterIInv, [PostmasterNext]_postmasterVars
               PROVE  PostmasterIInv'
    OBVIOUS
  <1>1. CASE UNCHANGED postmasterVars
    <2> USE <1>1 DEF postmasterVars
    <2>1. PostmasterTypeOK'
      BY DEF PostmasterTypeOK
    <2>2. (Processes /\ Stopped /\ Failed /\ Launched)'
      BY DEF Processes, Stopped, Failed, Launched
    <2>3. (WatchdogUntilSafe /\ KeyUntilStopped /\ StalePidfile)'
      BY DEF WatchdogUntilSafe, KeyUntilStopped, CannotCommit, StalePidfile
    <2> QED BY <2>1, <2>2, <2>3
  <1>2. CASE PostmasterNext
    <2> HIDE DEF PostmasterIInv
    <2> QED
      BY <1>2, ConnectsKeeps, BackendEndsKeeps, TakesSignalKeeps, ShutDownKeeps, ExitKeeps, DiesKeeps, PidReusedKeeps, OtherEndsKeeps, StopKeeps, SignalStopKeeps, ConnectionKeeps, ListBackendsKeeps, BackendsKeep, OnShutdownKeeps, WaitKeeps, TerminateKeeps, KillKeeps, AfterStopKeeps, StartKeeps, LaunchKeeps, PromoteKeeps
         DEF PostmasterNext
  <1> QED BY <1>1, <1>2

\* While a client may be told of a commit neither the watchdog nor the leader key is let
\* go, and a stale postmaster.pid does no harm, for any number of backends and of
\* failures (Postgresql.stop, demote, start).
THEOREM PostmasterIsSafe == PostmasterSpec => []PostmasterSafe
  <1>1. PostmasterIInv => PostmasterSafe
    OBVIOUS
  <1> QED
    BY <1>1, InitPostmasterIInv, NextPostmasterIInv, PTL DEF PostmasterSpec

HIDE DEF PostmasterIInv, PostmasterSafe

-----------------------------------------------------------------------------
(* Callbacks: what is announced.                                            *)

\* The calls in progress, the script that runs, and a promotion, which goes on only
\* while Postgres runs.
Pipeline ==
    /\ call \in [Thread -> {Unset} \cup Asked]
    /\ process \in {Unset} \cup Scripts
    /\ taken /= Unset => process = Unset
    /\ promoting /= "no" => Idle("promote") /\ pg_state = "up"
    /\ {raced, overtaken, spoiled} \subseteq BOOLEAN

\* At the last step of a call.
Puts(t) == call[t] /= Unset /\ call[t].at = "put"

\* Something that the call has not killed or was not there to be killed.
Survivor == cmd /= Unset \/ taken /= Unset \/ (process /= Unset /\ ~process.killed)

\* A killed script has a successor, and of two commands on their way one was overtaken.
Succession ==
    /\ process /= Unset /\ process.killed => cmd /= Unset \/ \E t \in Thread : Puts(t)
    /\ \A t \in Thread : Puts(t) /\ Survivor => overtaken
    /\ (\A t \in Thread : Puts(t)) => overtaken
    /\ cmd /= Unset /\ (taken /= Unset \/ (process /= Unset /\ ~process.killed)) => overtaken

\* Two calls at a time are a race.
Alone == raced \/ \E t \in Thread : Idle(t)

\* The role that is announced last: of the newest of what is on its way.
Latest ==
    IF ~Idle("promote") THEN call["promote"].role
    ELSE IF ~Idle("main") THEN call["main"].role
    ELSE IF cmd /= Unset THEN cmd.role
    ELSE IF taken /= Unset THEN taken.role
    ELSE IF process /= Unset THEN process.role
    ELSE told_role

\* The role goes with the data directory while Postgres runs or starts.
RoleFits ==
    pg_state /= "down" /\ ~spoiled =>
        IF standby THEN role \in {"replica", "standby_leader"} /\ promoting /= "done"
        ELSE role \in Primary \/ promoting = "done"

\* The last announcement is of the role, unless one is postponed.
Announced ==
    /\ called /\ ~raced /\ ~spoiled /\ promoting /= "done"
    /\ pg_state = "up" \/ (pg_state = "starting" /\ pending = "noop")
    => Latest = Label(role)

CallbacksIInv == CallbacksTypeOK /\ Pipeline /\ Succession /\ Alone /\ RoleFits /\ Announced

USE CallbacksAssumption
USE DEF CallbacksIInv

LEMMA LabelRole == \A r \in Roles : Label(r) \in Roles \ {"promoted"}
  BY DEF Label, Roles

\* What announcing a role does to the calls.
LEMMA Nowait ==
  ASSUME call \in [Thread -> {Unset} \cup Asked], NEW t \in Thread, NEW cb \in ScriptNames, NEW r \in Roles,
         Idle(t), call_nowait(t, cb, r)
  PROVE  /\ call' \in [Thread -> {Unset} \cup Asked]
         /\ call'[t].role = Label(r) /\ call'[t].at = "kill" /\ call'[t] /= Unset
         /\ \A u \in Thread \ {t} : call'[u] = call[u]
         /\ called' = TRUE /\ raced' \in BOOLEAN
         /\ ~raced' => \A u \in Thread \ {t} : Idle(u) /\ (u = "promote" => promoting = "no")
  <1>1. [cb |-> cb, role |-> Label(r), at |-> "kill"] \in Asked
    BY LabelRole DEF Asked
  <1>2. call' = [call EXCEPT ![t] = [cb |-> cb, role |-> Label(r), at |-> "kill"]]
    BY DEF call_nowait
  <1>3. called' = TRUE /\ raced' \in BOOLEAN
    BY DEF call_nowait
  <1>4. ~raced' => \A u \in Thread \ {t} : Idle(u) /\ (u = "promote" => promoting = "no")
    BY DEF call_nowait
  <1> QED BY <1>1, <1>2, <1>3, <1>4 DEF Idle

\* An announcement, or silence, while the executor and the promotion stand still.
Speaks(r) == \/ Silent
             \/ \E t \in Thread, cb \in ScriptNames : Idle(t) /\ call_nowait(t, cb, r)

LEMMA SpeaksKeeps ==
  ASSUME CallbacksIInv, NEW r \in Roles, Speaks(r), UNCHANGED <<cmd, taken, process, overtaken>>
  PROVE  /\ call' \in [Thread -> {Unset} \cup Asked] /\ process' \in {Unset} \cup Scripts
         /\ raced' \in BOOLEAN /\ called' \in BOOLEAN
         /\ Succession' /\ Alone'
  <1>1. CASE Silent
    BY <1>1 DEF Silent, Pipeline, CallbacksTypeOK, Succession, Survivor, Puts, Alone, Idle
  <1>2. CASE \E t \in Thread, cb \in ScriptNames : Idle(t) /\ call_nowait(t, cb, r)
    <2>1. PICK t \in Thread, cb \in ScriptNames : Idle(t) /\ call_nowait(t, cb, r)
      BY <1>2
    <2>0. call \in [Thread -> {Unset} \cup Asked]
      BY DEF Pipeline
    <2>2. /\ call' \in [Thread -> {Unset} \cup Asked] /\ raced' \in BOOLEAN /\ called' = TRUE
          /\ call'[t].at = "kill" /\ (\A u \in Thread \ {t} : call'[u] = call[u])
          /\ ~raced' => \A u \in Thread \ {t} : Idle(u)
      BY <2>0, <2>1, Nowait
    <2>3. \A u \in Thread : Puts(u)' <=> Puts(u)
      BY <2>1, <2>2 DEF Puts, Idle
    <2>4. process' \in {Unset} \cup Scripts
      BY DEF Pipeline
    <2>5. Succession'
      BY <2>3 DEF Succession, Survivor
    <2>6. Alone'
      BY <2>2 DEF Alone, Idle, Thread
    <2> QED BY <2>2, <2>4, <2>5, <2>6
  <1> QED BY <1>1, <1>2 DEF Speaks

\* The last announcement after an announcement, and after none.
LEMMA SpeaksLatest ==
  ASSUME CallbacksIInv, NEW t \in Thread, NEW cb \in ScriptNames, NEW r \in Roles, Idle(t), call_nowait(t, cb, r), ~raced'
  PROVE  Latest' = Label(r)
  <1>1. /\ call'[t].role = Label(r) /\ call'[t] /= Unset
        /\ \A u \in Thread \ {t} : call'[u] = call[u] /\ Idle(u)
    <2>1. call \in [Thread -> {Unset} \cup Asked]
      BY DEF Pipeline
    <2> QED BY <2>1, Nowait
  <1>2. CASE t = "promote"
    BY <1>1, <1>2 DEF Latest, Idle
  <1>3. CASE t = "main"
    <2>1. Idle("promote")'
      BY <1>1, <1>3 DEF Idle, Thread
    <2> QED BY <1>1, <1>3, <2>1 DEF Latest, Idle
  <1> QED BY <1>2, <1>3 DEF Thread

LEMMA SilentLatest ==
  ASSUME CallbacksIInv, UNCHANGED <<call, cmd, taken, process, told_role>>
  PROVE  Latest' = Latest
  BY DEF Latest, Idle

-----------------------------------------------------------------------------
(* Callbacks: the executor.                                                 *)

LEMMA KillScriptKeeps ==
  ASSUME CallbacksIInv, NEW t \in Thread, Call(t), call[t] /= Unset, call[t].at = "kill",
         process' = IF process /= Unset THEN [process EXCEPT !.killed = TRUE] ELSE Unset,
         overtaken' = (overtaken \/ taken /= Unset \/ cmd /= Unset \/ \E u \in Thread \ {t} : ~Idle(u)),
         call' = [call EXCEPT ![t].at = "put"], UNCHANGED cmd
  PROVE  CallbacksIInv'
  <1> USE DEF Call, node
  <1>1. /\ call' \in [Thread -> {Unset} \cup Asked] /\ ~Idle(t) /\ ~Idle(t)' /\ Puts(t)'
        /\ call'[t].role = call[t].role /\ \A u \in Thread \ {t} : call'[u] = call[u]
    BY DEF Pipeline, Asked, Idle, Puts
  <1>2. /\ process' \in {Unset} \cup Scripts /\ (process' = Unset <=> process = Unset)
        /\ process /= Unset => process'.killed = TRUE /\ process'.role = process.role
    BY DEF Pipeline, Scripts
  <1>3. Pipeline'
    BY <1>1, <1>2 DEF Pipeline, Idle
  <1>4. Succession'
    <2>1. taken /= Unset \/ cmd /= Unset \/ (\E u \in Thread \ {t} : ~Idle(u)) \/ overtaken => overtaken'
      OBVIOUS
    <2>2. Survivor' => overtaken'
      BY <1>2, <2>1 DEF Survivor
    <2>3. (\A u \in Thread : Puts(u)') => overtaken'
      BY <1>1, <2>1 DEF Puts, Idle, Thread
    <2>4. \E u \in Thread : Puts(u)'
      BY <1>1
    <2> QED BY <1>2, <2>2, <2>3, <2>4 DEF Succession, Survivor
  <1>5. CallbacksTypeOK'
    BY <1>2 DEF CallbacksTypeOK, Succession, Pipeline
  <1>6. \A u \in Thread : Idle(u)' <=> Idle(u)
    BY <1>1 DEF Idle
  <1>7. Latest' = Latest
    BY <1>1, <1>2, <1>6 DEF Latest, Thread
  <1>9. Alone' /\ RoleFits' /\ Announced'
    BY <1>6, <1>7 DEF Alone, RoleFits, Announced
  <1> QED BY <1>3, <1>4, <1>5, <1>9

LEMMA PutKeeps ==
  ASSUME CallbacksIInv, NEW t \in Thread, Call(t), call[t] /= Unset, call[t].at = "put",
         cmd' = [cb |-> call[t].cb, role |-> call[t].role],
         call' = [call EXCEPT ![t] = Unset], UNCHANGED <<process, overtaken>>
  PROVE  CallbacksIInv'
  <1> USE DEF Call, node
  <1>1. /\ call' \in [Thread -> {Unset} \cup Asked] /\ Idle(t)' /\ Puts(t) /\ ~Idle(t)
        /\ \A u \in Thread \ {t} : call'[u] = call[u]
    BY DEF Pipeline, Idle, Puts
  <1>2. cmd' \in Commands /\ cmd' /= Unset /\ cmd'.role = call[t].role
    BY DEF Pipeline, Asked, Commands
  <1>3. Pipeline'
    BY <1>1 DEF Pipeline, Idle
  <1>4. Succession'
    <2>1. \A u \in Thread : Puts(u)' => Puts(u) /\ u /= t
      BY <1>1 DEF Puts, Idle
    <2>2. \A u \in Thread : Puts(u)' => overtaken
      BY <1>1, <2>1 DEF Succession, Thread
    <2>3. taken /= Unset \/ (process /= Unset /\ ~process.killed) => overtaken
      BY <1>1 DEF Succession, Survivor
    <2> QED BY <1>2, <2>2, <2>3 DEF Succession, Survivor
  <1>5. CallbacksTypeOK'
    BY <1>1, <1>2, <1>4 DEF CallbacksTypeOK, Succession, Pipeline
  <1>6. Alone'
    BY <1>1 DEF Alone
  <1>7. ~raced => Latest' = Latest
    BY <1>1, <1>2 DEF Alone, Latest, Idle, Thread
  <1>9. RoleFits' /\ Announced'
    BY <1>7 DEF RoleFits, Announced
  <1> QED BY <1>3, <1>4, <1>5, <1>6, <1>9

LEMMA TakeKeeps ==
  ASSUME CallbacksIInv, Take
  PROVE  CallbacksIInv'
  <1> USE DEF Take, Takes, node, flags
  <1>1. Pipeline'
    BY DEF Pipeline, Idle
  <1>2. Succession'
    BY DEF Succession, Survivor, Puts
  <1>3. CallbacksTypeOK'
    BY DEF CallbacksTypeOK
  <1>4. Latest' = Latest
    BY DEF Latest, Idle
  <1>6. Alone' /\ RoleFits' /\ Announced'
    BY <1>4 DEF Alone, Idle, RoleFits, Announced
  <1> QED BY <1>1, <1>2, <1>3, <1>6

LEMMA StartProcessKeeps ==
  ASSUME CallbacksIInv, _start_process
  PROVE  CallbacksIInv'
  <1> USE DEF _start_process, node
  <1>0. taken \in Commands /\ process = Unset
    BY DEF CallbacksTypeOK, Pipeline
  <1>1. CASE process' = [cb |-> taken.cb, role |-> taken.role, killed |-> FALSE] /\ UNCHANGED <<spoiled, events>>
    <2>a. process' \in Scripts
      BY <1>0, <1>1 DEF Commands, Scripts
    <2>0. process' \in Scripts /\ process' /= Unset /\ process'.role = taken.role /\ process'.killed = FALSE
      BY <2>a, <1>1
    <2>1. Pipeline'
      BY <2>0, <1>1 DEF Pipeline, Idle
    <2>2. Succession'
      BY <2>0 DEF Succession, Survivor, Puts
    <2>3. CallbacksTypeOK'
      BY DEF CallbacksTypeOK
    <2>4. Latest' = Latest
      BY <2>0, <1>0 DEF Latest, Idle
    <2>6. Alone' /\ RoleFits' /\ Announced'
      BY <2>4, <1>1 DEF Alone, Idle, RoleFits, Announced
    <2> QED BY <2>1, <2>2, <2>3, <2>6
  <1>2. CASE spoiled' = TRUE /\ UNCHANGED process
    <2>1. Pipeline'
      BY <1>2 DEF Pipeline, Idle
    <2>2. Succession'
      BY <1>0, <1>2 DEF Succession, Survivor, Puts
    <2>3. CallbacksTypeOK'
      BY <1>2 DEF CallbacksTypeOK
    <2>4. Alone' /\ RoleFits' /\ Announced'
      BY <1>0, <1>2 DEF Alone, Idle, RoleFits, Announced
    <2> QED BY <2>1, <2>2, <2>3, <2>4
  <1> QED BY <1>1, <1>2

LEMMA ScriptWaitKeeps ==
  ASSUME CallbacksIInv, Wait
  PROVE  CallbacksIInv'
  <1> USE DEF Wait, node
  <1>0. process \in Scripts /\ taken = Unset
    BY DEF Pipeline
  <1>1. Pipeline'
    BY DEF Pipeline, Idle
  <1>2. overtaken' = overtaken \/ (cmd = Unset /\ \A t \in Thread : Idle(t))
    BY DEF Pipeline
  <1>3. Succession'
    BY <1>0, <1>2 DEF Succession, Survivor, Puts, Idle, Thread
  <1>4. CallbacksTypeOK'
    BY <1>0 DEF CallbacksTypeOK, Scripts
  <1>5. Latest' = Latest
    BY <1>0 DEF Latest, Idle, Succession, Puts, Thread
  <1>6. Alone' /\ RoleFits' /\ Announced'
    BY <1>5 DEF Alone, Idle, RoleFits, Announced
  <1> QED BY <1>1, <1>3, <1>4, <1>6

-----------------------------------------------------------------------------
(* Callbacks: what announces.                                               *)

\* The reload's own script, and its end.
LEMMA ReloadKeeps ==
  ASSUME CallbacksIInv, Reload \/ OnReloadEnds
  PROVE  CallbacksIInv'
  <1> USE DEF Reload, OnReloadEnds, node, flags
  <1>1. Pipeline' /\ Succession' /\ Alone' /\ RoleFits' /\ CallbacksTypeOK'
    BY DEF Pipeline, Succession, Survivor, Puts, Alone, Idle, RoleFits, CallbacksTypeOK
  <1>2. Latest' = Latest
    BY SilentLatest
  <1> QED BY <1>1, <1>2 DEF Announced

\* The steps of the cycle, when nothing is in progress.
LEMMA Freely ==
  ASSUME CallbacksIInv, Free, Rest, NEW r \in Roles, Speaks(r),
         pg_state' \in {"down", "starting", "up"}, standby' \in BOOLEAN, role' \in Roles,
         pending' \in {Unset, "noop", "on_start", "on_restart"}
  PROVE  CallbacksTypeOK' /\ Pipeline' /\ Succession' /\ Alone'
  <1>1. UNCHANGED <<cmd, taken, process, overtaken>>
    BY DEF Rest, executor, flags
  <1>2. /\ call' \in [Thread -> {Unset} \cup Asked] /\ process' \in {Unset} \cup Scripts
        /\ raced' \in BOOLEAN /\ called' \in BOOLEAN /\ Succession' /\ Alone'
    BY <1>1, SpeaksKeeps
  <1>3. CallbacksTypeOK'
    BY <1>1, <1>2 DEF CallbacksTypeOK, Rest, executor, flags
  <1>4. Pipeline'
    BY <1>1, <1>2 DEF Pipeline, Rest, executor, flags, Free
  <1> QED BY <1>2, <1>3, <1>4

LEMMA CheckStartupKeeps ==
  ASSUME CallbacksIInv, check_startup_state_changed
  PROVE  CallbacksIInv'
  <1> USE DEF check_startup_state_changed
  <1>1. role \in Roles /\ standby \in BOOLEAN /\ pending \in {Unset, "noop", "on_start", "on_restart"}
    BY DEF CallbacksTypeOK
  <1>2. \/ Silent /\ pending = "noop"
        \/ \E cb \in ScriptNames : call_nowait("main", cb, role)
    BY <1>1 DEF ScriptNames
  <1>3. Speaks(role)
    BY <1>2 DEF Speaks, Free, Thread
  <1>4. CallbacksTypeOK' /\ Pipeline' /\ Succession' /\ Alone'
    BY <1>1, <1>3, Freely
  <1>5. RoleFits'
    BY DEF RoleFits, Rest, flags
  <1>6. Announced'
    <2>1. CASE Silent /\ pending = "noop"
      <3>1. Latest' = Latest
        BY <2>1, SilentLatest DEF Silent, Rest, executor
      <3> QED BY <2>1, <3>1 DEF Announced, Silent, Rest, flags
    <2>2. CASE \E cb \in ScriptNames : call_nowait("main", cb, role)
      <3>1. ~raced' => Latest' = Label(role)
        BY <1>1, <2>2, SpeaksLatest DEF Free, Thread
      <3> QED BY <3>1 DEF Announced
    <2> QED BY <1>2, <2>1, <2>2
  <1> QED BY <1>4, <1>5, <1>6

LEMMA StartFailsKeeps ==
  ASSUME CallbacksIInv, StartFails \/ PostgresDies
  PROVE  CallbacksIInv'
  <1> USE DEF StartFails, PostgresDies
  <1>1. role \in Roles /\ standby \in BOOLEAN /\ pending \in {Unset, "noop", "on_start", "on_restart"}
    BY DEF CallbacksTypeOK
  <1>2. Speaks(role)
    BY DEF Speaks
  <1>3. CallbacksTypeOK' /\ Pipeline' /\ Succession' /\ Alone'
    BY <1>1, <1>2, Freely
  <1> QED BY <1>3 DEF RoleFits, Announced

LEMMA ChangeRole ==
  ASSUME CallbacksTypeOK, NEW r \in {"replica", "standby_leader"}
  PROVE  change_role(r) \in BOOLEAN /\ r \in Roles
  BY DEF change_role, Roles

LEMMA FollowKeeps ==
  ASSUME CallbacksIInv, NEW r \in {"replica", "standby_leader"}, follow_as(r)
  PROVE  CallbacksIInv'
  <1> USE DEF follow_as
  <1>1. /\ role \in Roles /\ pg_state \in {"down", "starting", "up"} /\ role' \in Roles /\ standby' \in BOOLEAN
        /\ pg_state' \in {"down", "starting", "up"} /\ pending' \in {Unset, "noop", "on_start", "on_restart"}
    BY ChangeRole DEF CallbacksTypeOK
  <1>a. standby \in BOOLEAN
    BY DEF CallbacksTypeOK
  <1>2. Speaks(role')
    <2>1. "main" \in Thread /\ "on_role_change" \in ScriptNames /\ Idle("main")
      BY DEF Thread, ScriptNames, Free
    <2> QED BY <2>1 DEF Speaks
  <1>3. CallbacksTypeOK' /\ Pipeline' /\ Succession' /\ Alone'
    BY <1>1, <1>2, Freely
  <1>4. RoleFits'
    <2>1. role' = r \/ (role' = role /\ standby = TRUE /\ pg_state = "up")
      BY <1>a
    <2> QED BY <2>1 DEF RoleFits, Rest, flags, Free
  <1>5. Announced'
    <2>1. CASE change_role(r)
      <3>1. ~raced' => Latest' = Label(role')
        BY <1>1, <2>1, SpeaksLatest DEF Free, Thread, ScriptNames
      <3> QED BY <3>1 DEF Announced
    <2>2. CASE ~change_role(r)
      <3>1. Latest' = Latest
        BY <2>2, SilentLatest DEF Silent, Rest, executor
      <3> QED BY <2>2, <3>1 DEF Announced, Silent, Rest, flags
    <2> QED BY <2>1, <2>2
  <1> QED BY <1>3, <1>4, <1>5

LEMMA RestartKeeps ==
  ASSUME CallbacksIInv, restart
  PROVE  CallbacksIInv'
  <1> USE DEF restart
  <1>1. /\ role \in Roles /\ role' \in Roles /\ standby' \in BOOLEAN
    BY DEF CallbacksTypeOK, Roles
  <1>2. Speaks(role)
    BY DEF Speaks
  <1>3. CallbacksTypeOK' /\ Pipeline' /\ Succession' /\ Alone'
    BY <1>1, <1>2, Freely
  <1> QED BY <1>3 DEF RoleFits, Announced, Primary, Free, Rest

LEMMA AnnounceStopKeeps ==
  ASSUME CallbacksIInv, announce_stop
  PROVE  CallbacksIInv'
  <1> USE DEF announce_stop
  <1>1. /\ role \in Roles /\ role' \in Roles /\ standby' \in BOOLEAN
        /\ pending' \in {Unset, "noop", "on_start", "on_restart"}
    BY DEF CallbacksTypeOK, Roles
  <1>2. Speaks(role)
    BY DEF Speaks, Free, Thread, ScriptNames
  <1>3. CallbacksTypeOK' /\ Pipeline' /\ Succession' /\ Alone'
    BY <1>1, <1>2, Freely
  <1> QED BY <1>3 DEF RoleFits, Announced

LEMMA PromoteAsyncKeeps ==
  ASSUME CallbacksIInv, promote_async
  PROVE  CallbacksIInv'
  <1> USE DEF promote_async, Silent, node, executor, flags
  <1>1. Pipeline' /\ Succession' /\ Alone' /\ CallbacksTypeOK'
    BY DEF Pipeline, Succession, Survivor, Puts, Alone, Idle, CallbacksTypeOK
  <1>2. Latest' = Latest
    BY SilentLatest
  <1> QED BY <1>1, <1>2 DEF RoleFits, Announced

LEMMA PgCtlPromoteKeeps ==
  ASSUME CallbacksIInv, pg_ctl_promote
  PROVE  CallbacksIInv'
  <1> USE DEF pg_ctl_promote, Silent, executor, flags
  <1>1. Pipeline' /\ Succession' /\ Alone' /\ CallbacksTypeOK'
    BY DEF Pipeline, Succession, Survivor, Puts, Alone, Idle, CallbacksTypeOK
  <1> QED BY <1>1 DEF RoleFits, Announced

LEMMA SetPromotedKeeps ==
  ASSUME CallbacksIInv, set_promoted
  PROVE  CallbacksIInv'
  <1> USE DEF set_promoted, Promoted, executor, flags
  <1>1. Idle("promote") /\ "promote" \in Thread /\ "on_role_change" \in ScriptNames /\ "promoted" \in Roles
    BY DEF Pipeline, Thread, ScriptNames, Roles
  <1>2. Speaks("promoted")
    BY <1>1 DEF Speaks
  <1>3. /\ call' \in [Thread -> {Unset} \cup Asked] /\ process' \in {Unset} \cup Scripts
        /\ raced' \in BOOLEAN /\ called' \in BOOLEAN /\ Succession' /\ Alone'
    BY <1>1, <1>2, SpeaksKeeps
  <1>4. CallbacksTypeOK' /\ Pipeline'
    BY <1>1, <1>3 DEF CallbacksTypeOK, Pipeline
  <1>5. ~raced' => Latest' = Label(role')
    BY <1>1, SpeaksLatest
  <1> QED BY <1>3, <1>4, <1>5 DEF RoleFits, Primary, Announced, Pipeline

LEMMA FirstCycleKeeps ==
  ASSUME CallbacksIInv, FirstCycle
  PROVE  CallbacksIInv'
  <1> USE DEF FirstCycle, Rest, executor, flags
  <1>1. Idle("main") /\ "main" \in Thread /\ "on_start" \in ScriptNames /\ role \in Roles
    BY DEF Thread, ScriptNames, CallbacksTypeOK
  <1>2. Speaks(role)
    BY <1>1 DEF Speaks
  <1>3. /\ call' \in [Thread -> {Unset} \cup Asked] /\ process' \in {Unset} \cup Scripts
        /\ raced' \in BOOLEAN /\ called' \in BOOLEAN /\ Succession' /\ Alone'
    BY <1>2, <1>1, SpeaksKeeps
  <1>4. call'["promote"] = call["promote"]
    BY DEF call_nowait, Pipeline, Thread
  <1>5. CallbacksTypeOK' /\ Pipeline'
    BY <1>3, <1>4 DEF CallbacksTypeOK, Pipeline, Idle
  <1>6. ~raced' => Latest' = Label(role)
    BY <1>1, SpeaksLatest
  <1> QED BY <1>3, <1>5, <1>6 DEF RoleFits, Announced

LEMMA StandbyLeaderKeeps ==
  ASSUME CallbacksIInv, StandbyLeader
  PROVE  CallbacksIInv'
  <1> USE DEF StandbyLeader
  <1>1. /\ role' \in Roles /\ standby' \in BOOLEAN /\ pg_state' \in {"down", "starting", "up"}
        /\ pending' \in {Unset, "noop", "on_start", "on_restart"}
        /\ Idle("main") /\ "main" \in Thread /\ "on_role_change" \in ScriptNames
    BY DEF CallbacksTypeOK, Roles, Free, Thread, ScriptNames
  <1>2. Speaks(role')
    BY <1>1 DEF Speaks
  <1>3. CallbacksTypeOK' /\ Pipeline' /\ Succession' /\ Alone'
    BY <1>1, <1>2, Freely
  <1>4. ~raced' => Latest' = Label(role')
    BY <1>1, SpeaksLatest
  <1> QED BY <1>3, <1>4 DEF RoleFits, Announced, Rest, flags

\* A role that fits the data directory is corrected to one with the same label.
LEMMA RoleCorrectedKeeps ==
  ASSUME CallbacksIInv, RoleCorrected
  PROVE  CallbacksIInv'
  <1> USE DEF RoleCorrected
  <1>1. /\ role \in Roles /\ role' \in Roles /\ standby' \in BOOLEAN /\ pg_state' \in {"down", "starting", "up"}
        /\ pending' \in {Unset, "noop", "on_start", "on_restart"}
    BY DEF CallbacksTypeOK, Roles
  <1>2. Speaks(role)
    BY DEF Speaks
  <1>3. CallbacksTypeOK' /\ Pipeline' /\ Succession' /\ Alone'
    BY <1>1, <1>2, Freely
  <1>4. RoleFits'
    BY DEF RoleFits, Primary, Rest, flags
  <1>5. ~spoiled => Label(role') = Label(role)
    BY DEF RoleFits, Free, Primary, Label
  <1>6. Latest' = Latest
    BY SilentLatest DEF Silent, Rest, executor
  <1> QED BY <1>3, <1>4, <1>5, <1>6 DEF Announced, Silent, Rest, flags

LEMMA OperatorKeeps ==
  ASSUME CallbacksIInv, Operator
  PROVE  CallbacksIInv'
  <1> USE DEF Operator, Silent, executor
  <1>1. promoting = "no"
    BY DEF Free
  <1>2. Pipeline' /\ Succession' /\ Alone'
    BY <1>1 DEF Pipeline, Succession, Survivor, Puts, Alone, Idle
  <1>3. CallbacksTypeOK'
    <2>1. standby' \in BOOLEAN /\ pg_state' \in {"down", "starting", "up"}
      BY DEF CallbacksTypeOK
    <2> QED BY <2>1 DEF CallbacksTypeOK
  <1> QED BY <1>2, <1>3 DEF RoleFits, Announced

-----------------------------------------------------------------------------
LEMMA InitCallbacksIInv == CallbacksInit => CallbacksIInv
  <1> SUFFICES ASSUME CallbacksInit PROVE CallbacksIInv
    OBVIOUS
  <1> USE DEF CallbacksInit
  <1>1. CallbacksTypeOK
    <2>1. role \in Roles
      BY DEF Roles
    <2>2. standby \in BOOLEAN /\ called \in BOOLEAN
      OBVIOUS
    <2>4. reloads \in 0 .. 1
      OBVIOUS
    <2>3. /\ pending \in {Unset, "noop", "on_start", "on_restart"} /\ promoting \in {"no", "asked", "done"}
          /\ cmd \in {Unset} \cup Commands /\ taken \in {Unset} \cup Commands /\ taken = Unset
          /\ told_role \in {Unset, "cut"} \cup Roles /\ pg_state \in {"down", "starting", "up"}
      OBVIOUS
    <2> QED BY <2>1, <2>2, <2>3, <2>4 DEF CallbacksTypeOK
  <1>2. Pipeline
    BY DEF Pipeline, Idle
  <1>3. Succession /\ Alone
    BY DEF Succession, Survivor, Puts, Alone, Idle, Thread
  <1>4. RoleFits /\ Announced
    BY DEF RoleFits, Primary, Announced
  <1> QED BY <1>1, <1>2, <1>3, <1>4

LEMMA NextCallbacksIInv == CallbacksIInv /\ [CallbacksNext]_callbacksVars => CallbacksIInv'
  <1> SUFFICES ASSUME CallbacksIInv, [CallbacksNext]_callbacksVars
               PROVE  CallbacksIInv'
    OBVIOUS
  <1>1. CASE UNCHANGED callbacksVars
    <2> USE <1>1 DEF callbacksVars
    <2>1. Pipeline' /\ Succession' /\ Alone' /\ CallbacksTypeOK' /\ RoleFits'
      BY DEF Pipeline, Succession, Survivor, Puts, Alone, Idle, CallbacksTypeOK, RoleFits
    <2>2. Announced'
      BY SilentLatest DEF Announced
    <2> QED BY <2>1, <2>2
  <1>2. ASSUME NEW t \in Thread, Call(t)
        PROVE  CallbacksIInv'
    BY <1>2, KillScriptKeeps, PutKeeps DEF Call, Calls
  <1>3. CASE CallbacksNext
    <2> HIDE DEF CallbacksIInv
    <2> QED
      BY <1>2, <1>3, TakeKeeps, StartProcessKeeps, ScriptWaitKeeps, ReloadKeeps, CheckStartupKeeps, StartFailsKeeps,
         FollowKeeps, RestartKeeps, AnnounceStopKeeps, PromoteAsyncKeeps, PgCtlPromoteKeeps, SetPromotedKeeps,
         FirstCycleKeeps, StandbyLeaderKeeps, RoleCorrectedKeeps, OperatorKeeps
         DEF CallbacksNext
  <1> QED BY <1>1, <1>3

LEMMA CallbacksIInvSafe == CallbacksIInv => CallbacksSafe
  <1> SUFFICES ASSUME CallbacksIInv PROVE CallbacksSafe
    OBVIOUS
  <1>1. RoleTold
    BY DEF RoleTold, Free, Announced, Latest
  <1>2. NotBlocked
    BY DEF NotBlocked, Succession
  <1> QED BY <1>1, <1>2 DEF CallbacksSafe

\* Once nothing is under way the last script that ran was told the node's role, and a
\* script that waits waits for one that has been killed, for any number of events
\* (call_nowait, CallbackExecutor, and every place that announces a role).
THEOREM CallbacksAreSafe == CallbacksSpec => []CallbacksSafe
  <1> HIDE DEF CallbacksIInv
  <1> QED BY InitCallbacksIInv, NextCallbacksIInv, CallbacksIInvSafe, PTL DEF CallbacksSpec
HIDE CallbacksAssumption DEF CallbacksIInv

-----------------------------------------------------------------------------
(* Watch caches: the inductive invariant.                                   *)

\* The last change of a key among the first n.
Newest(k, r, n) == r \in 1 .. n /\ changes[r].key = k /\ \A q \in r + 1 .. n : changes[q].key /= k

\* The key is in the cache as it was after the first n changes.
Current(k, n) ==
    IF cache[k] = Nil THEN \A r \in 1 .. n : Newest(k, r, n) => changes[r].value = Nil
    ELSE Newest(k, cache[k].rev, n)

WatchTypes ==
    /\ changes \in Seq([key : Key, value : Owner \cup {Nil}])
    /\ cache \in [Key -> Entries \cup {Nil}] /\ mine \in Answered \cup {Nil}
    /\ rebuilt \in BOOLEAN /\ older \in BOOLEAN /\ wanted \in BOOLEAN /\ lost \in BOOLEAN
    /\ mine /= Nil => /\ mine.rev \in own + 1 .. Len(changes)
                      /\ changes[mine.rev] = [key |-> mine.key, value |-> mine.value]

\* The thread: when the cache is filled, and what a stream that was closed is.
Threads ==
    /\ filled <=> thread_pc \in {"opens", "opening", "watch"}
    /\ filled => got <= pos
    /\ response \in {"none", "open", "cut", "closed"} /\ (thread_pc /= "watch" => response \in {"none", "closed"})
    /\ wanted /\ ~lost => /\ thread_pc /= "listed"
                          /\ thread_pc \in {"opens", "opening"} => response = "closed"
                          /\ thread_pc = "watch" => response = "cut"

\* A key that is not as the stream has brought it so far will be brought again.
Following == filled => \A k \in Key :
    k \in resurrected \/ Current(k, pos - 1) \/ \E r \in pos .. Len(changes) : changes[r].key = k

\* The node's own write is in the cache, or overtaken by a deletion.
OwnKept ==
    /\ filled /\ older => pos <= own
    /\ filled /\ own > 0 /\ ~older /\ changes[own].value /= Nil =>
        LET k == changes[own].key
        IN IF cache[k] = Nil
           THEN \E r \in own + 1 .. Len(changes) : (r < pos \/ r <= got) /\ changes[r].key = k /\ changes[r].value = Nil
           ELSE cache[k].rev >= own

\* What the HA loop sleeps on.
Awake == ha \in {"sleeps", "reads"} /\ (ha = "sleeps" /\ ~event /\ ~rebuilt => leader_read = Cached(Leader))

WatchIInv == WatchTypeOK /\ WatchTypes /\ Threads /\ Following /\ OwnKept /\ Awake

-----------------------------------------------------------------------------
(* Watch caches: the store, and who writes to it.                           *)

USE WatchAssumption DEF WatchIInv

\* The key as the store has it, without choosing.
LEMMA StoredIs ==
  ASSUME WatchTypes, NEW k \in Key, NEW n \in 0 .. Len(changes)
  PROVE  \/ Stored(k, n) = Nil /\ \A r \in 1 .. n : Newest(k, r, n) => changes[r].value = Nil
         \/ \E r \in 1 .. n : /\ Newest(k, r, n) /\ changes[r].value /= Nil
                             /\ Stored(k, n) = [rev |-> r, value |-> changes[r].value]
  <1>0. Writes(k, n) \in SUBSET Nat /\ \A r \in Writes(k, n) : r <= n
    BY DEF Writes
  <1>1. CASE Writes(k, n) = {}
    BY <1>1 DEF Stored, Writes, Newest
  <1>2. CASE Writes(k, n) /= {}
    <2>0. n \in Nat
      BY DEF WatchTypes
    <2>1. \E r \in Writes(k, n) : \A q \in Writes(k, n) : q <= r
      BY <1>0, <1>2, <2>0, BoundedHasMax
    <2>2. LastWrite(k, n) \in Writes(k, n) /\ \A q \in Writes(k, n) : q <= LastWrite(k, n)
      BY <2>1 DEF LastWrite
    <2>3. LastWrite(k, n) \in 1 .. n /\ changes[LastWrite(k, n)].key = k
      BY <2>2 DEF Writes
    <2>4. \A q \in LastWrite(k, n) + 1 .. n : changes[q].key /= k
      BY <2>2, <2>3, <2>0 DEF Writes
    <2>5. Newest(k, LastWrite(k, n), n)
      BY <2>3, <2>4 DEF Newest
    <2>6. \A r \in 1 .. n : Newest(k, r, n) => r = LastWrite(k, n)
      BY <2>3, <2>5, <2>0 DEF Newest
    <2>7. CASE changes[LastWrite(k, n)].value = Nil
      BY <2>6, <2>7 DEF Stored
    <2>8. CASE changes[LastWrite(k, n)].value /= Nil
      BY <1>2, <2>3, <2>5, <2>8 DEF Stored
    <2> QED BY <2>7, <2>8
  <1> QED BY <1>1, <1>2

LEMMA CurrentIs ==
  ASSUME WatchTypes, NEW k \in Key, NEW n \in 0 .. Len(changes), Current(k, n),
         cache[k] = Nil \/ changes[cache[k].rev].value = cache[k].value
  PROVE  cache[k] = Stored(k, n)
  <1>1. cache[k] \in Entries \cup {Nil}
    BY DEF WatchTypes
  <1>2. CASE cache[k] = Nil
    BY <1>2, StoredIs DEF Current
  <1>3. CASE cache[k] /= Nil
    <2>1. cache[k] = [rev |-> cache[k].rev, value |-> cache[k].value] /\ cache[k].value /= Nil /\ cache[k].rev \in Nat
      BY <1>1, <1>3 DEF Entries
    <2>2. Newest(k, cache[k].rev, n) /\ changes[cache[k].rev].value /= Nil
      BY <1>3, <2>1 DEF Current
    <2>3. n \in Nat
      BY DEF WatchTypes
    <2>4. \A r \in 1 .. n : Newest(k, r, n) => r = cache[k].rev
      BY <2>1, <2>2, <2>3 DEF Newest
    <2>5. cache[k].rev \in 1 .. n
      BY <2>2 DEF Newest
    <2>6. PICK r \in 1 .. n : Newest(k, r, n) /\ Stored(k, n) = [rev |-> r, value |-> changes[r].value]
      BY <2>2, <2>5, StoredIs
    <2>7. r = cache[k].rev
      BY <2>4, <2>6
    <2> QED BY <1>3, <2>1, <2>6, <2>7
  <1> QED BY <1>2, <1>3

\* What is written to the store later changes nothing of what was there.
LEMMA AppendKeeps ==
  ASSUME WatchIInv, NEW k \in Key, NEW v \in Owner \cup {Nil}, Append1(k, v)
  PROVE  /\ changes' \in Seq([key : Key, value : Owner \cup {Nil}]) /\ Len(changes') = Len(changes) + 1
         /\ \A r \in 1 .. Len(changes) : changes'[r] = changes[r]
         /\ changes'[Len(changes')].key = k /\ changes'[Len(changes')].value = v
  BY DEF Append1, WatchTypes

LEMMA WritesKeep ==
  ASSUME WatchIInv, Len(changes') = Len(changes) + 1, changes' \in Seq([key : Key, value : Owner \cup {Nil}]),
         \A r \in 1 .. Len(changes) : changes'[r] = changes[r],
         UNCHANGED <<backend, thread, own, loop, marks>>,
         mine' = mine \/ mine' = [key |-> changes'[Len(changes')].key, value |-> changes'[Len(changes')].value, rev |-> Len(changes')]
  PROVE  WatchIInv'
  <1> USE DEF thread, loop, marks
  <1>0. Len(changes) \in Nat
    BY DEF WatchTypes
  <1>1. WatchTypeOK'
    BY <1>0 DEF WatchTypeOK
  <1>2. WatchTypes'
    <2>1. CASE mine' = mine
      BY <1>0, <2>1 DEF WatchTypes, WatchTypeOK
    <2>2. CASE mine' = [key |-> changes'[Len(changes')].key, value |-> changes'[Len(changes')].value, rev |-> Len(changes')]
      <3>1. changes'[Len(changes')] \in [key : Key, value : Owner \cup {Nil}]
        <4>1. Len(changes') \in 1 .. Len(changes')
          BY <1>0
        <4> QED BY <4>1, ElementOfSeq
      <3>2. mine' \in Answered /\ mine'.rev = Len(changes')
            /\ changes'[Len(changes')] = [key |-> mine'.key, value |-> mine'.value]
        BY <1>0, <2>2, <3>1 DEF Answered
      <3>3. own \in 0 .. Len(changes)
        BY DEF WatchTypeOK
      <3> QED BY <1>0, <3>2, <3>3 DEF WatchTypes
    <2> QED BY <2>1, <2>2
  <1>3. Threads' /\ Awake'
    BY DEF Threads, Awake, Cached
  <1>4. Following'
    <2> SUFFICES ASSUME filled, NEW k \in Key, k \notin resurrected
                 PROVE  Current(k, pos - 1)' \/ \E r \in pos .. Len(changes') : changes'[r].key = k
      BY DEF Following
    <2>0. pos \in 1 .. Len(changes) + 1
      BY DEF WatchTypeOK
    <2>1. CASE Current(k, pos - 1)
      <3>1. \A r \in 1 .. pos - 1 : changes'[r] = changes[r]
        BY <1>0, <2>0
      <3>2. \A r : Newest(k, r, pos - 1) <=> r \in 1 .. pos - 1 /\ changes'[r].key = k /\ \A q \in r + 1 .. pos - 1 : changes'[q].key /= k
        BY <2>0, <3>1 DEF Newest
      <3>3. CASE cache[k] = Nil
        BY <2>1, <3>1, <3>2, <3>3 DEF Current, Newest
      <3>4. CASE cache[k] /= Nil
        BY <2>1, <3>2, <3>4 DEF Current, Newest
      <3> QED BY <3>3, <3>4
    <2>2. CASE \E r \in pos .. Len(changes) : changes[r].key = k
      BY <1>0, <2>0, <2>2
    <2> QED BY <2>1, <2>2 DEF Following
  <1>5. OwnKept'
    BY <1>0 DEF OwnKept, WatchTypeOK
  <1> QED BY <1>1, <1>2, <1>3, <1>4, <1>5

LEMMA OtherKeeps ==
  ASSUME WatchIInv, Other
  PROVE  WatchIInv'
  <1>1. PICK k \in Key, v \in {"other", Nil} : Append1(k, v)
    BY DEF Other
  <1>2. v \in Owner \cup {Nil}
    BY DEF Owner
  <1> QED BY <1>1, <1>2, AppendKeeps, WritesKeep DEF Other

LEMMA OwnKeeps ==
  ASSUME WatchIInv, Own
  PROVE  WatchIInv'
  <1>1. PICK k \in Key, v \in {"self", Nil} :
          Append1(k, v) /\ (mine' = [key |-> k, value |-> v, rev |-> Len(changes) + 1] \/ mine' = mine)
    BY DEF Own
  <1>2. v \in Owner \cup {Nil}
    BY DEF Owner
  <1>3. Len(changes') = Len(changes) + 1 /\ changes'[Len(changes')].key = k /\ changes'[Len(changes')].value = v
    BY <1>1, <1>2, AppendKeeps
  <1> QED BY <1>1, <1>2, <1>3, AppendKeeps, WritesKeep DEF Own

LEMMA OwnToCacheKeeps ==
  ASSUME WatchIInv, OwnToCache
  PROVE  WatchIInv'
  <1> DEFINE k == mine.key
             m == mine.rev
  <1>0. Len(changes) \in Nat /\ pos \in 1 .. Len(changes) + 1 /\ own \in 0 .. Len(changes) /\ got \in 0 .. Len(changes)
    BY DEF WatchTypes, WatchTypeOK
  <1>1. /\ mine \in Answered /\ mine' = Nil /\ own' = m /\ k \in Key /\ m \in own + 1 .. Len(changes)
        /\ mine.value \in Owner \cup {Nil} /\ changes[m].key = k /\ changes[m].value = mine.value
    BY DEF OwnToCache, WatchTypes, Answered
  <1>2. /\ cache \in [Key -> Entries \cup {Nil}]
        /\ \A j \in Key : cache[j] /= Nil => cache[j].rev \in 1 .. Len(changes) /\ changes[cache[j].rev].key = j
                                          /\ changes[cache[j].rev].value = cache[j].value /\ cache[j] \in Entries
    BY DEF WatchTypes, WatchTypeOK
  <1>3. /\ cache' \in [Key -> Entries \cup {Nil}]
        /\ \A j \in Key \ {k} : cache'[j] = cache[j]
        /\ mine.value = Nil => cache'[k] = IF cache[k] /= Nil /\ cache[k].rev < m THEN Nil ELSE cache[k]
        /\ mine.value /= Nil => /\ cache[k] = Nil \/ cache[k].rev < m =>
                                       cache'[k] = [rev |-> m, value |-> mine.value] /\ cache'[k] /= Nil
                                /\ ~(cache[k] = Nil \/ cache[k].rev < m) => cache'[k] = cache[k]
    <2>1. CASE mine.value = Nil
      BY <1>1, <1>2, <2>1 DEF OwnToCache, delete, Older
    <2>2. CASE mine.value /= Nil
      <3>1. [rev |-> m, value |-> mine.value] \in Entries
        BY <1>1, <2>2, <1>0 DEF Entries
      <3> QED BY <1>1, <1>2, <2>2, <3>1 DEF OwnToCache, set, Older
    <2> QED BY <2>1, <2>2
  <1>4. WatchTypeOK'
    <2>1. \A j \in Key : cache'[j] = Nil \/ (cache'[j].rev \in 1 .. Len(changes) /\ changes[cache'[j].rev].key = j
                                             /\ changes[cache'[j].rev].value = cache'[j].value)
      <3>1. CASE cache'[k] = [rev |-> m, value |-> mine.value]
        BY <1>0, <1>1, <1>2, <1>3, <3>1
      <3>2. CASE cache'[k] = Nil \/ cache'[k] = cache[k]
        BY <1>2, <1>3, <3>2
      <3> QED BY <1>3, <3>1, <3>2
    <2>2. own' \in 0 .. Len(changes)
      BY <1>0, <1>1
    <2>3. UNCHANGED <<backend, changes, filled, thread_pc, got, pos, response, event, ha, leader_read>>
      BY DEF OwnToCache, loop
    <2> QED BY <2>1, <2>2, <2>3 DEF WatchTypeOK
  <1>5. WatchTypes'
    BY <1>1, <1>3 DEF OwnToCache, WatchTypes
  <1>6. Threads'
    BY DEF OwnToCache, Threads
  <1>7. Following'
    <2> SUFFICES ASSUME filled, NEW j \in Key, j \notin resurrected', \A r \in pos .. Len(changes) : changes[r].key /= j
                 PROVE  Current(j, pos - 1)'
      BY DEF Following, OwnToCache
    <2>1. Current(j, pos - 1) /\ UNCHANGED <<changes, pos>>
      BY DEF Following, OwnToCache
    <2>2. CASE j /= k
      BY <1>3, <2>1, <2>2 DEF Current, Newest
    <2>3. CASE j = k
      <3>1. m < pos
        BY <1>0, <1>1, <2>3
      <3>2. CASE cache[k] /= Nil
        <4>0. Newest(k, cache[k].rev, pos - 1)
          BY <2>1, <2>3, <3>2 DEF Current
        <4>1. cache[k].rev >= m
          <5>1. m \in 1 .. pos - 1 /\ changes[m].key = k
            BY <1>0, <1>1, <3>1
          <5>2. cache[k].rev \in Nat
            BY <1>0, <4>0 DEF Newest
          <5>3. m \notin cache[k].rev + 1 .. pos - 1
            BY <4>0, <5>1 DEF Newest
          <5>4. m \in Nat /\ m <= pos - 1 /\ pos \in Nat
            BY <1>0, <5>1
          <5> HIDE DEF m
          <5> QED BY <5>2, <5>3, <5>4
        <4>2. cache'[k] = cache[k]
          BY <1>0, <1>1, <1>2, <1>3, <3>2, <4>1
        <4> QED BY <2>1, <2>3, <4>2 DEF Current, Newest
      <3>3. CASE cache[k] = Nil
        <4>1. CASE mine.value = Nil
          BY <1>3, <2>1, <2>3, <3>3, <4>1 DEF Current, Newest
        <4>2. CASE mine.value /= Nil
          <5>1. Stored(k, pos - 1) = Nil
            BY <1>0, <1>1, <2>1, <2>3, <3>3, CurrentIs
          <5> QED BY <1>1, <2>3, <3>1, <3>3, <4>2, <5>1 DEF OwnToCache
        <4> QED BY <4>1, <4>2
      <3> QED BY <3>2, <3>3
    <2> QED BY <2>2, <2>3
  <1>8. OwnKept'
    <2>1. filled' /\ older' => pos' <= own'
      BY <1>0, <1>1 DEF OwnKept, OwnToCache
    <2>2. mine.value /= Nil => cache'[k] /= Nil /\ cache'[k].rev >= m
      BY <1>0, <1>1, <1>2, <1>3
    <2> QED BY <1>1, <2>1, <2>2 DEF OwnKept, OwnToCache
  <1>9. Awake'
    <2>1. CASE k = Leader
      <3>1. rebuilt' /\ UNCHANGED ha
        BY <2>1 DEF OwnToCache, loop
      <3> QED BY <3>1 DEF Awake
    <2>2. CASE k /= Leader
      <3>1. cache'[Leader] = cache[Leader]
        BY <1>3, <2>2
      <3>2. (~rebuilt' => ~rebuilt) /\ UNCHANGED <<ha, event, leader_read>>
        BY DEF OwnToCache, loop
      <3> QED BY <3>1, <3>2 DEF Awake, Cached
    <2> QED BY <2>1, <2>2
  <1> QED BY <1>4, <1>5, <1>6, <1>7, <1>8, <1>9

-----------------------------------------------------------------------------
(* Watch caches: the thread, and the HA loop.                               *)

LEMMA ConditionFailsKeeps ==
  ASSUME WatchIInv, ConditionFails
  PROVE  WatchIInv'
  <1> USE DEF ConditionFails, kill_stream
  <1>1. UNCHANGED <<backend, changes, cache, filled, thread_pc, got, pos, mine, own, loop, resurrected, older, rebuilt>> /\ wanted' = TRUE
    OBVIOUS
  <1>2. WatchTypeOK'
    BY DEF WatchTypeOK, Threads, loop
  <1>3. WatchTypes'
    BY DEF WatchTypes
  <1>4. Threads'
    BY DEF Threads, WatchTypeOK
  <1>5. Following' /\ OwnKept' /\ Awake'
    BY <1>1 DEF Following, OwnKept, Awake, Current, Newest, Cached, loop
  <1> QED BY <1>2, <1>3, <1>4, <1>5

LEMMA ListKeeps ==
  ASSUME WatchIInv, List
  PROVE  WatchIInv'
  <1>0. Len(changes) \in Nat
    BY DEF WatchTypes
  <1>1. /\ UNCHANGED <<backend, changes, cache, filled, pos, response, mine, own, event, ha, leader_read, resurrected, older, rebuilt>>
        /\ thread_pc = "list" /\ thread_pc' = "listed" /\ got' \in 0 .. Len(changes) /\ wanted' = FALSE /\ lost' = FALSE
    BY <1>0 DEF List, loop
  <1>2. WatchTypeOK'
    BY <1>1 DEF WatchTypeOK
  <1>3. WatchTypes'
    BY <1>1 DEF WatchTypes, List
  <1>4. Threads'
    BY <1>1 DEF Threads
  <1>5. Following' /\ OwnKept'
    BY <1>1 DEF Following, OwnKept, Threads
  <1>6. Awake'
    BY <1>1 DEF Awake, Cached
  <1> QED BY <1>2, <1>3, <1>4, <1>5, <1>6

LEMMA BuildCacheKeeps ==
  ASSUME WatchIInv, _build_cache
  PROVE  WatchIInv'
  <1>0. Len(changes) \in Nat /\ got \in 0 .. Len(changes) /\ own \in 0 .. Len(changes)
    BY DEF WatchTypes, WatchTypeOK
  <1>1. /\ UNCHANGED <<backend, changes, got, response, mine, own, event, ha, leader_read, wanted, lost>>
        /\ thread_pc = "listed" /\ thread_pc' = "opens" /\ filled' = TRUE /\ rebuilt' = TRUE
        /\ pos' = got + 1 \/ (pos' = got /\ got > 0)
    BY <1>0 DEF _build_cache, loop
  <1>10. older' \in BOOLEAN /\ (older' => got < own) /\ (~older' => got >= own)
    <2>1. older' = (got < own)
      BY DEF _build_cache
    <2>2. CASE got < own
      <3>1. older' = TRUE
        BY <2>1, <2>2
      <3> QED BY <2>2, <3>1
    <2>3. CASE ~(got < own)
      <3>0. (got < own) = FALSE
        BY <1>0, <2>3
      <3>1. older' = FALSE
        BY <2>1, <3>0
      <3>2. got >= own
        BY <1>0, <2>3
      <3> QED BY <3>1, <3>2
    <2> QED BY <2>2, <2>3
  <1>2. \A k \in Key : \/ cache'[k] = Nil /\ \A r \in 1 .. got : Newest(k, r, got) => changes[r].value = Nil
                      \/ \E r \in 1 .. got : /\ Newest(k, r, got) /\ changes[r].value /= Nil
                                             /\ cache'[k] = [rev |-> r, value |-> changes[r].value]
    BY <1>0, StoredIs DEF _build_cache, Snapshot
  <1>3. \A k \in Key : \/ cache'[k] = Nil /\ \A r \in 1 .. got : Newest(k, r, got) => changes[r].value = Nil
                      \/ /\ cache'[k] \in Entries /\ cache'[k] /= Nil /\ cache'[k].rev \in 1 .. got
                         /\ Newest(k, cache'[k].rev, got) /\ changes[cache'[k].rev].value = cache'[k].value
    <2> SUFFICES ASSUME NEW k \in Key, NEW r \in 1 .. got, Newest(k, r, got), changes[r].value /= Nil,
                        cache'[k] = [rev |-> r, value |-> changes[r].value]
                 PROVE  /\ cache'[k] \in Entries /\ cache'[k] /= Nil /\ cache'[k].rev \in 1 .. got
                        /\ Newest(k, cache'[k].rev, got) /\ changes[cache'[k].rev].value = cache'[k].value
      BY <1>2
    <2>0. r \in 1 .. Len(changes)
      BY <1>0
    <2>1. changes[r] \in [key : Key, value : Owner \cup {Nil}]
      BY <2>0, ElementOfSeq DEF WatchTypes
    <2>2. cache'[k] \in Entries
      BY <1>0, <2>1 DEF Entries
    <2> QED BY <2>2
  <1>4. WatchTypeOK'
    <2>1. \A k \in Key : cache'[k] = Nil \/ (cache'[k].rev \in 1 .. Len(changes) /\ changes[cache'[k].rev].key = k
                                             /\ changes[cache'[k].rev].value = cache'[k].value)
      BY <1>0, <1>3 DEF Newest
    <2>2. pos' \in 1 .. Len(changes) + 1
      BY <1>0, <1>1
    <2> QED BY <1>0, <1>1, <2>1, <2>2 DEF WatchTypeOK
  <1>5. WatchTypes'
    <2>1. cache' \in [Key -> Entries \cup {Nil}]
      BY <1>3 DEF _build_cache, Snapshot
    <2> QED BY <1>1, <1>10, <2>1 DEF WatchTypes
  <1>6. Threads'
    BY <1>0, <1>1 DEF Threads
  <1>7. Following'
    <2> SUFFICES ASSUME NEW k \in Key, \A r \in pos' .. Len(changes) : changes[r].key /= k
                 PROVE  Current(k, pos - 1)'
      BY <1>1 DEF Following
    <2>0. \A r : Newest(k, r, pos' - 1) <=> Newest(k, r, got)
      <3>1. CASE pos' = got + 1
        BY <1>0, <3>1 DEF Newest
      <3>2. CASE pos' = got /\ got > 0
        <4>1. changes[got].key /= k
          BY <1>0, <3>2
        <4> QED BY <1>0, <3>2, <4>1 DEF Newest
      <3> QED BY <1>1, <3>1, <3>2
    <2>1. CASE cache'[k] = Nil
      <3>1. \A r \in 1 .. pos' - 1 : Newest(k, r, pos' - 1) => changes[r].value = Nil
        BY <1>3, <2>0, <2>1 DEF Newest
      <3> QED BY <1>1, <2>1, <3>1 DEF Current, Newest
    <2>2. CASE cache'[k] /= Nil
      <3>1. Newest(k, cache'[k].rev, pos' - 1)
        BY <1>3, <2>0, <2>2
      <3> QED BY <1>1, <2>2, <3>1 DEF Current, Newest
    <2> QED BY <2>1, <2>2
  <1>8. OwnKept'
    <2>1. filled' /\ older' => pos' <= own'
      BY <1>0, <1>1, <1>10
    <2> DEFINE k == changes[own].key
    <2>2. ASSUME own > 0, got >= own, changes[own].value /= Nil
          PROVE  IF cache'[k] = Nil
                 THEN \E r \in own + 1 .. Len(changes) : r <= got /\ changes[r].key = k /\ changes[r].value = Nil
                 ELSE cache'[k].rev >= own
      <3>0. k \in Key
        <4>1. own \in 1 .. Len(changes)
          BY <1>0, <2>2
        <4>2. changes[own] \in [key : Key, value : Owner \cup {Nil}]
          BY <4>1, ElementOfSeq DEF WatchTypes
        <4> QED BY <4>2
      <3>1. CASE cache'[k] /= Nil
        BY <1>0, <1>3, <2>2, <3>0, <3>1 DEF Newest
      <3>2. CASE cache'[k] = Nil
        <4>1. \E r \in own .. got : Newest(k, r, got)
          <5> DEFINE W == {r \in own .. got : changes[r].key = k}
          <5>1. PICK r \in W : \A q \in W : q <= r
            <6>1. W \in SUBSET Nat /\ own \in W /\ \A x \in W : x <= got
              BY <1>0, <2>2
            <6>2. W /= {} /\ got \in Nat
              BY <1>0, <6>1
            <6> HIDE DEF W
            <6> QED BY <6>1, <6>2, BoundedHasMax
          <5> QED BY <1>0, <2>2, <5>1 DEF Newest
        <4>2. PICK r \in own .. got : Newest(k, r, got)
          BY <4>1
        <4>3. changes[r].value = Nil /\ changes[r].key = k /\ r /= own
          BY <1>0, <1>3, <2>2, <3>0, <3>2, <4>2 DEF Newest
        <4> QED BY <1>0, <3>2, <4>2, <4>3
      <3> QED BY <3>1, <3>2
    <2> QED BY <1>1, <1>10, <2>1, <2>2 DEF OwnKept
  <1>9. Awake'
    BY <1>1 DEF Awake
  <1> QED BY <1>4, <1>5, <1>6, <1>7, <1>8, <1>9

LEMMA WatchesKeep ==
  ASSUME WatchIInv, Watches \/ StreamEnds
  PROVE  WatchIInv'
  <1>1. /\ UNCHANGED <<backend, changes, cache, got, pos, mine, own, event, ha, leader_read, resurrected, older, rebuilt, wanted>>
        /\ \/ UNCHANGED filled /\ thread_pc = "opens" /\ thread_pc' = "opening" /\ response' = "none"
              /\ lost' = (lost \/ response = "closed")
           \/ UNCHANGED <<filled, lost>> /\ thread_pc = "opening" /\ response = "none" /\ thread_pc' = "watch" /\ response' = "open"
           \/ UNCHANGED lost /\ thread_pc' = "list" /\ filled' = FALSE /\ response' = "none"
    BY DEF Watches, _do_watch, Opens, StreamEnds, loop, marks
  <1>2. WatchTypeOK'
    BY <1>1 DEF WatchTypeOK
  <1>3. WatchTypes'
    BY <1>1 DEF WatchTypes
  <1>4. Threads'
    BY <1>1 DEF Threads
  <1>5. Following' /\ OwnKept'
    BY <1>1 DEF Following, OwnKept, Current, Newest, Threads
  <1>6. Awake'
    BY <1>1 DEF Awake, Cached
  <1> QED BY <1>2, <1>3, <1>4, <1>5, <1>6

LEMMA HaLoopKeeps ==
  ASSUME WatchIInv, HaLoop
  PROVE  WatchIInv'
  <1>1. /\ UNCHANGED <<backend, changes, cache, filled, thread_pc, got, pos, response, mine, own, resurrected, older, wanted, lost>>
        /\ \/ ha' = "reads" /\ event' = FALSE /\ UNCHANGED <<leader_read, rebuilt>>
           \/ ha' = "sleeps" /\ leader_read' = Cached(Leader) /\ rebuilt' = FALSE /\ UNCHANGED event
    BY DEF HaLoop, watch, thread
  <1>2. WatchTypeOK'
    <2>1. Cached(Leader) \in Owner \cup {Nil}
      BY DEF Cached, WatchTypes, Entries
    <2> QED BY <1>1, <2>1 DEF WatchTypeOK
  <1>3. WatchTypes'
    BY <1>1 DEF WatchTypes
  <1>4. Threads' /\ Following' /\ OwnKept'
    BY <1>1 DEF Threads, Following, OwnKept, Current, Newest
  <1>5. Awake'
    BY <1>1 DEF Awake, Cached
  <1> QED BY <1>2, <1>3, <1>4, <1>5

\* Whatever the cache has of a key, the change at hand makes it current.
LEMMA ProcessEventKeeps ==
  ASSUME WatchIInv, _process_event
  PROVE  WatchIInv'
  <1> DEFINE k == changes[pos].key
             v == changes[pos].value
  <1>0. /\ Len(changes) \in Nat /\ pos \in 1 .. Len(changes) /\ own \in 0 .. Len(changes) /\ got \in 0 .. Len(changes)
        /\ pos' = pos + 1 /\ thread_pc = "watch"
    BY DEF WatchTypes, WatchTypeOK, _process_event
  <1>1. k \in Key /\ v \in Owner \cup {Nil}
    <2>1. changes[pos] \in [key : Key, value : Owner \cup {Nil}]
      BY <1>0, ElementOfSeq DEF WatchTypes
    <2> QED BY <2>1
  <1>2. /\ cache \in [Key -> Entries \cup {Nil}]
        /\ \A j \in Key : cache[j] /= Nil => cache[j].rev \in 1 .. Len(changes) /\ changes[cache[j].rev].key = j
                                          /\ changes[cache[j].rev].value = cache[j].value /\ cache[j] \in Entries
    BY DEF WatchTypes, WatchTypeOK
  <1>3. /\ UNCHANGED <<backend, changes, filled, thread_pc, got, response, mine, own, ha, leader_read, rebuilt, wanted, lost>>
        /\ resurrected' = resurrected \ {k}
    BY DEF _process_event
  <1>4. /\ cache' \in [Key -> Entries \cup {Nil}]
        /\ \A j \in Key \ {k} : cache'[j] = cache[j]
        /\ v = Nil => cache'[k] = IF cache[k] /= Nil /\ cache[k].rev < pos THEN Nil ELSE cache[k]
        /\ v /= Nil => /\ cache[k] = Nil \/ cache[k].rev < pos =>
                            cache'[k] = [rev |-> pos, value |-> v] /\ cache'[k] /= Nil
                       /\ ~(cache[k] = Nil \/ cache[k].rev < pos) => cache'[k] = cache[k]
    <2>1. CASE v = Nil
      BY <1>1, <1>2, <2>1 DEF _process_event, delete, Older
    <2>2. CASE v /= Nil
      <3>1. [rev |-> pos, value |-> v] \in Entries
        BY <1>1, <2>2, <1>0 DEF Entries
      <3> QED BY <1>1, <1>2, <2>2, <3>1 DEF _process_event, set, Older
    <2> QED BY <2>1, <2>2
  <1>5. older' \in BOOLEAN /\ (older' <=> older /\ pos < own)
    <2>1. older' = (older /\ pos < own)
      BY DEF _process_event
    <2> QED BY <2>1, Zenon
  <1>6. WatchTypeOK'
    <2>1. \A j \in Key : cache'[j] = Nil \/ (cache'[j].rev \in 1 .. Len(changes) /\ changes[cache'[j].rev].key = j
                                             /\ changes[cache'[j].rev].value = cache'[j].value)
      <3>1. CASE cache'[k] = [rev |-> pos, value |-> v]
        BY <1>0, <1>1, <1>2, <1>4, <3>1
      <3>2. CASE cache'[k] = Nil \/ cache'[k] = cache[k]
        BY <1>2, <1>4, <3>2
      <3> QED BY <1>4, <3>1, <3>2
    <2>2. pos' \in 1 .. Len(changes) + 1
      BY <1>0
    <2>3. event' \in BOOLEAN
      BY DEF _process_event, WatchTypeOK
    <2> QED BY <1>3, <2>1, <2>2, <2>3 DEF WatchTypeOK
  <1>7. WatchTypes'
    BY <1>3, <1>4, <1>5 DEF WatchTypes
  <1>8. Threads'
    BY <1>0, <1>3 DEF Threads
  <1>9. Following'
    <2> SUFFICES ASSUME filled, NEW j \in Key, j \notin resurrected', \A r \in pos + 1 .. Len(changes) : changes[r].key /= j
                 PROVE  Current(j, pos - 1)'
      BY <1>0, <1>3 DEF Following
    <2>0. pos' - 1 = pos
      BY <1>0
    <2>1. CASE j /= k
      <3>1. Current(j, pos - 1)
        BY <1>0, <1>3, <2>1 DEF Following
      <3>2. ASSUME NEW r PROVE Newest(j, r, pos) <=> Newest(j, r, pos - 1)
        <4>1. changes[pos].key /= j /\ pos \in Nat
          BY <1>0, <2>1
        <4> QED BY <4>1 DEF Newest
      <3>3. CASE cache[j] = Nil
        <4>1. \A r \in 1 .. pos : Newest(j, r, pos) => changes[r].value = Nil
          BY <1>0, <3>1, <3>2, <3>3 DEF Current, Newest
        <4> QED BY <1>3, <1>4, <2>0, <2>1, <3>3, <4>1 DEF Current, Newest
      <3>4. CASE cache[j] /= Nil
        <4>1. Newest(j, cache[j].rev, pos)
          BY <3>1, <3>2, <3>4 DEF Current
        <4> QED BY <1>3, <1>4, <2>0, <2>1, <3>4, <4>1 DEF Current, Newest
      <3> QED BY <3>3, <3>4
    <2>2. CASE j = k
      <3>0. Newest(k, pos, pos) /\ \A r : Newest(k, r, pos) => r = pos
        BY <1>0 DEF Newest
      <3>1. cache[k] /= Nil => cache[k].rev \in 1 .. pos
        BY <1>0, <1>2, <2>2
      <3>2. CASE v = Nil
        <4>1. cache'[k] = Nil
          BY <1>0, <1>1, <1>2, <1>4, <3>1, <3>2, WatchAssumption DEF Entries
        <4> QED BY <1>3, <2>0, <2>2, <3>0, <3>2, <4>1 DEF Current, Newest
      <3>3. CASE v /= Nil
        <4>1. cache'[k] /= Nil /\ cache'[k].rev = pos
          BY <1>0, <1>2, <1>4, <3>1, <3>3
        <4> QED BY <1>3, <2>0, <2>2, <3>0, <4>1 DEF Current, Newest
      <3> QED BY <3>2, <3>3
    <2> QED BY <2>1, <2>2
  <1>10. OwnKept'
    <2>1. filled' /\ older' => pos' <= own'
      BY <1>0, <1>3, <1>5
    <2> SUFFICES ASSUME filled, own > 0, ~older', changes[own].value /= Nil
                 PROVE  LET o == changes[own].key
                        IN IF cache'[o] = Nil
                           THEN \E r \in own + 1 .. Len(changes) : (r < pos + 1 \/ r <= got) /\ changes[r].key = o /\ changes[r].value = Nil
                           ELSE cache'[o].rev >= own
      BY <1>0, <1>3, <2>1 DEF OwnKept
    <2> DEFINE o == changes[own].key
    <2>2. o \in Key
      <3>1. own \in 1 .. Len(changes)
        BY <1>0
      <3>2. changes[own] \in [key : Key, value : Owner \cup {Nil}]
        BY <3>1, ElementOfSeq DEF WatchTypes
      <3> QED BY <3>2
    <2>3. CASE older
      <3>1. pos = own
        BY <1>0, <1>5, <2>3 DEF OwnKept
      <3>2. o = k /\ v /= Nil
        BY <3>1
      <3>3. cache'[k] /= Nil /\ cache'[k].rev >= pos
        <4>1. CASE cache[k] = Nil
          BY <1>0, <1>4, <3>2, <4>1
        <4>2. CASE cache[k] /= Nil /\ cache[k].rev < pos
          BY <1>0, <1>4, <3>2, <4>2
        <4>3. CASE cache[k] /= Nil /\ ~(cache[k].rev < pos)
          <5>1. cache[k].rev \in Nat
            BY <1>0, <1>2, <3>2, <2>2, <4>3
          <5> QED BY <1>0, <1>4, <3>2, <4>3, <5>1
        <4> QED BY <4>1, <4>2, <4>3
      <3> QED BY <3>1, <3>2, <3>3
    <2>4. CASE ~older
      <3>1. IF cache[o] = Nil
            THEN \E r \in own + 1 .. Len(changes) : (r < pos \/ r <= got) /\ changes[r].key = o /\ changes[r].value = Nil
            ELSE cache[o].rev >= own
        BY <2>4 DEF OwnKept
      <3>2. CASE o /= k
        BY <1>0, <1>4, <2>2, <3>1, <3>2
      <3>3. CASE o = k
        <4>0. got <= pos
          BY DEF Threads
        <4>1. CASE cache[k] = Nil
          <5>1. PICK r \in own + 1 .. Len(changes) : (r < pos \/ r <= got) /\ changes[r].key = o /\ changes[r].value = Nil
            BY <3>1, <3>3, <4>1
          <5>2. pos >= own /\ (r < pos + 1)
            BY <1>0, <4>0, <5>1
          <5>3. CASE v = Nil
            BY <1>4, <3>3, <4>1, <5>1, <5>2, <5>3
          <5>4. CASE v /= Nil
            BY <1>0, <1>4, <3>3, <4>1, <5>2, <5>4
          <5> QED BY <5>3, <5>4
        <4>2. CASE cache[k] /= Nil
          <5>1. cache[k].rev >= own /\ cache[k].rev \in 1 .. Len(changes)
            BY <1>2, <2>2, <3>1, <3>3, <4>2
          <5>2. CASE cache'[k] = cache[k]
            BY <3>3, <4>2, <5>1, <5>2
          <5>3. CASE cache'[k] = [rev |-> pos, value |-> v] /\ v /= Nil /\ cache[k].rev < pos
            BY <1>0, <1>4, <3>3, <5>1, <5>3
          <5>4. CASE cache'[k] = Nil /\ v = Nil /\ cache[k].rev < pos
            <6>1. pos \in own + 1 .. Len(changes) /\ pos < pos + 1
              BY <1>0, <5>1, <5>4
            <6> QED BY <3>3, <5>4, <6>1
          <5>5. CASE ~(cache[k].rev < pos)
            BY <1>4, <4>2, <5>2, <5>5
          <5>6. CASE cache[k].rev < pos
            BY <1>4, <4>2, <5>3, <5>4, <5>6
          <5> QED BY <5>5, <5>6
        <4> QED BY <4>1, <4>2
      <3> QED BY <3>2, <3>3
    <2> QED BY <2>3, <2>4
  <1>11. Awake'
    <2> SUFFICES ASSUME ha = "sleeps", ~event', ~rebuilt
                 PROVE  leader_read = Cached(Leader)'
      BY <1>3 DEF Awake
    <2>1. \/ ~event /\ ~Kubernetes_process_event(k, v)
          \/ ~event /\ ~Etcd3_process_event(k, v)
      <3>1. event' = (event \/ IF backend = "etcd3" THEN Etcd3_process_event(k, v) ELSE Kubernetes_process_event(k, v))
        BY DEF _process_event
      <3> HIDE DEF k, v
      <3> DEFINE E == Etcd3_process_event(k, v)
                 K == Kubernetes_process_event(k, v)
      <3>2. event' = (event \/ IF backend = "etcd3" THEN E ELSE K)
        BY <3>1
      <3> HIDE DEF E, K
      <3>3. CASE backend = "etcd3"
        <4>1. event' = (event \/ E)
          BY <3>2, <3>3
        <4> QED BY <4>1, Zenon DEF E
      <3>4. CASE backend /= "etcd3"
        <4>1. event' = (event \/ K)
          BY <3>2, <3>4
        <4>2. ~event /\ ~K
          BY <4>1, Zenon
        <4> QED BY <4>2 DEF K
      <3> QED BY <3>3, <3>4
    <2>2. leader_read = Cached(Leader)
      BY <2>1 DEF Awake
    <2>3. CASE k /= Leader \/ cache'[Leader] = cache[Leader]
      BY <1>4, <2>2, <2>3, WatchAssumption DEF Cached
    <2>4. CASE k = Leader /\ cache'[Leader] /= cache[Leader]
      <3>1. Cached(Leader) = v
        BY <2>1, <2>4 DEF Kubernetes_process_event, Etcd3_process_event, Changed
      <3>2. CASE v = Nil
        <4>1. cache[Leader] = Nil
          BY <1>1, <1>2, <2>4, <3>1, <3>2, WatchAssumption DEF Cached, Entries
        <4> QED BY <1>4, <2>4, <3>2, <4>1
      <3>3. CASE v /= Nil
        <4>1. cache'[Leader] = [rev |-> pos, value |-> v] /\ cache'[Leader] /= Nil
          BY <1>4, <2>4, <3>3
        <4>2. Cached(Leader)' = v
          BY <4>1 DEF Cached
        <4> QED BY <2>2, <3>1, <4>2
      <3> QED BY <3>2, <3>3
    <2> QED BY <2>3, <2>4
  <1> QED BY <1>6, <1>7, <1>8, <1>9, <1>10, <1>11

-----------------------------------------------------------------------------
(* Watch caches: the theorem.                                               *)

LEMMA InitWatchIInv == WatchInit => WatchIInv
  <1> SUFFICES ASSUME WatchInit PROVE WatchIInv
    OBVIOUS
  <1> USE DEF WatchInit
  <1>0. changes = <<>> /\ Len(changes) = 0
    OBVIOUS
  <1>1. WatchTypeOK
    <2>1. leader_read \in Owner \cup {Nil} /\ \A k \in Key : cache[k] = Nil
      OBVIOUS
    <2>2. got \in 0 .. Len(changes) /\ pos \in 1 .. Len(changes) + 1 /\ own \in 0 .. Len(changes)
      BY <1>0
    <2>3. /\ backend \in KvBackend /\ filled \in BOOLEAN /\ event \in BOOLEAN
          /\ thread_pc = "list" /\ ha = "sleeps"
      OBVIOUS
    <2> HIDE DEF WatchInit
    <2> QED BY <2>1, <2>2, <2>3 DEF WatchTypeOK
  <1>2. WatchTypes
    <2>1. changes \in Seq([key : Key, value : Owner \cup {Nil}])
      BY <1>0, EmptySeq
    <2>2. cache \in [Key -> Entries \cup {Nil}]
      OBVIOUS
    <2> QED BY <2>1, <2>2 DEF WatchTypes
  <1>4. Threads /\ Following /\ OwnKept
    BY DEF Threads, Following, OwnKept
  <1>3. Awake
    BY WatchAssumption DEF Awake, Cached
  <1> QED BY <1>1, <1>2, <1>3, <1>4

LEMMA NextWatchIInv == WatchIInv /\ [WatchNext]_watchVars => WatchIInv'
  <1> SUFFICES ASSUME WatchIInv, [WatchNext]_watchVars PROVE WatchIInv'
    OBVIOUS
  <1>1. CASE WatchNext
    BY <1>1, OtherKeeps, OwnKeeps, OwnToCacheKeeps, ConditionFailsKeeps, ListKeeps, BuildCacheKeeps, WatchesKeep,
       ProcessEventKeeps, HaLoopKeeps
       DEF WatchNext
  <1>2. CASE UNCHANGED watchVars
    <2> USE <1>2 DEF watchVars, thread, loop, marks
    <2>1. WatchTypeOK' /\ WatchTypes' /\ Threads'
      BY DEF WatchTypeOK, WatchTypes, Threads
    <2>2. Following' /\ OwnKept' /\ Awake'
      BY DEF Following, OwnKept, Awake, Current, Newest, Cached
    <2> QED BY <2>1, <2>2
  <1> QED BY <1>1, <1>2

LEMMA WatchIInvSafe == WatchIInv => WatchSafe
  <1> SUFFICES ASSUME WatchIInv PROVE WatchSafe
    OBVIOUS
  <1>0. Len(changes) \in Nat /\ pos \in 1 .. Len(changes) + 1
    BY DEF WatchTypes, WatchTypeOK
  <1>1. Converges
    <2> SUFFICES ASSUME thread_pc = "watch", pos > Len(changes), NEW k \in Key, k \notin resurrected
                 PROVE  cache[k] = Stored(k, Len(changes))
      BY DEF Converges
    <2>1. pos - 1 = Len(changes) /\ pos .. Len(changes) = {}
      BY <1>0
    <2>2. Current(k, Len(changes))
      BY <2>1 DEF Following, Threads
    <2>3. cache[k] = Nil \/ changes[cache[k].rev].value = cache[k].value
      BY DEF WatchTypeOK
    <2> QED BY <1>0, <2>2, <2>3, CurrentIs
  <1>2. OwnWriteKept
    BY DEF OwnWriteKept, OwnKept
  <1>3. NoMissedWake
    BY DEF NoMissedWake, Awake
  <1>4. RestartKept
    BY DEF RestartKept, Threads
  <1> QED BY <1>1, <1>2, <1>3, <1>4 DEF WatchSafe

\* When every change has been delivered the cache is the store, the node finds its own
\* write there or what overtook it, the HA loop does not sleep on another leader than
\* the one in the cache, and a cache found stale is rebuilt; for any keys, revisions
\* and faults (KVCache, ObjectCache).
THEOREM WatchIsSafe == WatchSpec => []WatchSafe
  <1>1. WatchInit => WatchIInv
    BY InitWatchIInv
  <1>2. WatchIInv /\ [WatchNext]_watchVars => WatchIInv'
    BY NextWatchIInv
  <1>3. WatchIInv => WatchSafe
    BY WatchIInvSafe
  <1> QED
    <2> HIDE DEF WatchIInv
    <2> QED BY <1>1, <1>2, <1>3, PTL DEF WatchSpec
=============================================================================
