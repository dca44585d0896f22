------------------------------ MODULE PatroniWatch ------------------------------
(***************************************************************************)
(* The cache of the cluster's keys a node keeps in memory with etcd v3     *)
(* (KVCache) and Kubernetes (ObjectCache): a thread lists the keys and     *)
(* then follows a stream of changes; what the node has written itself is   *)
(* put into the cache by the writer, before or after the stream brings it; *)
(* and a change wakes the HA loop, which reads the cache.                   *)
(***************************************************************************)
EXTENDS Integers, Sequences

CONSTANTS Key, Leader,         \* Leader \in Key
          KvBackend,           \* \subseteq {"etcd3", "kubernetes"}
          Nil, MaxRevision, MaxWatchFaults

VARIABLES
    backend, changes,          \* the changes of the store: the revision is the position
    cache, filled, thread_pc, got, pos,    \* the thread: the listed revision, the next change of the stream
    response,                  \* "none", "open", "cut", or "closed" before it was opened
    mine, own,                 \* an answered write not yet in the cache; the last one that is
    event, ha, leader_read,    \* the HA loop: it sleeps, or is about to read; the leader it has read
    resurrected, older, rebuilt, wanted, lost, watch_faults
watchVars == <<backend, changes, cache, filled, thread_pc, got, pos, response, mine, own, event, ha, leader_read,
          resurrected, older, rebuilt, wanted, lost, watch_faults>>
thread == <<cache, filled, thread_pc, got, pos, response>>
loop == <<event, ha, leader_read>>
marks == <<resurrected, older, rebuilt, wanted, lost>>

Owner == {"self", "other"}
Entries == [rev : Nat, value : Owner]
Answered == [key : Key, value : Owner \cup {Nil}, rev : Nat]

\* Nil is no value of a key, no entry of the cache and no write.
ASSUME WatchAssumption == Leader \in Key /\ Nil \notin Owner \cup Entries \cup Answered

MayBreak == watch_faults < MaxWatchFaults /\ watch_faults' = watch_faults + 1

\* The key as the store has it at a revision.
Writes(k, n) == {r \in 1 .. n : changes[r].key = k}
LastWrite(k, n) == CHOOSE r \in Writes(k, n) : \A q \in Writes(k, n) : q <= r
Stored(k, n) == IF Writes(k, n) = {} \/ changes[LastWrite(k, n)].value = Nil THEN Nil
                ELSE [rev |-> LastWrite(k, n), value |-> changes[LastWrite(k, n)].value]
Snapshot(n) == [k \in Key |-> Stored(k, n)]
Cached(k) == IF cache[k] = Nil THEN Nil ELSE cache[k].value

WatchInit ==
    /\ backend \in KvBackend /\ changes = <<>>
    /\ cache = [k \in Key |-> Nil] /\ filled = FALSE /\ thread_pc = "list" /\ got = 0 /\ pos = 1
    /\ response = "none" /\ mine = Nil /\ own = 0
    /\ event = FALSE /\ ha = "sleeps" /\ leader_read = Nil
    /\ resurrected = {} /\ older = FALSE /\ rebuilt = FALSE /\ wanted = FALSE /\ lost = FALSE
    /\ watch_faults = 0

-----------------------------------------------------------------------------
(* Writes.                                                                  *)

Append1(k, v) == Len(changes) < MaxRevision /\ changes' = Append(changes, [key |-> k, value |-> v])

Other == /\ \E k \in Key, v \in {"other", Nil} : Append1(k, v) /\ (v = Nil => Stored(k, Len(changes)) /= Nil)
         /\ UNCHANGED <<backend, thread, mine, own, loop, marks, watch_faults>>
\* Our own, answered (call_rpc, _patch_or_create).  If the answer is lost the stream
\* brings it.
Own == /\ mine = Nil
       /\ \E k \in Key, v \in {"self", Nil} :
             /\ Append1(k, v) /\ (v = Nil => Stored(k, Len(changes)) /= Nil)
             /\ \/ mine' = [key |-> k, value |-> v, rev |-> Len(changes) + 1] /\ UNCHANGED watch_faults
                \/ MayBreak /\ UNCHANGED mine
       /\ UNCHANGED <<backend, thread, own, loop, marks>>

Older(k, r) == cache[k].rev < r
set(k, v, r) == IF cache[k] = Nil \/ Older(k, r) THEN [cache EXCEPT ![k] = [rev |-> r, value |-> v]] ELSE cache
delete(k, r) == IF cache[k] /= Nil /\ Older(k, r) THEN [cache EXCEPT ![k] = Nil] ELSE cache

\* A put that comes after the deletion of the key was seen brings the key back.
OwnToCache ==
    /\ mine /= Nil /\ mine' = Nil
    /\ cache' = IF mine.value = Nil THEN delete(mine.key, mine.rev) ELSE set(mine.key, mine.value, mine.rev)
    /\ own' = mine.rev
    /\ resurrected' = IF mine.value /= Nil /\ cache[mine.key] = Nil /\ mine.rev < pos
                          /\ Stored(mine.key, pos - 1) = Nil
                       THEN resurrected \cup {mine.key} ELSE resurrected
    /\ rebuilt' = (rebuilt \/ mine.key = Leader)
    /\ UNCHANGED <<backend, changes, filled, thread_pc, got, pos, response, loop, older, wanted, lost, watch_faults>>

kill_stream == response' = IF response \in {"open", "cut"} THEN "cut" ELSE "closed"

\* A write that fails for its condition: the cache may be stale, start again.
ConditionFails ==
    /\ MayBreak /\ kill_stream
    /\ wanted' = TRUE /\ lost' = (lost \/ thread_pc \in {"list", "listed"})
    /\ UNCHANGED <<backend, changes, cache, filled, thread_pc, got, pos, mine, own, loop, resurrected, older, rebuilt>>

-----------------------------------------------------------------------------
(* The thread.                                                              *)

\* etcd v3: from the server at hand, which may be behind.
List ==
    /\ thread_pc = "list" /\ thread_pc' = "listed"
    /\ got' \in (IF backend = "etcd3" /\ Len(changes) > 0 THEN Len(changes) - 1 ELSE Len(changes)) .. Len(changes)
    /\ wanted' = FALSE /\ lost' = FALSE
    /\ UNCHANGED <<backend, changes, cache, filled, pos, response, mine, own, loop, resurrected, older, rebuilt, watch_faults>>

\* The listed revision is delivered once more by etcd v3.  What the node had written
\* later is gone from the cache until the stream brings it.
_build_cache ==
    /\ thread_pc = "listed" /\ thread_pc' = "opens" /\ filled' = TRUE
    /\ cache' = Snapshot(got)
    /\ pos' = IF backend = "etcd3" /\ got > 0 THEN got ELSE got + 1
    /\ older' = (got < own) /\ resurrected' = {} /\ rebuilt' = TRUE
    /\ UNCHANGED <<backend, changes, got, response, mine, own, loop, wanted, lost, watch_faults>>

Opens == thread_pc = "opens" /\ thread_pc' = "opening" /\ response' = "none" /\ lost' = (lost \/ response = "closed")
_do_watch ==
    Opens \/ (thread_pc = "opening" /\ response = "none" /\ thread_pc' = "watch" /\ response' = "open" /\ UNCHANGED lost)
Watches == _do_watch /\ UNCHANGED <<backend, changes, cache, filled, got, pos, mine, own, loop, resurrected, older, rebuilt, wanted, watch_faults>>

\* The stream was closed before it was opened, is cut, or ends; for Kubernetes
\* also because the revision is too old (410).
StreamEnds ==
    /\ \/ thread_pc = "opening" /\ response = "closed" /\ UNCHANGED watch_faults
       \/ thread_pc = "watch" /\ response = "cut" /\ UNCHANGED watch_faults
       \/ thread_pc = "watch" /\ MayBreak
    /\ thread_pc' = "list" /\ filled' = FALSE /\ response' = "none"
    /\ UNCHANGED <<backend, changes, cache, got, pos, mine, own, loop, marks>>

\* Wake ups: Kubernetes whenever somebody else is the leader, too.
Changed(k, v) == cache'[k] /= cache[k] /\ Cached(k) /= v
Kubernetes_process_event(k, v) == Changed(k, v) \/ (cache'[k] /= cache[k] /\ k = Leader /\ v /= "self")
Etcd3_process_event(k, v) ==
    Changed(k, v) /\ (k = Leader \/ (v /= Nil /\ (cache'[Leader] = Nil \/ cache'[Leader].value /= "self")))
_process_event ==
    /\ thread_pc = "watch" /\ response \in {"open", "cut"} /\ pos <= Len(changes)
    /\ LET k == changes[pos].key
           v == changes[pos].value
       IN /\ cache' = (IF v = Nil THEN delete(k, pos) ELSE set(k, v, pos))
          /\ event' = (event \/ IF backend = "etcd3" THEN Etcd3_process_event(k, v) ELSE Kubernetes_process_event(k, v))
          /\ resurrected' = resurrected \ {k}
    /\ pos' = pos + 1 /\ older' = (older /\ pos < own)
    /\ UNCHANGED <<backend, changes, filled, thread_pc, got, response, mine, own, ha, leader_read, rebuilt, wanted, lost, watch_faults>>

-----------------------------------------------------------------------------
(* The HA loop: woken or timed out it clears the event, then reads.          *)

\* Variant: the event is cleared after the reading.
ClearsLate ==
    \/ ha = "sleeps" /\ ha' = "clear" /\ filled /\ leader_read' = Cached(Leader) /\ rebuilt' = FALSE /\ UNCHANGED event
    \/ ha = "clear" /\ ha' = "sleeps" /\ event' = FALSE /\ UNCHANGED <<leader_read, rebuilt>>
watch ==
    \/ ha = "sleeps" /\ ha' = "reads" /\ event' = FALSE /\ UNCHANGED <<leader_read, rebuilt>>
    \/ ha = "reads" /\ ha' = "sleeps" /\ filled /\ leader_read' = Cached(Leader) /\ rebuilt' = FALSE /\ UNCHANGED event
HaLoop == watch /\ UNCHANGED <<backend, changes, thread, mine, own, resurrected, older, wanted, lost, watch_faults>>

WatchNext == Other \/ Own \/ OwnToCache \/ ConditionFails \/ List \/ _build_cache \/ Watches \/ StreamEnds
        \/ _process_event \/ HaLoop
WatchSpec == WatchInit /\ [][WatchNext]_watchVars

-----------------------------------------------------------------------------
(* What the cache may be trusted for. *)

\* Types, and: nothing in the cache is newer than the store.
WatchTypeOK ==
    /\ backend \in KvBackend /\ filled \in BOOLEAN /\ event \in BOOLEAN
    /\ thread_pc \in {"list", "listed", "opens", "opening", "watch"} /\ (thread_pc = "watch" => response \in {"open", "cut"})
    /\ got \in 0 .. Len(changes) /\ pos \in 1 .. Len(changes) + 1 /\ own \in 0 .. Len(changes)
    /\ \A k \in Key : cache[k] = Nil \/ (cache[k].rev \in 1 .. Len(changes) /\ changes[cache[k].rev].key = k
                                          /\ changes[cache[k].rev].value = cache[k].value)
    /\ ha \in {"sleeps", "reads", "clear"} /\ leader_read \in Owner \cup {Nil}

\* When every change has been delivered the cache is the store, in whatever order the
\* node's own writes and the stream have come; unless a put was applied after the
\* deletion of its key had been (resurrected): the key then stays in the cache until
\* it is written again or the stream ends (etcd3.py:441-447, kubernetes.py:624-630).
Converges == thread_pc = "watch" /\ pos > Len(changes)
             => \A k \in Key : cache[k] = Stored(k, Len(changes)) \/ k \in resurrected

\* A node that has written a key finds its value there, or a later one, or a later
\* deletion: else a primary would not see its own leader key and be demoted.  Not
\* after the cache was rebuilt from a list that is behind (older; etcd3.py:522-526).
OwnWriteKept ==
    filled /\ own > 0 /\ ~older /\ changes[own].value /= Nil
    => LET k == changes[own].key
       IN IF cache[k] = Nil
          THEN \E r \in own + 1 .. Len(changes) : (r < pos \/ r <= got) /\ changes[r].key = k /\ changes[r].value = Nil
          ELSE cache[k].rev >= own

\* The HA loop does not go on sleeping on a leader that is not the one in the cache,
\* so that a leader key that is gone starts the race at once.  A change that
\* comes with a rebuilt cache or the node's own write does not wake it.
NoMissedWake == thread_pc = "watch" /\ ha = "sleeps" /\ ~event => leader_read = Cached(Leader) \/ rebuilt

\* A cache that was found stale is rebuilt: the stream that was open, or being opened,
\* when a write failed for its condition does not go on.  A request that comes while
\* the keys are listed is forgotten (etcd3.py:502-503, kubernetes.py:686-687).
RestartKept == thread_pc = "watch" /\ response = "open" => ~wanted \/ lost

\* The cache and the store agree.
WatchSafe == WatchTypeOK /\ Converges /\ OwnWriteKept /\ NoMissedWake /\ RestartKept
=============================================================================
