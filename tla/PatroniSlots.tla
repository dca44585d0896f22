------------------------------- MODULE PatroniSlots -------------------------------
(***************************************************************************)
(* How a permanent logical replication slot survives a failover: the       *)
(* primary publishes its position, a standby copies it (with a restart),   *)
(* a thread advances the copy, and the copy is declared safe once the      *)
(* primary keeps the catalog rows that it needs.                           *)
(*                                                                         *)
(* LSNs and transaction ids are one position.  Rows below `removed` have   *)
(* been vacuumed on the primary, and by replication everywhere; a slot may *)
(* be used only if it needs none of them.                                  *)
(***************************************************************************)
EXTENDS Integers, FiniteSetsExt

CONSTANTS
    Member,
    MaxNow,         \* bounds: positions,
    MaxFailures     \* partitions, restarts, failovers, slots dropped, calls that fail

VARIABLES
    leader,
    now,            \* the end of the WAL
    consumed,       \* what the consumer has confirmed, or begins after
    removed,
    slot,           \* the logical slot of a node: confirmed_flush_lsn and catalog_xmin
    phys,           \* catalog_xmin of the slot of a standby on the primary
    status,         \* the position in the /status key, 0 without one
    seen,           \* what the cycle of a node has read of it, Unread between cycles
    slots,          \* _replication_slots
    queue,          \* _logical_slots_processing_queue
    load,           \* _schedule_load_slots
    force,          \* _force_readiness_check
    advance,        \* SlotsAdvanceThread: scheduled, the position in hand, failed, copy
    copy,           \* copy_logical_slots: what was read, if anything
    connected,      \* the standby reaches the primary
    unready,        \* a node was promoted with a copy that was not known to be safe
    unprotected,    \* its slot on the primary was lost after the check had begun
    failures

ASSUME SlotsAssumption == MaxNow \in Nat \ {0} /\ MaxFailures \in Nat

slots_handler == <<slots, queue, load, force>>
cluster == <<leader, now, consumed, removed, phys, unready>>
patroni == <<status, seen, slots_handler, advance, copy>>
links == <<connected, unprotected, failures>>
slotsVars == <<cluster, slot, patroni, links>>

NoSlot == [confirmed |-> 0, xmin |-> 0]
Bare == [confirmed |-> -1, xmin |-> 0]      \* a name without data in the cache
Absent == -1                                \* in the queue, or of a physical slot
Null == 0                                   \* None in the queue, NULL in a physical slot
Unread == -1
NoCopy == [state |-> "idle", slot |-> NoSlot]
NoThread == [scheduled |-> 0, hand |-> 0, failed |-> FALSE, copy |-> FALSE]

Standby(n) == n /= leader
May(f) == failures' = failures + f /\ failures + f <= MaxFailures
Put(f, n, v) == [f EXCEPT ![n] = v]

SlotsInit ==
    /\ leader \in Member
    /\ now = 1 /\ consumed = 1 /\ removed = 1
    /\ slot = [n \in Member |-> NoSlot]
    /\ phys = [n \in Member |-> Absent]
    /\ status = 0
    /\ seen = [n \in Member |-> Unread]
    /\ slots = [n \in Member |-> NoSlot]
    /\ queue = [n \in Member |-> Absent]
    /\ load = [n \in Member |-> TRUE]
    /\ force = [n \in Member |-> TRUE]
    /\ advance = [n \in Member |-> NoThread]
    /\ copy = [n \in Member |-> NoCopy]
    /\ connected = [n \in Member |-> TRUE]
    /\ unprotected = [n \in Member |-> FALSE]
    /\ unready = FALSE
    /\ failures = 0

-----------------------------------------------------------------------------
(* Postgres and the consumer.                                               *)

WriteWal ==
    /\ now < MaxNow /\ now' = now + 1
    /\ UNCHANGED <<leader, consumed, removed, phys, unready, slot, patroni, links>>

\* The consumer reads from the primary; what it has read before it may read twice.
Consume ==
    /\ slot[leader] /= NoSlot
    /\ \/ \E p \in slot[leader].confirmed + 1 .. now :
            /\ slot' = [slot EXCEPT ![leader].confirmed = p]
            /\ consumed' = Max({consumed, p})
       \/ /\ slot[leader].xmin < slot[leader].confirmed
          /\ slot' = [slot EXCEPT ![leader].xmin = @ + 1]
          /\ UNCHANGED consumed
    /\ UNCHANGED <<leader, now, removed, phys, unready, patroni, links>>

Vacuum ==
    /\ LET horizon == {now} \cup {phys[n] : n \in Member} \cup {slot[leader].xmin}
       IN removed' = Min(horizon \ {Null, Absent}) /\ removed' > removed
    /\ UNCHANGED <<leader, now, consumed, phys, unready, slot, patroni, links>>

\* hot_standby_feedback: a value only grows, unless there was or is none.
Feedback(n) ==
    /\ Standby(n) /\ connected[n] /\ phys[n] /= Absent
    /\ phys' = Put(phys, n, IF slot[n] = NoSlot \/ phys[n] = Null THEN slot[n].xmin
                            ELSE Max({phys[n], slot[n].xmin}))
    /\ UNCHANGED <<leader, now, consumed, removed, unready, slot, patroni, links>>

-----------------------------------------------------------------------------
(* The cycle, which begins with a look at the slots that Postgres has.      *)

\* process_permanent_slots, for a name that is in the cache.
process_permanent_slots(n) ==
    /\ slots' = IF slots[n] \notin {NoSlot, Bare} /\ slot[n] /= NoSlot THEN Put(slots, n, slot[n]) ELSE slots
    /\ load' = Put(load, n, load[n] \/ (slots[n] /= NoSlot /\ (slot[n] = NoSlot \/ slots[n] = Bare)))

\* The cycle reads the key store, then Postgres.
Load(n) ==
    /\ seen[n] = Unread /\ copy[n] = NoCopy
    /\ Standby(n) => connected[n]
    /\ seen' = Put(seen, n, status)
    /\ process_permanent_slots(n)
    /\ UNCHANGED <<cluster, slot, status, queue, force, advance, copy, connected, unprotected, failures>>

\* load_replication_slots: the cache and the queue as they are after it.
Loaded(n) == IF load[n] THEN slot[n] ELSE slots[n]
Queued(n) == IF load[n] /\ force[n] THEN IF slot[n] = NoSlot THEN Absent ELSE Null ELSE queue[n]
load_replication_slots(n, again) ==
    /\ load' = Put(load, n, again)
    /\ force' = IF load[n] THEN Put(force, n, FALSE) ELSE force

\* Variant: the end of the WAL is published for every slot.
PublishLast(n) == status' = now

\* update_lock publishes the positions of the slots in the cache.
update_leader(n) == status' = IF slots[n] \in {NoSlot, Bare} THEN status ELSE slots[n].confirmed

\* The slots of the members are created without reserving catalog rows, and
\* the slot of a member that is gone is dropped unless it is active.
EnsurePhysicalSlots(n) == phys' = [m \in Member |->
    IF m /= n /\ connected[m] /\ phys[m] = Absent THEN Null ELSE phys[m]]

\* The cycle of the primary: _ensure_logical_slots_primary.
PrimaryCycle(n) ==
    /\ ~Standby(n) /\ seen[n] /= Unread
    /\ seen' = Put(seen, n, Unread)
    /\ update_leader(n)
    /\ EnsurePhysicalSlots(n)
    /\ queue' = Put(queue, n, Absent)
    /\ IF Loaded(n) \in {NoSlot, Bare}
       THEN /\ slot' = IF slot[n] = NoSlot THEN Put(slot, n, [confirmed |-> now, xmin |-> now]) ELSE slot
            /\ consumed' = IF slot[n] = NoSlot THEN now ELSE consumed
            /\ slots' = Put(slots, n, Bare)
            /\ load_replication_slots(n, TRUE)
       ELSE /\ slots' = Put(slots, n, Loaded(n))
            /\ load_replication_slots(n, FALSE)
            /\ UNCHANGED <<slot, consumed>>
    /\ UNCHANGED <<leader, now, removed, unready, advance, copy, connected, unprotected, failures>>

\* _ready_logical_slots: the reservation has overtaken what the primary may have
\* removed before it was made.
Ready(value, xmin, s) == xmin > Null /\ value <= xmin /\ xmin <= s.xmin

\* check_logical_slots_readiness: the queue as the check leaves it.
Remembered(n) == IF Queued(n) = Null /\ slot[leader] /= NoSlot THEN slot[leader].xmin ELSE Queued(n)
check_logical_slots_readiness(n) ==
    IF Queued(n) = Absent \/ (Loaded(n) = NoSlot /\ phys[n] > Null) THEN Absent
    ELSE IF phys[n] <= Null THEN Queued(n)
    ELSE IF Ready(Remembered(n), phys[n], Loaded(n)) THEN Absent
    ELSE Remembered(n)

\* A slot that is queued here and that the primary does not have: None <= int.
Raises(n) == Queued(n) = Null /\ Loaded(n) /= NoSlot /\ phys[n] > Null /\ slot[leader] = NoSlot

\* SlotsAdvanceThread.schedule: its feedback is read and forgotten.
schedule_slots(n, lsn) ==
    advance' = [advance EXCEPT ![n].scheduled = IF lsn > 0 THEN lsn ELSE @,
                             ![n].failed = FALSE, ![n].copy = FALSE]

\* The cycle of a standby: _ensure_logical_slots_replica.
ReplicaCycle(n) ==
    /\ Standby(n) /\ seen[n] /= Unread /\ connected[n]
    /\ seen' = Put(seen, n, Unread)
    /\ IF Raises(n) \/ Loaded(n) = Bare
       THEN /\ queue' = Put(queue, n, IF Raises(n) THEN Queued(n) ELSE check_logical_slots_readiness(n))
            /\ slots' = Put(slots, n, Loaded(n))
            /\ load_replication_slots(n, TRUE)
            /\ UNCHANGED <<advance, copy>>
       ELSE LET s == Loaded(n)
                lsn == seen[n]
                ask == advance[n].copy \/ (s = NoSlot /\ lsn > 0)
            IN /\ queue' = Put(queue, n, check_logical_slots_readiness(n))
               /\ slots' = Put(slots, n, IF s = NoSlot /\ lsn = 0 THEN Bare ELSE s)
               /\ load_replication_slots(n, advance[n].failed)
               /\ schedule_slots(n, IF s /= NoSlot /\ s.confirmed < lsn THEN lsn ELSE 0)
               /\ copy' = IF ask THEN Put(copy, n, [NoCopy EXCEPT !.state = "asked"]) ELSE copy
    /\ unprotected' = IF Queued(n) = Null THEN Put(unprotected, n, FALSE) ELSE unprotected
    /\ UNCHANGED <<cluster, slot, status, connected, failures>>

-----------------------------------------------------------------------------
(* copy_logical_slots, in a thread of its own.                              *)

CopyRead(n) ==
    /\ copy[n].state = "asked"
    /\ \/ /\ Standby(n) /\ connected[n] /\ slot[leader] /= NoSlot /\ May(0)
          /\ copy' = Put(copy, n, [state |-> "read", slot |-> slot[leader]])
       \/ /\ May(IF Standby(n) /\ connected[n] /\ slot[leader] /= NoSlot THEN 1 ELSE 0)
          /\ copy' = Put(copy, n, NoCopy)
    /\ UNCHANGED <<cluster, slot, status, seen, slots_handler, advance, connected, unprotected>>

\* Postgres is stopped, the files are written, and its start is noticed.
CopyWrite(n) ==
    /\ copy[n].state = "read" /\ Standby(n)
    /\ slot' = Put(slot, n, copy[n].slot)
    /\ queue' = Put(queue, n, Null)
    /\ load' = Put(load, n, TRUE) /\ force' = Put(force, n, TRUE)
    /\ copy' = Put(copy, n, NoCopy)
    /\ unprotected' = Put(unprotected, n, FALSE)
    /\ UNCHANGED <<cluster, status, seen, slots, advance, connected, failures>>

-----------------------------------------------------------------------------
(* SlotsAdvanceThread.                                                      *)

sync_slots(n) ==
    /\ advance[n].hand = 0 /\ advance[n].scheduled > 0
    /\ advance' = [advance EXCEPT ![n].hand = @ + advance[n].scheduled]
    /\ UNCHANGED <<cluster, slot, status, seen, slots_handler, copy, connected, unprotected, failures>>

\* What was scheduled meanwhile stays; a failure is reported if anything is
\* scheduled still.
Unschedule(n, failed, gone) ==
    LET t == advance[n]
        told == failed /\ t.scheduled > 0
    IN advance' = Put(advance, n, [scheduled |-> IF t.scheduled = t.hand THEN 0 ELSE t.scheduled, hand |-> 0,
                                 failed |-> t.failed \/ told, copy |-> t.copy \/ (told /\ gone)])

\* pg_replication_slot_advance decodes: what the slot needs moves as well.
sync_slot(n) ==
    /\ advance[n].hand > 0
    /\ \/ /\ slot[n] /= NoSlot /\ May(0)
          /\ LET c == Max({slot[n].confirmed, advance[n].hand})
             IN \E x \in slot[n].xmin .. c : slot' = Put(slot, n, [confirmed |-> c, xmin |-> x])
          /\ Unschedule(n, FALSE, FALSE)
       \/ /\ May(IF slot[n] = NoSlot THEN 0 ELSE 1)
          /\ \E gone \in BOOLEAN : Unschedule(n, TRUE, gone)
          /\ UNCHANGED slot
    /\ UNCHANGED <<cluster, status, seen, slots_handler, copy, connected, unprotected>>

-----------------------------------------------------------------------------
(* Failover and faults.                                                     *)

\* What the check has found or remembers is about a slot that is gone.
Outdated(n) == slot[n] /= NoSlot /\ queue[n] /= Null /\ ~force[n]

on_promote(n) == [NoThread EXCEPT !.hand = advance[n].hand]

\* A standby becomes the primary; the former one restarts as a standby of it,
\* without its slots if it had to be rewound.  The new one has no slot for it.
Failover(n) ==
    /\ Standby(n) /\ connected[n] /\ copy[n].state /= "read" /\ May(1)
    /\ leader' = n
    /\ phys' = [m \in Member |-> Absent]
    /\ advance' = [m \in Member |-> IF m = n THEN on_promote(n) ELSE advance[m]]
    /\ seen' = [m \in Member |-> Unread]
    /\ load' = Put(load, leader, TRUE) /\ force' = Put(force, leader, TRUE)
    /\ \/ UNCHANGED slot
       \/ slot' = Put(slot, leader, NoSlot)
    /\ unready' = (unready \/ (slot[n] /= NoSlot /\ (queue[n] /= Absent \/ force[n] \/ unprotected[n])))
    /\ unprotected' = [m \in Member |-> m \notin {n, leader} /\ Outdated(m)]
    /\ UNCHANGED <<now, consumed, removed, status, slots, queue, copy, connected>>

Partition(n) ==
    /\ Standby(n) /\ connected[n] /\ May(1)
    /\ connected' = Put(connected, n, FALSE)
    /\ UNCHANGED <<cluster, slot, status, seen, slots_handler, advance, copy, unprotected>>

Heal(n) ==
    /\ ~connected[n] /\ connected' = Put(connected, n, TRUE)
    /\ UNCHANGED <<cluster, slot, status, seen, slots_handler, advance, copy, unprotected, failures>>

\* _drop_incorrect_slots: the key of the member has expired, its slot is not active.
DropPhysicalSlot(n) ==
    /\ Standby(n) /\ ~connected[n] /\ phys[n] /= Absent
    /\ phys' = Put(phys, n, Absent)
    /\ unprotected' = Put(unprotected, n, Outdated(n))
    /\ UNCHANGED <<leader, now, consumed, removed, unready, slot, patroni, connected, failures>>

\* Postgres is restarted, which Patroni notices; or Patroni is.
NodeRestarts(n) ==
    /\ May(1) /\ copy[n] = NoCopy
    /\ load' = Put(load, n, TRUE) /\ force' = Put(force, n, TRUE)
    /\ seen' = Put(seen, n, Unread)
    /\ \/ UNCHANGED <<slots, queue, advance>>
       \/ /\ slots' = Put(slots, n, NoSlot)
          /\ queue' = Put(queue, n, Absent)
          /\ advance' = Put(advance, n, NoThread)
    /\ UNCHANGED <<cluster, slot, status, copy, connected, unprotected>>

\* Somebody drops the slot of a standby.
DropSlot(n) ==
    /\ Standby(n) /\ slot[n] /= NoSlot /\ May(1)
    /\ slot' = Put(slot, n, NoSlot)
    /\ UNCHANGED <<cluster, status, seen, slots_handler, advance, copy, connected, unprotected>>

NodeStep(n) ==
    \/ Feedback(n) \/ Load(n) \/ PrimaryCycle(n) \/ ReplicaCycle(n) \/ CopyRead(n) \/ CopyWrite(n)
    \/ sync_slots(n) \/ sync_slot(n) \/ Failover(n) \/ Partition(n) \/ Heal(n)
    \/ DropPhysicalSlot(n) \/ NodeRestarts(n) \/ DropSlot(n)

SlotsNext == WriteWal \/ Consume \/ Vacuum \/ \E n \in Member : NodeStep(n)

SlotsSpec == SlotsInit /\ [][SlotsNext]_slotsVars

-----------------------------------------------------------------------------
(* What the slots have to satisfy.                                         *)

Positions == 0 .. MaxNow
Slots == [confirmed : Positions, xmin : Positions]

\* Types; a slot never needs more than it has confirmed.
SlotsTypeOK ==
    /\ leader \in Member
    /\ {now, consumed, removed} \subseteq 1 .. MaxNow
    /\ \A n \in Member : slot[n] \in Slots /\ slot[n].xmin <= slot[n].confirmed
    /\ phys \in [Member -> Positions \cup {Absent}]
    /\ status \in Positions
    /\ seen \in [Member -> Positions \cup {Unread}]
    /\ slots \in [Member -> Slots \cup {Bare}]
    /\ queue \in [Member -> Positions \cup {Absent}]
    /\ {load, force} \subseteq [Member -> BOOLEAN]
    /\ advance \in [Member -> [scheduled : Positions, hand : Positions, failed : BOOLEAN, copy : BOOLEAN]]
    /\ copy \in [Member -> [state : {"idle", "asked", "read"}, slot : Slots]]
    /\ {connected, unprotected} \subseteq [Member -> BOOLEAN] /\ unready \in BOOLEAN
    /\ failures \in 0 .. MaxFailures

\* "Logical slot %s is safe to be used after a failover" (_ready_logical_slots):
\* a copy that is neither queued nor about to be checked needs no row that is
\* gone.  Two things it does not see: the slot of the standby on the primary is
\* lost after the check has begun, and the slot of the primary is itself one
\* that was not safe when it was promoted.
ReadyIsSafe == unready \/ \A n \in Member :
    Standby(n) /\ slot[n] /= NoSlot /\ queue[n] = Absent /\ ~force[n] /\ ~unprotected[n]
    => removed <= slot[n].xmin

\* No slot of any node, in whatever order status, copies, the thread and
\* failovers come, has moved past what its consumer has confirmed: after a
\* failover a change may be read twice, and none is skipped.
NothingSkipped == \A n \in Member : slot[n].confirmed <= consumed

\* A failover loses no change.
SlotsSafe == SlotsTypeOK /\ ReadyIsSafe /\ NothingSkipped
=============================================================================
