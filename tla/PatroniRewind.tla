------------------------------ MODULE PatroniRewind ------------------------------
(***************************************************************************)
(* What becomes of a node whose history has diverged from the leader's:    *)
(* the check of its timeline, pg_rewind or a new copy, crash recovery, and *)
(* the checkpoint that a new primary has to make first.                    *)
(*                                                                         *)
(* The WAL of a node is a sequence of records that know their timeline and *)
(* their author.  Whole HA cycles are single steps, but the long actions   *)
(* end later.  The race for the leader key is in PatroniHa.                *)
(***************************************************************************)
EXTENDS Naturals, Sequences
LOCAL INSTANCE SequencesExt

CONSTANTS
    Node,
    Allowed,        \* what the configurations of the nodes allow: a set of functions
    First,          \* the leader at the beginning
    MaxWal,         \* bounds: records in a WAL,
    MaxFaults,      \* crashes, keys lost, actions that fail
    Nobody

ASSUME PatroniRewindAssumption ==
    /\ {MaxWal, MaxFaults} \subseteq Nat /\ First \in Node /\ Nobody \notin Node
    /\ Allowed \subseteq [Node -> {"rewind", "reinitialize", "neither"}]

VARIABLES
    allowed,
    leader,         \* the leader key
    member,         \* the member keys: role, and whether the checkpoint was made
    wal,
    pg,             \* "down", "replica", "primary"
    control,        \* pg_control: role, clean shutdown or not, timeline of the last checkpoint,
                    \* and min, the minimum recovery ending location of a replica
    state,          \* Rewind._state
    overlooked,     \* the nodes that passed a check that did not look at all their WAL, or
                    \* whose source got another history later
    task,           \* _checkpoint_task
    busy,           \* the long action and the member it takes data from
    following,      \* primary_conninfo
    crashed,        \* this process has seen its primary crash
    recovery,       \* _crash_recovery_started
    up,
    faults

node == <<wal, pg, control, state, overlooked, task, busy, following, crashed, recovery, up>>
vars == <<allowed, leader, member, node, faults>>

NotBusy == [action |-> "none", from |-> Nobody]

Init ==
    /\ allowed \in Allowed
    /\ leader = First
    /\ member = [n \in Node |-> [role |-> IF n = leader THEN "primary" ELSE "replica", checkpoint |-> TRUE]]
    /\ wal = [n \in Node |-> <<[timeline |-> 1, by |-> leader]>>]
    /\ pg = [n \in Node |-> member[n].role]
    /\ control = [n \in Node |-> [role |-> member[n].role, clean |-> FALSE, timeline |-> 1, min |-> 1]]
    /\ overlooked = {}
    /\ state = [n \in Node |-> IF n = leader THEN "CHECKPOINT" ELSE "NOT_NEED"]
    /\ task = [n \in Node |-> "none"]
    /\ busy = [n \in Node |-> NotBusy]
    /\ following = [n \in Node |-> leader]
    /\ crashed = [n \in Node |-> FALSE]
    /\ recovery = [n \in Node |-> FALSE]
    /\ up = [n \in Node |-> TRUE]
    /\ faults = 0

Running(n) == pg[n] /= "down"
Tip(n) == Len(wal[n])
Timeline(n) == IF wal[n] = <<>> THEN 0 ELSE Last(wal[n]).timeline
can_rewind(n) == allowed[n] = "rewind"
can_rewind_or_reinitialize_allowed(n) == allowed[n] /= "neither"
Set(f, n, v) == [f EXCEPT ![n] = v]
May(f) == faults' = faults + f /\ faults + f <= MaxFaults

\* The end of every cycle: touch_member.
touch_member(n) ==
    member' = Set(member, n, [role |-> pg'[n], checkpoint |-> leader' /= n \/ state'[n] = "CHECKPOINT"])

\* A cycle of n with no action in progress.
Cycle(n) ==
    /\ up[n] /\ busy[n] = NotBusy
    /\ touch_member(n)
    /\ UNCHANGED <<allowed, up, faults>>
Begin(n, action, m) == busy' = Set(busy, n, [action |-> action, from |-> m])
End(n, action) ==
    /\ up[n] /\ busy[n].action = action
    /\ busy' = Set(busy, n, NotBusy)
    /\ UNCHANGED <<allowed, leader, member, following, crashed, up>>

\* What a stop leaves in pg_control: a clean one makes a checkpoint and notes
\* what a replica has replayed; after a crash the location of a replica may be
\* an older one, and that of a former primary is where its WAL ends.
Stopped(n, clean) ==
    \E min \in IF clean \/ pg[n] = "primary" THEN {Tip(n)} ELSE control[n].min .. Tip(n) :
        control' = Set(control, n, [role |-> pg[n], clean |-> clean, min |-> min,
                                    timeline |-> IF clean THEN Timeline(n) ELSE control[n].timeline])

Shut(n) == IF Running(n) THEN Stopped(n, TRUE) ELSE UNCHANGED control

\* Postgres is started as a replica.
Standby(n) == [control[n] EXCEPT !.role = "replica", !.clean = FALSE]

NoData == [role |-> "replica", clean |-> FALSE, timeline |-> 0, min |-> 0]

-----------------------------------------------------------------------------
(* The check.                                                               *)

\* Variant: only a state that says nothing yet is replaced.
TriggerFirst(n, s) ==
    IF can_rewind_or_reinitialize_allowed(n) /\ s = "INITIAL" THEN "CHECK" ELSE s

trigger_check_diverged_lsn(n, s) ==
    IF can_rewind_or_reinitialize_allowed(n) /\ s /= "NEED" THEN "CHECK" ELSE s

\* Where timeline t ends in the history of m: the next one begins there.
Parents(m) == {t \in 1 .. Timeline(m) - 1 : \E i \in 1 .. Tip(m) : wal[m][i].timeline = t}
SwitchPoint(m, t) == CHOOSE i \in 0 .. Tip(m) :
    /\ \A j \in 1 .. i : wal[m][j].timeline <= t
    /\ \A j \in i + 1 .. Tip(m) : wal[m][j].timeline > t

\* _get_local_timeline_lsn: how far a replica has replayed, what pg_control knows
\* of it when it is stopped, or the checkpoint of a former primary, if that was
\* shut down; nothing otherwise.  A server that runs tells its last timeline.
in_recovery(n) == Running(n) \/ control[n].role = "replica"
Locations(n) ==
    IF Running(n) THEN control[n].min .. Tip(n)
    ELSE IF control[n].role = "replica" THEN {control[n].min}
    ELSE {i \in {Tip(n)} : control[n].clean}
TimelineAt(n, lsn) == IF Running(n) THEN Timeline(n) ELSE wal[n][lsn].timeline

\* Variant: a former primary is compared by the beginning of its checkpoint.
NeedByBeginning(n, lsn, m) ==
    LET t == TimelineAt(n, lsn)
    IN \/ t > Timeline(m)
       \/ /\ t < Timeline(m)
          /\ \/ t \notin Parents(m)
             \/ (IF in_recovery(n) THEN lsn ELSE lsn - 1) > SwitchPoint(m, t)

\* _check_timeline_and_lsn: a replica may have replayed up to the switch point,
\* and the checkpoint record of a former primary has to end there.
Need(n, lsn, m) ==
    LET t == TimelineAt(n, lsn)
    IN \/ t > Timeline(m)
       \/ /\ t < Timeline(m)
          /\ \/ t \notin Parents(m)
             \/ IF in_recovery(n) THEN lsn > SwitchPoint(m, t) ELSE lsn /= SwitchPoint(m, t)

\* A check compares only with a leader that is a primary, and only with a
\* location; it may let a node pass with WAL that it has not looked at.
Checks(n, s) ==
    /\ s = "CHECK" /\ Locations(n) /= {}
    /\ leader \notin {Nobody, n} /\ member[leader].role = "primary" /\ pg[leader] = "primary"
Results(n, s) ==
    IF ~Checks(n, s) THEN {[state |-> s, overlooked |-> overlooked]}
    ELSE {IF Need(n, lsn, leader) THEN [state |-> "NEED", overlooked |-> overlooked \ {n}]
          ELSE [state |-> "NOT_NEED", overlooked |-> {m \in overlooked \cup {n} : m = n => lsn < Tip(n)}]
          : lsn \in Locations(n)}

\* rewind_or_reinitialize_needed_and_possible
Diverged(n, s) == s = "NEED" /\ leader \notin {Nobody, n}

\* _handle_rewind_or_reinitialize, when the answer is yes.
Handle(n) ==
    \/ can_rewind(n) /\ ~Running(n) /\ ~control[n].clean /\ control[n].role = "replica" /\ ~recovery[n]
       /\ recovery' = Set(recovery, n, TRUE) /\ Begin(n, "crash recovery", Nobody)
    \/ can_rewind(n) /\ (Running(n) \/ control[n].clean \/ control[n].role = "primary" \/ recovery[n])
       /\ UNCHANGED recovery /\ Begin(n, "rewind", leader)
    \/ ~can_rewind(n) /\ UNCHANGED recovery /\ Begin(n, "reinitialize", leader)

-----------------------------------------------------------------------------
(* The cycles of a node.                                                    *)

\* A replica, which may have lost the race; a change of whom it follows restarts
\* its walreceiver and asks for a check.
follow(n) ==
    /\ pg[n] = "replica" /\ leader /= n
    /\ \E result \in Results(n, state[n]) :
       LET s == result.state
           moved == following[n] /= leader
       IN /\ overlooked' = result.overlooked
          /\ \/ /\ Diverged(n, s) /\ Handle(n)
                /\ state' = Set(state, n, s) /\ UNCHANGED following
             \/ /\ ~Diverged(n, s)
                /\ state' = Set(state, n, IF moved THEN trigger_check_diverged_lsn(n, s) ELSE s)
                /\ following' = Set(following, n, leader)
                /\ UNCHANGED <<busy, recovery>>
    /\ UNCHANGED <<leader, wal, pg, control, task, crashed>>
    /\ Cycle(n)

\* A primary that has lost its key: demote("immediate-nolock").
demote(n) ==
    /\ pg[n] = "primary" /\ leader /= n
    /\ state' = Set(state, n, trigger_check_diverged_lsn(n, state[n]))
    /\ control' = Set(control, n, [Standby(n) EXCEPT !.min = Tip(n)])
    /\ pg' = Set(pg, n, "replica")
    /\ following' = Set(following, n, leader)
    /\ UNCHANGED <<leader, wal, overlooked, task, busy, crashed, recovery>>
    /\ Cycle(n)

\* The replica that is ahead of the others that run wins the key and opens a
\* timeline; what it remembers of an earlier check it keeps.
promote(n) ==
    /\ pg[n] = "replica" /\ Tip(n) < MaxWal
    /\ \/ leader = n
       \/ leader = Nobody /\ \A m \in Node \ {n} : up[m] => pg[m] /= "primary" /\ (Running(m) => Tip(m) <= Tip(n))
    /\ leader' = n
    /\ wal' = Set(wal, n, Append(wal[n], [timeline |-> Timeline(n) + 1, by |-> n]))
    /\ pg' = Set(pg, n, "primary")
    /\ UNCHANGED <<control, state, overlooked, task, busy, following, crashed, recovery>>
    /\ up[n] /\ busy[n] = NotBusy /\ UNCHANGED <<allowed, up, faults>>
    /\ member' = Set(member, n, [role |-> "replica", checkpoint |-> state[n] = "CHECKPOINT"])

\* ensure_checkpoint_after_promote: CHECKPOINT runs in a thread, and that it
\* has ended counts, not how.
ensure_checkpoint_after_promote(n) ==
    /\ pg[n] = "primary" /\ leader = n
    /\ state' = IF task[n] \in {"ok", "failed"} \/ (task[n] = "none" /\ control[n].timeline = Timeline(n))
                THEN Set(state, n, "CHECKPOINT") ELSE state
    /\ task' = IF state[n] = "CHECKPOINT" THEN task
               ELSE Set(task, n, CASE task[n] \in {"ok", "failed"} -> "none"
                                   [] task[n] = "none" /\ control[n].timeline /= Timeline(n) -> "running"
                                   [] OTHER -> task[n])
    /\ UNCHANGED <<leader, wal, pg, control, overlooked, busy, following, crashed, recovery>>
    /\ Cycle(n)

Checkpoint(n) ==
    /\ up[n] /\ task[n] = "running"
    /\ \/ /\ May(0) /\ Running(n) /\ task' = Set(task, n, "ok")
          /\ control' = [control EXCEPT ![n].timeline = Timeline(n)]
       \/ May(1) /\ task' = Set(task, n, "failed") /\ UNCHANGED control
    /\ UNCHANGED <<allowed, leader, member, wal, pg, state, overlooked, busy, following, crashed, recovery, up>>

\* _handle_crash_recovery in recover().
NeedsCrashRecovery(n) ==
    /\ ~control[n].clean /\ control[n].role = "primary"
    /\ ~recovery[n] /\ (leader = Nobody \/ can_rewind(n))

\* recover: Postgres does not run.  A rewind is forgotten when the server it
\* was made for has started, as is a checkpoint that was under way.
recover(n) ==
    /\ ~Running(n) /\ wal[n] /= <<>>
    /\ \/ /\ leader = n /\ crashed[n]                   \* it was the primary a moment ago
          /\ pg' = Set(pg, n, "primary")
          /\ control' = Set(control, n, [role |-> "primary", clean |-> FALSE, timeline |-> Timeline(n), min |-> Tip(n)])
          /\ UNCHANGED <<state, overlooked, task, busy, recovery, following>>
       \/ /\ ~(leader = n /\ crashed[n]) /\ NeedsCrashRecovery(n)
          /\ recovery' = Set(recovery, n, TRUE) /\ Begin(n, "crash recovery", Nobody)
          /\ UNCHANGED <<pg, control, state, overlooked, task, following>>
       \/ /\ leader = n /\ ~crashed[n] /\ ~NeedsCrashRecovery(n)
          /\ state' = Set(state, n, "INITIAL")          \* read only, to be promoted
          /\ task' = Set(task, n, "none")
          /\ pg' = Set(pg, n, "replica") /\ recovery' = Set(recovery, n, FALSE)
          /\ control' = Set(control, n, Standby(n))
          /\ UNCHANGED <<overlooked, busy, following>>
       \/ /\ leader /= n /\ ~NeedsCrashRecovery(n)
          /\ LET old == IF state[n] \in {"SUCCESS", "FAILED"} THEN state[n] ELSE trigger_check_diverged_lsn(n, state[n])
             IN \E result \in Results(n, old) : LET s == result.state IN
                /\ overlooked' = result.overlooked
                /\ IF Diverged(n, s)
                   THEN Handle(n) /\ state' = Set(state, n, s) /\ UNCHANGED <<pg, control, task, following>>
                   ELSE /\ state' = Set(state, n, IF s = "SUCCESS" THEN "INITIAL" ELSE s)
                        /\ task' = Set(task, n, IF s = "SUCCESS" THEN "none" ELSE task[n])
                        /\ pg' = Set(pg, n, "replica") /\ recovery' = Set(recovery, n, FALSE)
                        /\ control' = Set(control, n, Standby(n))
                        /\ following' = Set(following, n, leader)
                        /\ UNCHANGED busy
    /\ crashed' = Set(crashed, n, FALSE)
    /\ UNCHANGED <<leader, wal>>
    /\ Cycle(n)

\* A node without data takes a copy from the leader, and waits for one.
bootstrap(n) ==
    /\ wal[n] = <<>> /\ leader \notin {Nobody, n}
    /\ Begin(n, "bootstrap", leader)
    /\ UNCHANGED <<leader, wal, pg, control, state, overlooked, task, following, crashed, recovery>>
    /\ Cycle(n)

-----------------------------------------------------------------------------
(* The long actions.                                                        *)

\* ensure_clean_shutdown: the server replays its WAL in single user mode.
CrashRecoveryEnds(n) ==
    /\ End(n, "crash recovery")
    /\ \/ May(0) /\ control' = Set(control, n, [role |-> "primary", clean |-> TRUE, timeline |-> Timeline(n), min |-> Tip(n)])
       \/ May(1) /\ UNCHANGED control
    /\ UNCHANGED <<wal, pg, state, overlooked, task, recovery>>

\* A leader to rewind from: a primary that says that pg_control has its timeline.
Usable(m) == pg[m] = "primary" /\ member[m].role = "primary" /\ member[m].checkpoint

\* pg_rewind does nothing if both pg_control files have the same timeline, or if
\* the node has nothing of its own.  It leaves a server to be recovered up to the
\* end of its source.
Unneeded(n, m) == control[m].timeline = Timeline(n) \/ IsPrefix(wal[n], wal[m])
pg_rewind(n, m) ==
    \/ Unneeded(n, m) /\ UNCHANGED wal /\ Shut(n)
    \/ /\ ~Unneeded(n, m)
       /\ wal' = Set(wal, n, wal[m])
       /\ control' = Set(control, n, [role |-> "replica", clean |-> FALSE, timeline |-> control[m].timeline, min |-> Tip(m)])

\* A failed rewind may have damaged pg_control, and the configuration may have
\* the data removed after it.
RewindFails(n, m) ==
    \/ pg[m] /= "primary" /\ UNCHANGED <<wal, state>> /\ Shut(n)
    \/ state' = Set(state, n, "FAILED") /\ UNCHANGED wal /\ Shut(n)
    \/ /\ state' = Set(state, n, "INITIAL")
       /\ wal' = Set(wal, n, <<>>) /\ control' = Set(control, n, NoData)

\* Those that follow n are not told.
Overlooked(n) ==
    overlooked' = (overlooked \ {n}) \cup {m \in Node \ {n} : following[m] = n /\ wal'[n] /= wal[n]}

\* Rewind.execute: Postgres is stopped first, which may fail.
execute(n) ==
    /\ End(n, "rewind")
    /\ LET m == busy[n].from
       IN \/ Running(n) /\ May(1) /\ UNCHANGED <<wal, pg, control, state>>
          \/ /\ pg' = Set(pg, n, "down")
             /\ \/ ~Usable(m) /\ May(0) /\ Shut(n) /\ UNCHANGED <<wal, state>>
                \/ Usable(m) /\ May(0) /\ pg_rewind(n, m) /\ state' = Set(state, n, "SUCCESS")
                \/ May(1) /\ RewindFails(n, m)
    /\ Overlooked(n)
    /\ UNCHANGED <<task, recovery>>

\* clone: the state is reset, the data directory removed and copied again.
\* _do_reinitialize stops the server first.
clone(n) ==
    /\ \/ End(n, "reinitialize")
       \/ End(n, "bootstrap")
    /\ LET m == busy[n].from
       IN \/ /\ Running(m) /\ May(0)
             /\ wal' = Set(wal, n, wal[m]) /\ pg' = Set(pg, n, "replica")
             /\ control' = Set(control, n, [role |-> "replica", clean |-> FALSE, timeline |-> control[m].timeline, min |-> Tip(m)])
          \/ /\ May(IF Running(m) THEN 1 ELSE 0)
             /\ wal' = Set(wal, n, <<>>) /\ pg' = Set(pg, n, "down")
             /\ control' = Set(control, n, NoData)
    /\ state' = Set(state, n, "INITIAL") /\ task' = Set(task, n, "none")
    /\ Overlooked(n)
    /\ UNCHANGED recovery

-----------------------------------------------------------------------------
(* Postgres, and what may go wrong.                                         *)

Write(n) ==
    /\ pg[n] = "primary" /\ Tip(n) < MaxWal - 1
    /\ wal' = Set(wal, n, Append(wal[n], [timeline |-> Timeline(n), by |-> n]))
    /\ UNCHANGED <<allowed, leader, member, pg, control, state, overlooked, task, busy, following, crashed, recovery, up, faults>>

\* A replica reads on where its WAL ends, if that is in its source's history.
Stream(n) ==
    /\ pg[n] = "replica" /\ following[n] \notin {Nobody, n}
    /\ LET m == following[n]
       IN /\ Running(m) /\ Tip(n) < Tip(m) /\ IsPrefix(wal[n], wal[m])
          /\ wal' = Set(wal, n, SubSeq(wal[m], 1, Tip(n) + 1))
    /\ UNCHANGED <<allowed, leader, member, pg, control, state, overlooked, task, busy, following, crashed, recovery, up, faults>>

\* The ttl of a leader that could not renew its key.
LoseKey ==
    /\ leader /= Nobody /\ May(IF up[leader] THEN 1 ELSE 0)
    /\ leader' = Nobody
    /\ UNCHANGED <<allowed, member, node>>

\* Postgres dies, or is stopped by hand.
CrashPostgres(n) ==
    /\ up[n] /\ busy[n] = NotBusy /\ Running(n) /\ May(1)
    /\ \E clean \in BOOLEAN : Stopped(n, clean)
    /\ crashed' = Set(crashed, n, pg[n] = "primary")
    /\ pg' = Set(pg, n, "down")
    /\ UNCHANGED <<allowed, leader, member, wal, state, overlooked, task, busy, following, recovery, up>>

\* The machine dies.
Crash(n) ==
    /\ up[n] /\ May(1)
    /\ up' = Set(up, n, FALSE)
    /\ IF Running(n) THEN Stopped(n, FALSE) ELSE UNCHANGED control
    /\ pg' = Set(pg, n, "down")
    /\ state' = Set(state, n, "INITIAL") /\ task' = Set(task, n, "none")
    /\ busy' = Set(busy, n, NotBusy)
    /\ overlooked' = overlooked \ {n}
    /\ crashed' = Set(crashed, n, FALSE) /\ recovery' = Set(recovery, n, FALSE)
    /\ UNCHANGED <<allowed, leader, member, wal, following>>

Restart(n) ==
    /\ ~up[n] /\ up' = Set(up, n, TRUE)
    /\ UNCHANGED <<allowed, leader, member, wal, pg, control, state, overlooked, task, busy, following, crashed, recovery, faults>>

NodeStep(n) ==
    \/ follow(n) \/ demote(n) \/ promote(n) \/ ensure_checkpoint_after_promote(n) \/ Checkpoint(n) \/ recover(n)
    \/ bootstrap(n) \/ CrashRecoveryEnds(n) \/ execute(n) \/ clone(n) \/ Restart(n)

Next ==
    \/ LoseKey
    \/ \E n \in Node : NodeStep(n) \/ Write(n) \/ Stream(n) \/ CrashPostgres(n) \/ Crash(n)

Spec == Init /\ [][Next]_vars

Cycles(n) == demote(n) \/ promote(n) \/ recover(n) \/ bootstrap(n) \/ Restart(n) \/ follow(n)
Ends(n) == CrashRecoveryEnds(n) \/ execute(n) \/ clone(n) \/ Checkpoint(n)

\* The cycles of every node go on, its long actions end, and a machine that
\* died comes back.
FairSpec == Spec /\ \A n \in Node :
    WF_vars(Cycles(n)) /\ WF_vars(ensure_checkpoint_after_promote(n)) /\ WF_vars(Ends(n))

-----------------------------------------------------------------------------
(* What the check of the timelines and pg_rewind promise. *)

\* Sound memory: a rewind is only in progress on a node that may do it, a copy
\* only on one that may do that; a server that runs was not shut down, and
\* pg_control never knows more timelines than the WAL has.
TypeOK ==
    /\ leader \in Node \cup {Nobody}
    /\ \A n \in Node :
          /\ busy[n].action = "rewind" => can_rewind(n) /\ state[n] = "NEED"
          /\ busy[n].action = "reinitialize" => allowed[n] = "reinitialize"
          /\ Running(n) => up[n] /\ ~control[n].clean
          /\ Timeline(n) >= control[n].timeline

\* Two promotions may give their timelines the same number.
Reused(m, n) == \E i \in 1 .. Tip(m), j \in 1 .. Tip(n) :
    wal[m][i].timeline = wal[n][j].timeline /\ wal[m][i].by /= wal[n][j].by

\* A leader that says that it has made its checkpoint, and has not.
Pretends(m) == member[m].checkpoint /\ control[m].timeline /= Timeline(m)

\* The check lets a node pass only if its WAL, as far as it is looked at, is the
\* beginning of its leader's.
PassesCheck ==
    \A n \in Node : (state[n] /= "NOT_NEED" /\ state'[n] = "NOT_NEED") =>
        \/ \E lsn \in Locations(n) : IsPrefix(SubSeq(wal[n], 1, lsn), wal[leader])
                                    /\ (lsn < Tip(n) => n \in overlooked')
        \/ Reused(n, leader)
CheckSound == [][PassesCheck]_vars

\* After a rewind that succeeded a node has the leader's history, unless that
\* one pretends to have made its checkpoint.
Heals ==
    \A n \in Node : (state[n] /= "SUCCESS" /\ state'[n] = "SUCCESS") =>
        LET m == busy[n].from IN IsPrefix(wal'[n], wal[m]) \/ Pretends(m) \/ Reused(n, m)
RewindHeals == [][Heals]_vars

\* A node that may rewind or copy does not stay behind with a history of its
\* own, unless its rewind has failed, or it passed a check that did not
\* look at all its WAL, or missed that the member it follows got the history of
\* another leader in between: nothing makes it check again.
DivergedHeals ==
    \A n \in Node : ~<>[](/\ leader \notin {Nobody, n} /\ pg[leader] = "primary"
                          /\ allowed[n] /= "neither" /\ state[n] /= "FAILED"
                          /\ ~(n \in overlooked /\ state[n] \notin {"CHECK", "NEED"})
                          /\ ~IsPrefix(wal[n], wal[leader])
                          /\ ~Reused(n, leader) /\ ~Pretends(leader))

\* What the check and pg_rewind leave is the history of the leader.
RewindSafe == []TypeOK /\ CheckSound /\ RewindHeals
=============================================================================
