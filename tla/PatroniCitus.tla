------------------------------ MODULE PatroniCitus ------------------------------
(***************************************************************************)
(* A Citus coordinator keeps pg_dist_node, the table of the primaries of   *)
(* all groups.  Requests of workers (a switchover pauses the clients in a  *)
(* transaction that stays open until the new primary runs) and the HA loop *)
(* add tasks; a thread with a cache of the table works them off.           *)
(*                                                                         *)
(* The addresses of a group are names; a demoted row has the name with the *)
(* suffix `-demoted`.  Ports, cooldown and Citus' own errors are left out. *)
(***************************************************************************)
EXTENDS Naturals, SequencesExt

CONSTANTS
    CitusGroup,     \* the coordinator is in group 0
    CitusHosts,     \* [CitusGroup -> SUBSET names], the nodes of a group
    Self,           \* the name of the coordinator modelled
    Nothing,
    MaxFaults       \* bound: failing queries and stops of Postgres

VARIABLES
    db,             \* pg_dist_node, committed
    tx,             \* the rows in the open transaction of the handler, or Nothing
    serving,        \* primary, stopping and demoted, down, or replica
    group_leader,   \* the running primary of a group in the DCS
    cache,          \* _pg_dist_node: the host and whether nodeid is known
    tasks,          \* _tasks
    in_flight,      \* _in_flight
    load,           \* _schedule_load_pg_dist_node
    stage, hand, idx, changed,  \* the thread: the task in hand, update_cache
    orphaned,       \* the handler has lost track of its transaction (Postgres stopped, or
                    \* on_demote forgot it) and the cache was not read since
    synced,         \* the worker groups for whose leader the HA loop has asked, and
                    \* not while the table was read (the task is then compared
                    \* with the former cache) nor before it was read anew
    faults

thread == <<stage, hand, idx, changed>>
history == <<orphaned, synced, faults>>
citusVars == <<db, tx, serving, group_leader, cache, tasks, in_flight, load, thread, history>>

Row(h, demoted) == [host |-> h, demoted |-> demoted]
Address == [host : UNION {CitusHosts[g] : g \in CitusGroup}, demoted : BOOLEAN]
Rows == [CitusGroup -> {Nothing} \cup Address]
Event == {"before_demote", "before_promote", "after_promote"}
Task == [group : CitusGroup, row : Address, event : Event, rest : BOOLEAN, known : BOOLEAN, expired : BOOLEAN]
Entry == [row : Address, known : BOOLEAN]

\* The coordinator is a node of group 0; Nothing is nothing else.
ASSUME CitusAssumption ==
    /\ 0 \in CitusGroup /\ Self \in CitusHosts[0] /\ MaxFaults \in Nat
    /\ Nothing \notin Rows \cup Address \cup Task \cup Entry \cup BOOLEAN

\* rest: timeout is set; expired: the deadline is over; known: nodeid is set.
PgDistNode(group, h, event, rest) ==
    [group |-> group, row |-> Row(h, event = "before_demote"), event |-> event,
     rest |-> rest, known |-> FALSE, expired |-> ~rest]
Cached(row) == [row |-> row, known |-> TRUE]
Equal(task, c) == c /= Nothing /\ task.event = "after_promote" /\ task.row = c.row

\* bootstrap: the coordinator registers itself.
Bootstrapped == [g \in CitusGroup |-> IF g = 0 THEN Row(Self, FALSE) ELSE Nothing]

CitusInit ==
    /\ db = Bootstrapped /\ tx = Nothing /\ serving = "primary"
    /\ group_leader \in [CitusGroup -> UNION {CitusHosts[g] : g \in CitusGroup}]
    /\ \A g \in CitusGroup : group_leader[g] \in CitusHosts[g] /\ (g = 0 => group_leader[g] = Self)
    /\ cache = [g \in CitusGroup |-> Nothing] /\ tasks = <<>> /\ in_flight = Nothing /\ load = TRUE
    /\ stage = "wait" /\ hand = Nothing /\ idx = 0 /\ changed = Nothing
    /\ orphaned = FALSE /\ synced = {} /\ faults = 0

May == faults < MaxFaults /\ faults' = faults + 1

-----------------------------------------------------------------------------
(* Tasks.                                                                   *)

\* The position of the first one; 0 if there is none.
FirstOf(positions) == IF positions = {} THEN 0 ELSE Min(positions)
find_task_by_group(ts, g) == FirstOf({i \in DOMAIN ts : ts[i].group = g})

\* A task of the HA loop gives way to one of a leader, queued or in flight.
Yields(task, i) ==
    /\ ~task.rest
    /\ \/ i /= 0 /\ tasks[i].rest
       \/ in_flight /= Nothing /\ in_flight.group = task.group /\ in_flight.rest /\ ~in_flight.expired

Wanted(task) ==
    \/ load \/ ~Equal(task, cache[task.group])
    \/ in_flight /= Nothing /\ in_flight.group = task.group

_add_task(task) ==
    LET i == find_task_by_group(tasks, task.group)
        Differs == tasks[i].event /= task.event \/ tasks[i].row /= task.row
    IN tasks' = IF Yields(task, i) THEN tasks
                ELSE IF i /= 0 THEN (IF Differs THEN [tasks EXCEPT ![i] = task] ELSE tasks)
                ELSE IF Wanted(task) THEN Append(tasks, task) ELSE tasks

\* A request of the leader of a worker group; those of others are ignored.
handle_event(g, event) ==
    /\ g /= 0
    /\ _add_task(PgDistNode(g, group_leader[g], event, TRUE))
    /\ UNCHANGED <<db, tx, serving, group_leader, cache, in_flight, load, thread, history>>

\* The loop of sync_meta_data, one group at a time.  h is the leader in the
\* cluster that the HA loop has read: the present one or a former one.
sync_meta_data(g, h) ==
    LET task == PgDistNode(g, h, "after_promote", FALSE)
    IN /\ serving = "primary" /\ (g = 0 => h = Self)
       /\ _add_task(task)
       /\ synced' = IF h = group_leader[g] /\ stage /= "load" /\ ~Yields(task, find_task_by_group(tasks, g))
                    THEN synced \cup ({g} \ {0}) ELSE synced \ {g}
       /\ UNCHANGED <<db, tx, serving, group_leader, cache, in_flight, load, thread, orphaned, faults>>

Deadline ==
    /\ in_flight /= Nothing /\ ~in_flight.expired
    /\ in_flight' = [in_flight EXCEPT !.expired = TRUE]
    /\ UNCHANGED <<db, tx, serving, group_leader, cache, tasks, load, thread, history>>

-----------------------------------------------------------------------------
(* The thread.                                                              *)

\* query's handler: the connection is closed, and the transaction with it.
Failed ==
    /\ tx' = Nothing /\ in_flight' = Nothing /\ load' = TRUE

\* A query of the thread fails when Postgres is down, or by itself.
Answers(writes) == serving \in {"primary", "stopping"} \cup IF writes THEN {} ELSE {"replica"}
MayFail(writes) == IF Answers(writes) THEN May ELSE faults' = faults
MaySucceed(writes) == Answers(writes) /\ faults' = faults

Rollback ==
    /\ stage = "wait" /\ in_flight /= Nothing
    /\ (load \/ (in_flight.expired /\ tasks /= <<>>))
    /\ synced' = synced \ {in_flight.group}
    /\ \/ MaySucceed(FALSE) /\ tx' = Nothing /\ in_flight' = Nothing /\ load' = load /\ stage' = "next"
       \/ MayFail(FALSE) /\ Failed /\ stage' = "wait"
    /\ UNCHANGED <<db, serving, group_leader, cache, tasks, hand, idx, changed, orphaned>>

Wake ==
    /\ stage = "wait" /\ (IF load THEN in_flight = Nothing ELSE tasks /= <<>>)
    /\ stage' = "next"
    /\ UNCHANGED <<db, tx, serving, group_leader, cache, tasks, in_flight, load, hand, idx, changed, history>>

\* The flag is reset before the table is read.
LoadBegins ==
    /\ stage = "next" /\ in_flight = Nothing /\ load
    /\ load' = FALSE /\ stage' = "load"
    /\ UNCHANGED <<db, tx, serving, group_leader, cache, tasks, in_flight, hand, idx, changed, history>>

Now == IF tx = Nothing THEN db ELSE tx

load_pg_dist_node ==
    /\ stage = "load"
    /\ \/ /\ MaySucceed(FALSE) /\ stage' = "next"
          /\ orphaned' = (tx /= Nothing) /\ synced' = IF orphaned THEN {} ELSE synced
          /\ cache' = [g \in CitusGroup |-> IF Now[g] = Nothing THEN Nothing ELSE Cached(Now[g])]
          /\ UNCHANGED <<tx, in_flight, load>>
       \/ /\ MayFail(FALSE) /\ Failed /\ stage' = "wait"
          /\ UNCHANGED <<cache, orphaned, synced>>
    /\ UNCHANGED <<db, serving, group_leader, tasks, hand, idx, changed>>

\* What is left of the tasks: those that match the cache are dropped, group 0 first.
Kept ==
    LET zero == find_task_by_group(tasks, 0)
        matches == zero /= 0 /\ Equal(tasks[zero], cache[0])
        rest == IF matches THEN RemoveAt(tasks, zero) ELSE tasks
        first == FirstOf({i \in DOMAIN rest : ~Equal(rest[i], cache[rest[i].group])})
    IN IF in_flight /= Nothing \/ (zero /= 0 /\ ~matches) THEN tasks
       ELSE IF first = 0 THEN <<>> ELSE SubSeq(rest, first, Len(rest))

pick_task ==
    LET i == IF in_flight /= Nothing THEN find_task_by_group(Kept, in_flight.group)
             ELSE IF find_task_by_group(Kept, 0) /= 0 THEN find_task_by_group(Kept, 0)
             ELSE IF Kept /= <<>> THEN 1 ELSE 0
        nodeid(t) == IF cache[t.group] /= Nothing THEN cache[t.group].known ELSE t.known
    IN /\ stage = "next" /\ (in_flight /= Nothing \/ ~load)
       /\ tasks' = Kept
       /\ IF i = 0 THEN stage' = "wait" /\ UNCHANGED <<hand, idx>>
          ELSE /\ hand' = [Kept[i] EXCEPT !.known = nodeid(Kept[i])]
               /\ idx' = i /\ stage' = "update"
       /\ UNCHANGED <<db, tx, serving, group_leader, cache, in_flight, load, changed, history>>

\* Variant: the address is the same, whatever the event has made of it.
SameHost(task) == in_flight /= Nothing /\ in_flight.row.host = task.row.host

\* What is in flight is what the task wants.
AlreadyDone(task) == in_flight /= Nothing /\ in_flight.row = task.row

\* nodeid decides between citus_update_node, which needs a row, and
\* citus_add_node, which needs that there is none with another address.
Touches(task) == task.known \/ task.event /= "before_demote"
Applies(task, rows) ==
    LET row == rows[task.group]
    IN IF task.known THEN row /= Nothing ELSE Touches(task) => row \in {Nothing, task.row}
update_node(task, rows) == IF Touches(task) THEN [rows EXCEPT ![task.group] = task.row] ELSE rows

Raises == Failed /\ changed' = Nothing /\ stage' = "finish" /\ UNCHANGED <<db, hand>>

\* BEGIN and the update, or the update alone.
process_task ==
    LET opens == hand.event /= "after_promote"
        skip == ~opens /\ AlreadyDone(hand)
        rows == update_node(hand, Now)
    IN /\ stage = "update"
       /\ \/ /\ skip \/ Applies(hand, Now)
             /\ IF skip THEN faults' = faults /\ UNCHANGED <<db, tx>>
                ELSE /\ MaySucceed(Touches(hand))
                     /\ IF tx /= Nothing \/ (opens /\ in_flight = Nothing) THEN tx' = rows /\ db' = db
                        ELSE db' = rows /\ tx' = tx
             /\ hand' = [hand EXCEPT !.known = @ \/ (~skip /\ Touches(hand))]
             /\ changed' = ~opens /\ stage' = IF opens THEN "finish" ELSE "commit"
             /\ UNCHANGED <<in_flight, load>>
          \/ /\ ~skip
             /\ (IF Applies(hand, Now) THEN MayFail(Touches(hand)) ELSE faults' = faults)
             /\ Raises
       /\ UNCHANGED <<serving, group_leader, cache, tasks, idx, orphaned, synced>>

\* COMMIT does nothing but warn when the connection has no transaction.
Commit ==
    /\ stage = "commit"
    /\ \/ in_flight = Nothing /\ stage' = "finish" /\ faults' = faults /\ UNCHANGED <<db, tx, in_flight, load, changed, hand>>
       \/ /\ in_flight /= Nothing /\ MaySucceed(FALSE)
          /\ db' = Now /\ tx' = Nothing /\ stage' = "finish" /\ UNCHANGED <<in_flight, load, changed, hand>>
       \/ in_flight /= Nothing /\ MayFail(FALSE) /\ Raises
    /\ UNCHANGED <<serving, group_leader, cache, tasks, idx, orphaned, synced>>

\* id(self._tasks[i]) == id(task): a task that took its place stays, and that is
\* one that differs.
Popped(ts) ==
    IF idx <= Len(ts)
    THEN (IF ts[idx].event = hand.event /\ ts[idx].row = hand.row /\ ts[idx].group = hand.group
          THEN RemoveAt(ts, idx) ELSE ts)
    ELSE ts

\* With no tasks left (on_demote) nothing is noted, not even a transaction just
\* begun.  nodeid is of no use in in_flight.
process_tasks ==
    /\ stage = "finish" /\ stage' = "next" /\ hand' = Nothing /\ idx' = 0 /\ changed' = Nothing
    /\ IF tasks = <<>> THEN UNCHANGED <<cache, in_flight, tasks>>
       ELSE /\ cache' = IF changed = TRUE
                        THEN [cache EXCEPT ![hand.group] = [row |-> hand.row, known |-> hand.known]] ELSE cache
            /\ in_flight' = IF changed = FALSE THEN [hand EXCEPT !.known = FALSE] ELSE Nothing
            /\ tasks' = Popped(tasks)
    /\ synced' = synced \ (IF changed = Nothing \/ orphaned THEN {hand.group} ELSE {})
    /\ orphaned' = (orphaned \/ (tasks = <<>> /\ tx /= Nothing))
    /\ UNCHANGED <<db, tx, serving, group_leader, load, faults>>

-----------------------------------------------------------------------------
(* The coordinator's Postgres, the HA loop, and the groups.                 *)

\* A graceful demotion, before Postgres is stopped; the other ones do not call it.
on_demote ==
    /\ serving = "primary" /\ May /\ serving' = "stopping"
    /\ cache' = [g \in CitusGroup |-> Nothing] /\ tasks' = <<>> /\ in_flight' = Nothing
    /\ orphaned' = (orphaned \/ tx /= Nothing)
    /\ UNCHANGED <<db, tx, group_leader, load, thread, synced>>

PostgresStops ==
    /\ \/ serving = "stopping" /\ serving' = "demoted" /\ faults' = faults
       \/ serving = "replica" /\ serving' = "demoted" /\ May
       \/ serving = "primary" /\ serving' = "down" /\ May
    /\ tx' = Nothing /\ orphaned' = (orphaned \/ tx /= Nothing)
    /\ UNCHANGED <<db, group_leader, cache, tasks, in_flight, load, thread, synced>>

\* start() closes the connections of the pool: the next query opens one.  By the
\* time Postgres runs again the thread has noticed what became of its query.
Start(role) ==
    /\ stage \in {"wait", "next"}
    /\ (IF role = "primary" THEN serving = "down" ELSE serving \in {"down", "demoted"})
    /\ serving' = role
    /\ UNCHANGED <<db, tx, group_leader, cache, tasks, in_flight, load, thread, history>>

\* Another coordinator changes the table and is replayed; a transaction sees it.
Elsewhere(g) ==
    /\ serving = "replica"
    /\ \E h \in CitusHosts[g] :
          /\ db' = [db EXCEPT ![g] = Row(h, FALSE)]
          /\ tx' = IF tx = Nothing THEN Nothing ELSE [tx EXCEPT ![g] = Row(h, FALSE)]
    /\ UNCHANGED <<serving, group_leader, cache, tasks, in_flight, load, thread, orphaned, synced, faults>>

schedule_cache_rebuild == load' = TRUE

ReplicaPromoted ==
    /\ serving = "replica" /\ serving' = "primary" /\ schedule_cache_rebuild
    /\ synced' = {}
    /\ UNCHANGED <<db, tx, group_leader, cache, tasks, in_flight, thread, orphaned, faults>>

Switchover(g) ==
    /\ g /= 0
    /\ \E h \in CitusHosts[g] \ {group_leader[g]} : group_leader' = [group_leader EXCEPT ![g] = h]
    /\ synced' = synced \ {g}
    /\ UNCHANGED <<db, tx, serving, cache, tasks, in_flight, load, thread, orphaned, faults>>

CitusNext ==
    \/ \E g \in CitusGroup, event \in Event : handle_event(g, event)
    \/ \E g \in CitusGroup : Elsewhere(g) \/ Switchover(g) \/ \E h \in CitusHosts[g] : sync_meta_data(g, h)
    \/ \E role \in {"primary", "replica"} : Start(role)
    \/ Deadline \/ Rollback \/ Wake \/ LoadBegins \/ load_pg_dist_node
    \/ pick_task \/ process_task \/ Commit \/ process_tasks
    \/ on_demote \/ PostgresStops \/ ReplicaPromoted

CitusSpec == CitusInit /\ [][CitusNext]_citusVars

-----------------------------------------------------------------------------
(***************************************************************************)
(* What the handler of a Citus coordinator promises about pg_dist_node.    *)
(***************************************************************************)

\* The state is well-formed: one task for a group at most, its address one of
\* the group, and a transaction in flight only for a change of a worker.
CitusTypeOK ==
    /\ db \in Rows /\ tx \in Rows \cup {Nothing}
    /\ serving \in {"primary", "stopping", "demoted", "down", "replica"}
    /\ \A i \in DOMAIN tasks : tasks[i] \in Task /\ tasks[i].row.host \in CitusHosts[tasks[i].group]
    /\ \A i, j \in DOMAIN tasks : tasks[i].group = tasks[j].group => i = j
    /\ (in_flight /= Nothing => in_flight \in Task /\ in_flight.event /= "after_promote" /\ in_flight.group /= 0)
    /\ stage \in {"wait", "next", "load", "update", "commit", "finish"}
    /\ (stage \in {"update", "commit", "finish"} <=> hand /= Nothing)
    /\ (load \in BOOLEAN /\ orphaned \in BOOLEAN /\ faults \in 0 .. MaxFaults)

Rests == stage \in {"wait", "next"} /\ in_flight = Nothing /\ ~load /\ serving = "primary"

\* The handler skips changes that its cache says have been made (pick_task,
\* _add_task), so a cache that is not the table leaves clients with a wrong
\* primary for good.  Between two changes the cache of the primary is the table,
\* whatever queries have failed, whatever was rolled back, and whatever another
\* coordinator did.  Except that a transaction lost when Postgres restarts is
\* not noticed: start() replaces the connection, COMMIT only warns, and the
\* cache notes a change that the table does not have.
CacheIsTable ==
    Rests /\ ~orphaned => \A g \in CitusGroup : cache[g] /= Nothing => db[g] = cache[g].row

\* A row with the suffix `-demoted` pauses the clients of a group: it is never
\* committed, since nobody would take it back when the worker dies, save that
\* the handler has lost track of the transaction: then the update of the next
\* event commits by itself, or, between on_demote and the stop of Postgres, with
\* what on_demote left open.
CommitsNoPause == \A g \in CitusGroup : (db'[g] /= db[g] /\ db'[g] /= Nothing /\ db'[g].demoted) => orphaned
PauseIsNeverCommitted == [][CommitsNoPause]_citusVars

\* When the HA loop has asked for the present leader of a group, nothing failed
\* since and nothing is left to do, then the table has that leader: late and
\* repeated requests, tasks that override one another while one is in hand, and
\* tasks that were refused leave no other address behind.
SyncedIsLeader ==
    (Rests /\ stage = "wait" /\ tasks = <<>> /\ ~orphaned) =>
        \A g \in synced : db[g] = Row(group_leader[g], FALSE)

\* The table, the cache and what was asked for agree.
CitusSafe == [](CitusTypeOK /\ CacheIsTable /\ SyncedIsLeader) /\ PauseIsNeverCommitted
=============================================================================
