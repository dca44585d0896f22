------------------------------ MODULE PatroniNode ------------------------------
(***************************************************************************)
(* The threads of one Patroni and the Postgres they share: the HA loop,    *)
(* which holds the lock of the AsyncExecutor for a whole cycle, the REST   *)
(* API threads that restart or reinitialize, and the threads that run the  *)
(* long actions.  An action may be cancelled, and a critical task inside   *)
(* it (the start of a postmaster, the decision to promote) is interlocked  *)
(* with the HA loop that has lost the leader key.                          *)
(*                                                                         *)
(* The other members are one environment that may take the key when it is  *)
(* free; the race for it is in PatroniHa, rewind in PatroniRewind and the   *)
(* bootstrap of a new cluster in PatroniBootstrap.                          *)
(***************************************************************************)
EXTENDS Naturals, FiniteSets

CONSTANTS
    Thread,         \* threads that run_async can start
    MaxEvents       \* bound: restarts and reinitializations asked for, keys lost,
                    \* crashes of Postgres

ASSUME PatroniNodeAssumption == MaxEvents \in Nat /\ "none" \notin Thread

Api == "api"        \* the API thread that runs a restart itself
Runner == Thread \union {Api}

VARIABLES
    key,        \* the leader key: "mine", "other" or "none"
    ex,         \* AsyncExecutor: the action, _is_cancelled, _finish_event
    cancelled,  \* CancellableSubprocess._is_cancelled
    task,       \* the critical task of the executor
    response,   \* the critical task of a promotion, _async_response
    main,       \* the HA loop: where it is and whether it has seen its key
    recovering, role, state,
    pg,         \* the postmaster: its state, seen by Patroni?, its mode, who made it so
    conf,       \* the data directory: "primary", "replica" or "none" (empty)
    run,        \* the runners: the action and where it is
    api,        \* the API thread that reinitializes
    events,
    fenced,     \* history: runners cancelled because the key was lost
    raced       \* history: has a forced cancel met an action that had not begun, or the
                \* next one ("cancel"), and a stop of the daemon an action ("stop")?

vars == <<key, ex, cancelled, task, response, main, recovering, role, state, pg, conf, run, api,
          events, fenced, raced>>
executor == <<ex, cancelled, task, response>>
postgres == <<role, state, pg, conf>>
ghosts == <<fenced, raced>>

Fresh == [cancelled |-> FALSE, result |-> "none"]
Idle == [kind |-> "none", pc |-> "idle"]
Critical == {"restart", "starting primary after failure"}

Init ==
    /\ key = "mine"
    /\ ex = [action |-> "none", is_cancelled |-> FALSE, finished |-> TRUE]
    /\ cancelled = FALSE /\ task = Fresh /\ response = Fresh
    /\ main = [pc |-> "idle", mine |-> TRUE, release |-> FALSE]
    /\ recovering = FALSE /\ role = "primary" /\ state = "running"
    /\ pg = [proc |-> "up", seen |-> TRUE, mode |-> "primary", by |-> "none"]
    /\ conf = "primary"
    /\ run = [r \in Runner |-> Idle]
    /\ api = "idle"
    /\ events = 0
    /\ fenced = {} /\ raced = {}

Unlocked == main.pc \in {"idle", "down", "gone"}    \* nobody holds the executor's lock
Active(r) == run[r].pc /= "idle"
Body(r) == run[r].pc \notin {"idle", "new", "finish"}
is_running == pg.proc /= "down" /\ pg.seen
Down == [pg EXCEPT !.proc = "down"]
Stopped == IF is_running THEN Down ELSE pg

-----------------------------------------------------------------------------
(* AsyncExecutor and CancellableSubprocess.                                 *)

\* Only under the lock, and only when nothing is scheduled.
schedule(r, kind) ==
    /\ ex.action = "none" /\ ~Active(r)
    /\ ex' = [action |-> kind, is_cancelled |-> FALSE, finished |-> TRUE]
    /\ run' = [run EXCEPT ![r] = [kind |-> kind, pc |-> "new"]]

\* Which free thread is taken does not matter.
try_run_async(kind) == schedule(CHOOSE t \in Thread : ~Active(t), kind)
CanRun == ex.action = "none" /\ \E t \in Thread : ~Active(t)

Goto(r, pc) == run' = [run EXCEPT ![r].pc = pc]

run_enter(r) ==
    /\ Unlocked /\ run[r].pc = "new"
    /\ IF ex.is_cancelled
       THEN Goto(r, "finish") /\ UNCHANGED ex
       ELSE Goto(r, "reset") /\ ex' = [ex EXCEPT !.finished = FALSE]
    /\ UNCHANGED <<key, cancelled, task, response, main, recovering, postgres, api, events, ghosts>>

FirstStep(kind) ==
    CASE kind = "restart" -> "stop"
      [] kind = "starting primary after failure" -> "start"
      [] kind = "promote" -> "pre"
      [] kind = "reinitialize" -> "wipe"
      [] kind = "bootstrap" -> "clone"
      [] OTHER -> "conf"

\* The lock has been left: a cancel in between is forgotten.
run_reset(r) ==
    /\ run[r].pc = "reset"
    /\ cancelled' = FALSE
    /\ Goto(r, FirstStep(run[r].kind))
    /\ UNCHANGED <<key, ex, task, response, main, recovering, postgres, api, events, ghosts>>

run_finally(r) ==
    /\ Unlocked /\ run[r].pc = "finish"
    /\ ex' = [ex EXCEPT !.action = "none", !.finished = TRUE]
    /\ task' = Fresh
    /\ run' = [run EXCEPT ![r] = Idle]
    /\ fenced' = fenced \ {r}
    /\ pg' = IF pg.by = r THEN [pg EXCEPT !.by = "none"] ELSE pg
    /\ UNCHANGED <<key, cancelled, response, main, recovering, role, state, conf, api, events, raced>>

-----------------------------------------------------------------------------
(* The long actions on Postgres.                                            *)

StepOnly == UNCHANGED <<key, ex, cancelled, main, recovering, api, events, ghosts>>

\* restart: a running postmaster is stopped and waited for.
restart(r) ==
    /\ run[r].pc = "stop"
    /\ state' = "restarting" /\ pg' = Stopped
    /\ Goto(r, "start")
    /\ StepOnly /\ UNCHANGED <<task, response, role, conf>>

follow(r) ==
    /\ run[r].pc = "conf"
    /\ conf' = "replica" /\ pg' = Stopped
    /\ Goto(r, "start")
    /\ StepOnly /\ UNCHANGED <<task, response, role, state>>

\* The role comes from the data directory.
start(r) ==
    /\ run[r].pc = "start"
    /\ state' = "starting"
    /\ IF is_running
       THEN Goto(r, "finish") /\ UNCHANGED role
       ELSE /\ role' = conf
            /\ Goto(r, IF cancelled THEN "finish" ELSE "fork")
    /\ StepOnly /\ UNCHANGED <<task, response, pg, conf>>

\* Variant: the start of the postmaster holds no lock.
NoInterlock == FALSE

\* "with task or null_context()": the critical task is held until the postmaster is known.
TaskHeld == \E r \in Runner : run[r].pc = "assign" /\ run[r].kind \in Critical

PostmasterStart(r) ==
    /\ run[r].pc = "fork"
    /\ run[r].kind \in Critical => ~TaskHeld
    /\ IF (run[r].kind \in Critical /\ task.cancelled) \/ pg.proc /= "down"
       THEN Goto(r, "finish") /\ UNCHANGED pg
       ELSE /\ pg' = [proc |-> "starting", seen |-> FALSE, mode |-> conf, by |-> r]
            /\ Goto(r, "assign")
    /\ StepOnly /\ UNCHANGED <<task, response, role, state, conf>>

PostmasterKnown(r) ==
    /\ run[r].pc = "assign"
    /\ pg' = [pg EXCEPT !.seen = TRUE]
    /\ task' = IF run[r].kind \in Critical THEN [task EXCEPT !.result = "postmaster"] ELSE task
    /\ Goto(r, "wait")
    /\ StepOnly /\ UNCHANGED <<response, role, state, conf>>

\* wait_for_port_open and wait_for_startup: it is up, it is gone, or the time
\* is out or the action cancelled.
wait_for_startup(r) ==
    /\ run[r].pc = "wait"
    /\ state' = CASE pg.proc = "up" -> "running" [] pg.proc = "down" -> "start failed" [] OTHER -> state
    /\ Goto(r, "finish")
    /\ StepOnly /\ UNCHANGED <<task, response, role, pg, conf>>

\* promote: the fencing script, which a cancel kills.
_pre_promote(r) ==
    /\ run[r].pc = "pre"
    /\ \E pc \in {"commit", "refuse"} :
        /\ cancelled => pc = "refuse"
        /\ Goto(r, IF role \in {"primary", "promoted"} THEN "finish" ELSE pc)
    /\ StepOnly /\ UNCHANGED <<task, response, postgres>>

PromoteCommit(r) ==
    /\ run[r].pc \in {"commit", "refuse"}
    /\ IF response.cancelled
       THEN Goto(r, "finish") /\ UNCHANGED response
       ELSE /\ response' = [response EXCEPT !.result = run[r].pc]
            /\ Goto(r, IF run[r].pc = "commit" THEN "check" ELSE "finish")
    /\ StepOnly /\ UNCHANGED <<task, postgres>>

PromoteCheck(r) ==
    /\ run[r].pc = "check"
    /\ Goto(r, IF cancelled THEN "finish" ELSE "pg_ctl")
    /\ StepOnly /\ UNCHANGED <<task, response, postgres>>

promote(r) ==
    /\ run[r].pc = "pg_ctl"
    /\ IF pg.proc = "up"
       THEN /\ pg' = [pg EXCEPT !.mode = "primary", !.by = r]
            /\ conf' = "primary" /\ role' = "promoted"
            /\ Goto(r, "production")
       ELSE Goto(r, "finish") /\ UNCHANGED <<pg, conf, role>>
    /\ StepOnly /\ UNCHANGED <<task, response, state>>

\* Either pg_control says "in production" in time, or not.
_wait_promote(r) ==
    /\ run[r].pc = "production"
    /\ role' \in {role} \union (IF pg.proc = "up" THEN {"primary"} ELSE {})
    /\ Goto(r, "finish")
    /\ StepOnly /\ UNCHANGED <<task, response, state, pg, conf>>

_do_reinitialize(r) ==
    /\ run[r].pc = "wipe"
    /\ pg' = Stopped /\ state' = "stopped"
    /\ Goto(r, "clone")
    /\ StepOnly /\ UNCHANGED <<task, response, role, conf>>

clone(r) ==
    /\ run[r].pc = "clone"
    /\ conf' = "none" /\ role' = "uninitialized" /\ state' = "creating replica"
    /\ Goto(r, "copy")
    /\ StepOnly /\ UNCHANGED <<task, response, pg>>

\* The copy of the data directory fails for itself or because it is killed.
CloneEnds(r) ==
    /\ run[r].pc = "copy"
    /\ \/ ~cancelled /\ conf' = "replica" /\ Goto(r, "conf")
       \/ conf' = "none" /\ Goto(r, "finish")
    /\ StepOnly /\ UNCHANGED <<task, response, role, state, pg>>

-----------------------------------------------------------------------------
(* The API threads.                                                         *)

\* ha.restart, when nothing is in progress: a failure to start is seen as one to
\* recover.  run() follows in the same thread.
Restart == schedule(Api, "restart") /\ recovering' = TRUE

do_POST_restart ==
    /\ Unlocked /\ main.pc = "idle" /\ events < MaxEvents
    /\ Restart /\ events' = events + 1
    /\ UNCHANGED <<key, cancelled, task, response, main, postgres, api, ghosts>>

\* ha.reinitialize: the checks are made under the lock, which is then left.
do_POST_reinitialize ==
    /\ Unlocked /\ main.pc = "idle" /\ events < MaxEvents /\ api = "idle"
    /\ key = "other"
    /\ api' \in {"cancel", "schedule"}  \* force or not
    /\ events' = events + 1
    /\ UNCHANGED <<key, executor, main, recovering, postgres, run, ghosts>>

cancel_flag ==
    /\ Unlocked /\ api = "cancel"
    /\ IF ex.action = "none"
       THEN api' = "schedule" /\ UNCHANGED <<ex, raced>>
       ELSE /\ api' = "kill" /\ ex' = [ex EXCEPT !.is_cancelled = TRUE]
            /\ raced' = IF \E r \in Runner : run[r].pc = "new" THEN raced \union {"cancel"} ELSE raced
    /\ UNCHANGED <<key, cancelled, task, response, main, recovering, postgres, run, events, fenced>>

cancel_subprocess ==
    /\ api = "kill"
    /\ cancelled' = TRUE /\ api' = "await"
    /\ UNCHANGED <<key, ex, task, response, main, recovering, postgres, run, events, ghosts>>

cancel_wait ==
    /\ api = "await" /\ ex.finished
    /\ api' = "clear"
    /\ UNCHANGED <<key, executor, main, recovering, postgres, run, events, ghosts>>

cancel_clear ==
    /\ Unlocked /\ api = "clear"
    /\ ex' = [ex EXCEPT !.action = "none"]
    /\ raced' = IF ex.action /= "none" THEN raced \union {"cancel"} ELSE raced
    /\ api' = "schedule"
    /\ UNCHANGED <<key, cancelled, task, response, main, recovering, postgres, run, events, fenced>>

reinitialize ==
    /\ Unlocked /\ api = "schedule"
    /\ IF ex.action = "none"
       THEN CanRun /\ try_run_async("reinitialize")
       ELSE UNCHANGED <<ex, run>>       \* "already in progress"
    /\ api' = "idle"
    /\ UNCHANGED <<key, cancelled, task, response, main, recovering, postgres, events, ghosts>>

-----------------------------------------------------------------------------
(* The HA loop.  It looks at its key when the cycle begins (load_cluster) *)
(* and renews it in the course of the cycle: update_lock succeeds while the *)
(* key is its own.                                                          *)

\* How a cycle goes on.
Return == main' = [pc |-> "idle", mine |-> FALSE, release |-> FALSE]
demote(release) == main' = [main EXCEPT !.pc = "stop", !.release = release]

run_cycle ==
    /\ main.pc = "idle"
    /\ main' = [pc |-> "loaded", mine |-> key = "mine", release |-> FALSE]
    /\ UNCHANGED <<key, executor, recovering, postgres, run, api, events, ghosts>>

busy == ex.action /= "none"
Locked == main.mine /\ key = "mine"     \* has_lock() and update_lock()
Lost == {r \in Runner : Active(r)}

handle_long_action_in_progress ==
    /\ main.pc = "loaded" /\ busy
    /\ \/ /\ Locked
          /\ Return /\ UNCHANGED <<cancelled, task, response, pg, fenced>>
       \/ /\ ~Locked /\ ex.action = "promote" /\ response.result = "none"
          /\ response' = [response EXCEPT !.cancelled = TRUE]
          /\ cancelled' = TRUE
          /\ fenced' = fenced \union Lost
          /\ Return /\ UNCHANGED <<task, pg>>
       \/ /\ ~Locked /\ (ex.action = "promote" => response.result /= "none")
          /\ role = "primary"
          /\ ex.action \in Critical => ~TaskHeld
          /\ IF ex.action \in Critical
             THEN /\ IF task.result = "none"
                     THEN task' = [task EXCEPT !.cancelled = TRUE] /\ UNCHANGED pg
                     ELSE pg' = Down /\ UNCHANGED task  \* terminate_starting_postmaster
                  /\ fenced' = fenced \union Lost
             ELSE UNCHANGED <<task, pg, fenced>>
          /\ demote(FALSE) /\ UNCHANGED <<cancelled, response>>
       \/ /\ ~Locked /\ (ex.action = "promote" => response.result /= "none")
          /\ role /= "primary"
          /\ Return /\ UNCHANGED <<cancelled, task, response, pg, fenced>>
    /\ UNCHANGED <<key, ex, recovering, role, state, conf, run, api, events, raced>>

\* demote, first half: Postgres is stopped and waited for.
demote_stop ==
    /\ main.pc = "stop"
    /\ pg' = Stopped /\ state' = "stopped"
    /\ main' = [main EXCEPT !.pc = "stopped"]
    /\ UNCHANGED <<key, executor, recovering, role, conf, run, api, events, ghosts>>

\* Second half: the key is released, and Postgres started as a replica unless
\* an action is in progress.
demote_follow ==
    /\ main.pc = "stopped"
    /\ role' = "demoted"
    /\ key' = IF main.release /\ key = "mine" THEN "none" ELSE key
    /\ IF CanRun THEN try_run_async("starting after demotion") ELSE UNCHANGED <<ex, run>>
    /\ Return
    /\ UNCHANGED <<cancelled, task, response, recovering, state, pg, conf, api, events, ghosts>>

\* What check_startup_state_changed makes of the state "starting".
Observed == IF state /= "starting" THEN state
            ELSE CASE pg.proc = "up" -> "running" [] pg.proc = "down" -> "start failed"
                   [] OTHER -> "starting"

\* A primary that starts up: the key is kept, unless it takes too long and
\* somebody else could have it.
handle_starting_instance ==
    /\ main.pc = "loaded" /\ ~busy
    /\ Observed = "starting" /\ main.mine
    /\ \/ key = "mine" /\ Return
       \/ key = "mine" /\ demote(TRUE)
       \/ key /= "mine" /\ demote(FALSE)
    /\ UNCHANGED <<key, executor, recovering, postgres, run, api, events, ghosts>>

\* Nothing in progress, nothing that starts up as leader.
Regular == main.pc = "loaded" /\ ~busy /\ (Observed = "starting" => ~main.mine)
Delete == key' = IF main.mine /\ key = "mine" THEN "none" ELSE key

\* The restart or recovery has not brought Postgres up: the key goes.
post_recover ==
    /\ Regular /\ recovering /\ ~is_running
    /\ recovering' = FALSE /\ state' = Observed
    /\ role' = IF main.mine /\ role = "primary" THEN "demoted" ELSE role
    /\ Delete /\ Return
    /\ UNCHANGED <<executor, pg, conf, run, api, events, ghosts>>

\* The data directory is empty.
bootstrap ==
    /\ Regular /\ (recovering => is_running) /\ conf = "none"
    /\ recovering' = FALSE /\ role' = "uninitialized" /\ state' = "stopped" /\ pg' = Stopped
    /\ Delete /\ Return
    /\ IF ~main.mine /\ key = "other" /\ CanRun THEN try_run_async("bootstrap")
                                                ELSE UNCHANGED <<ex, run>>
    /\ UNCHANGED <<cancelled, task, response, conf, api, events, ghosts>>

\* Postgres is down: it is started as it was only if it was a primary a moment
\* ago and the key is still here, as a replica otherwise.
recover ==
    /\ Regular /\ ~recovering /\ ~is_running /\ conf /= "none"
    /\ state' = IF Observed \in {"running", "starting"} THEN "crashed" ELSE Observed
    /\ IF CanRun
       THEN /\ try_run_async(IF Locked /\ state' = "crashed" /\ role = "primary" /\ conf = "primary"
                             THEN "starting primary after failure" ELSE "restarting after failure")
            /\ recovering' = TRUE
       ELSE UNCHANGED <<ex, run, recovering>>
    /\ Return
    /\ UNCHANGED <<key, cancelled, task, response, role, pg, conf, api, events, ghosts>>

Healthy == Regular /\ is_running /\ conf /= "none"
\* Variant: the cached role decides.
RoleDecides == role = "primary"

is_primary == IF pg.proc = "up" THEN pg.mode = "primary" ELSE role = "primary"

\* enforce_primary_role, with the key.
Enforce ==
    CASE response.result = "refuse" ->      \* the script of pre_promote has failed
            key' = "none" /\ response' = Fresh /\ UNCHANGED <<ex, run, role>>
      [] response.result /= "refuse" /\ is_primary ->
            role' = "primary" /\ UNCHANGED <<ex, run, response>> /\ key' = "mine"
      [] response.result /= "refuse" /\ ~is_primary /\ role \in {"primary", "promoted"} ->
            key' = "mine" /\ UNCHANGED <<ex, run, response, role>>
      [] OTHER ->
            /\ key' = "mine" /\ response' = Fresh /\ UNCHANGED role
            /\ IF CanRun THEN try_run_async("promote") ELSE UNCHANGED <<ex, run>>

process_healthy_cluster ==
    /\ Healthy /\ (main.mine \/ key = "other")
    /\ recovering' = FALSE /\ state' = Observed
    /\ IF Locked
       THEN Enforce /\ Return
       ELSE /\ IF is_primary THEN demote(FALSE) ELSE Return
            /\ UNCHANGED <<key, ex, run, response, role>>
    /\ UNCHANGED <<cancelled, task, pg, conf, api, events, ghosts>>

\* Nobody has the key: the race may be won, or not be taken part in.
process_unhealthy_cluster ==
    /\ Healthy /\ ~main.mine /\ key = "none"
    /\ recovering' = FALSE /\ state' = Observed
    /\ \/ Enforce /\ Return
       \/ /\ IF is_primary THEN demote(FALSE) ELSE Return
          /\ UNCHANGED <<key, ex, run, response, role>>
    /\ UNCHANGED <<cancelled, task, pg, conf, api, events, ghosts>>

\* SIGTERM: the loop is left, Postgres stopped, the key deleted.  Actions go on.
sigterm_handler ==
    /\ main.pc = "idle"
    /\ main' = [main EXCEPT !.pc = "down"]
    /\ pg' = Stopped /\ state' = "stopped"
    /\ raced' = IF Lost /= {} \/ api /= "idle" THEN raced \union {"stop"} ELSE raced
    /\ UNCHANGED <<key, executor, recovering, role, conf, run, api, events, fenced>>

shutdown ==
    /\ main.pc = "down"
    /\ main' = [main EXCEPT !.pc = "gone"]
    /\ key' = IF ~is_running /\ key = "mine" THEN "none" ELSE key
    /\ UNCHANGED <<executor, recovering, postgres, run, api, events, ghosts>>

-----------------------------------------------------------------------------
(* The environment.                                                         *)

\* A postmaster that starts comes up.
PostgresUp ==
    /\ pg.proc = "starting"
    /\ pg' = [pg EXCEPT !.proc = "up"]
    /\ UNCHANGED <<key, executor, main, recovering, role, state, conf, run, api, events, ghosts>>

PostgresCrash ==
    /\ pg.proc /= "down" /\ events < MaxEvents
    /\ pg' = Down /\ events' = events + 1
    /\ UNCHANGED <<key, executor, main, recovering, role, state, conf, run, api, ghosts>>

\* The key expires, another member takes it, and may lose it.
KeyChanges ==
    /\ \/ key = "mine" /\ events < MaxEvents /\ key' = "none" /\ events' = events + 1
       \/ key = "none" /\ key' = "other" /\ UNCHANGED events
       \/ key = "other" /\ events < MaxEvents /\ key' = "none" /\ events' = events + 1
    /\ UNCHANGED <<executor, main, recovering, postgres, run, api, ghosts>>

Cycle ==
    \/ run_cycle \/ handle_long_action_in_progress \/ demote_stop \/ demote_follow
    \/ handle_starting_instance \/ post_recover \/ bootstrap \/ recover
    \/ process_healthy_cluster \/ process_unhealthy_cluster

Run(r) ==
    \/ run_enter(r) \/ run_reset(r) \/ run_finally(r) \/ restart(r) \/ follow(r) \/ start(r)
    \/ PostmasterStart(r) \/ PostmasterKnown(r) \/ wait_for_startup(r) \/ _pre_promote(r)
    \/ PromoteCommit(r) \/ PromoteCheck(r) \/ promote(r) \/ _wait_promote(r)
    \/ _do_reinitialize(r) \/ clone(r) \/ CloneEnds(r)

Reinitialize == cancel_flag \/ cancel_subprocess \/ cancel_wait \/ cancel_clear \/ reinitialize

Finished == main.pc = "gone" /\ (\A r \in Runner : ~Active(r)) /\ UNCHANGED vars

Next ==
    \/ Cycle \/ \E r \in Runner : Run(r)
    \/ do_POST_restart \/ do_POST_reinitialize \/ Reinitialize
    \/ sigterm_handler \/ shutdown
    \/ PostgresUp \/ PostgresCrash \/ KeyChanges
    \/ Finished

Spec == Init /\ [][Next]_vars

\* The loop is run again and again, and every action in progress goes on: it
\* gets the lock between two cycles.
FairSpec ==
    Spec /\ WF_vars(Cycle) /\ WF_vars(PostgresUp) /\ \A r \in Runner : SF_vars(Run(r))

-----------------------------------------------------------------------------
(* Properties of PatroniNode. *)

\* Type correctness, and the critical task has a result only while its action runs.
TypeOK ==
    /\ key \in {"mine", "other", "none"}
    /\ ex.is_cancelled \in BOOLEAN /\ ex.finished \in BOOLEAN /\ cancelled \in BOOLEAN
    /\ conf \in {"primary", "replica", "none"}
    /\ fenced \subseteq {r \in Runner : Active(r)}
    /\ "cancel" \notin raced /\ task.result /= "none" =>
        \E r \in Runner : run[r].kind \in Critical /\ run[r].pc \in {"wait", "finish"}

\* The critical tasks: an action that the HA loop has cancelled because it has
\* lost the leader key never gives the node a primary, although the action may
\* be anywhere in the start or the promotion when that happens.  (A forced
\* reinitialize may cancel an action whose thread has not begun.  The next
\* schedule takes the cancel back, and the end of either thread resets the
\* critical task of the other.)
Fenced ==
    "cancel" \notin raced => \A r \in fenced : ~(pg.proc /= "down" /\ pg.mode = "primary" /\ pg.by = r)

\* The executor runs one action at a time, but for the same forced cancel.
OneTask == "cancel" \notin raced => Cardinality({r \in Runner : Body(r)}) <= 1

\* When the daemon has stopped, Postgres is down for good, unless an action was
\* in progress: nothing waits for it.
StoppedForGood == main.pc = "gone" /\ pg.proc /= "down" => "stop" \in raced

\* While Patroni runs, a primary without the leader key does not stay, whatever
\* action had made it one.
WithoutKey == pg.proc = "up" /\ pg.mode = "primary" /\ key /= "mine"
Exited == main.pc \in {"down", "gone"}
UnlockedPrimaryEnds == WithoutKey ~> ~WithoutKey \/ Exited

\* One action at a time, and none gives the node a primary that it must not have.
NodeSafe == TypeOK /\ Fenced /\ OneTask /\ StoppedForGood
=============================================================================
