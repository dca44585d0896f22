---------------------------- MODULE PatroniNodeProofs ----------------------------
(***************************************************************************)
(* What a node's executor cancels gives it no primary, for any number of   *)
(* threads and events.  A copy of a logical slot that counts as ready can  *)
(* be used after a failover, and no slot skips a change, for any nodes,    *)
(* positions and failures.  The two parts share no state.                  *)
(***************************************************************************)
EXTENDS PatroniNode, PatroniSlots, FiniteSetTheorems, WellFoundedInduction, TLAPS

USE PatroniNodeAssumption

-----------------------------------------------------------------------------
(* The inductive invariant.                                                 *)

Kind == {"restart", "starting primary after failure", "promote", "reinitialize", "bootstrap",
         "starting after demotion", "restarting after failure"}
Pc == {"idle", "new", "reset", "stop", "conf", "start", "fork", "assign", "wait", "pre", "commit",
       "refuse", "check", "pg_ctl", "production", "wipe", "clone", "copy", "finish"}
Mode == {"primary", "replica", "none"}

Executor == [action : Kind \union {"none"}, is_cancelled : BOOLEAN, finished : BOOLEAN]
Task == [cancelled : BOOLEAN, result : {"none", "postmaster"}]
Response == [cancelled : BOOLEAN, result : {"none", "commit", "refuse"}]
Loop == [pc : {"idle", "loaded", "stop", "stopped", "down", "gone"}, mine : BOOLEAN, release : BOOLEAN]
Pg == [proc : {"up", "starting", "down"}, seen : BOOLEAN, mode : Mode, by : Runner \union {"none"}]
Action == [kind : Kind \union {"none"}, pc : Pc]

Types ==
    /\ key \in {"mine", "other", "none"}
    /\ ex \in Executor /\ cancelled \in BOOLEAN /\ task \in Task /\ response \in Response
    /\ main \in Loop /\ pg \in Pg /\ conf \in Mode
    /\ run \in [Runner -> Action]
    /\ api \in {"idle", "cancel", "kill", "await", "clear", "schedule"}
    /\ events \in Nat
    /\ fenced \subseteq Runner /\ raced \subseteq {"cancel", "stop"}

\* One action is in progress, and the executor knows it.
Alone ==
    \A r \in Runner : Active(r) =>
        /\ run[r].kind = ex.action /\ run[r].kind /= "none"
        /\ \A s \in Runner : Active(s) => s = r

\* Where the steps of an action are, and what it has left behind there.
Starting == {"fork", "assign", "wait"}
Promoting == {"pre", "commit", "refuse", "check", "pg_ctl", "production"}
Critically(r) == run[r].kind \in Critical
Stage(r) ==
    /\ run[r].kind = "promote" => run[r].pc \in {"new", "reset", "finish"} \union Promoting
    /\ run[r].pc \in Promoting => run[r].kind = "promote"
    /\ Critically(r) => run[r].pc \in {"new", "reset", "stop", "start", "finish"} \union Starting
    /\ run[r].pc \in {"check", "pg_ctl", "production"} => response.result = "commit"
    /\ Critically(r) /\ run[r].pc = "wait" => task.result = "postmaster"
    /\ pg.by = r => Active(r) /\
        \/ run[r].kind = "promote" /\ response.result = "commit" /\ run[r].pc \in {"production", "finish"}
        \/ run[r].kind /= "promote" /\ run[r].pc \in {"assign", "wait", "finish"}
    /\ pg.by = r /\ Critically(r) /\ run[r].pc /= "assign" => task.result = "postmaster"

HasPostmaster ==
    task.result /= "none" => \E r \in Runner : Critically(r) /\ run[r].pc \in {"wait", "finish"}

Stages == HasPostmaster /\ \A r \in Runner : Stage(r)

\* What a cancelled action can still do.
CutOff(r) ==
    \/ run[r].kind = "promote" /\ response.cancelled /\ response.result = "none"
    \/ Critically(r) /\ run[r].pc /= "assign" /\ task.cancelled /\ task.result = "none"
    \/ Critically(r) /\ run[r].pc \in {"wait", "finish"} /\ pg.proc = "down"

Cut == \A r \in fenced : CutOff(r)

\* A postmaster that Patroni does not know yet has an action that will tell.
Known == pg.proc /= "down" /\ ~pg.seen => \E r \in Runner : run[r].pc = "assign"

\* After the stop.
Quiet ==
    Exited /\ "stop" \notin raced =>
        pg.proc = "down" /\ api = "idle" /\ \A r \in Runner : ~Active(r)

\* A cancelled action may go on, and another begin.
Whole == "cancel" \notin raced => Alone /\ Stages /\ Cut
Members == \A r \in fenced : Active(r)

IInv == Types /\ Members /\ Known /\ Quiet /\ Whole
-----------------------------------------------------------------------------
(* Types.                                                                   *)

\* A thread that is taken for an action is free.
LEMMA Taken ==
  ASSUME CanRun, NEW kind \in Kind, try_run_async(kind)
  PROVE  \E r \in Runner : schedule(r, kind)
<1>1. (CHOOSE t \in Thread : ~Active(t)) \in Thread
  BY DEF CanRun
<1> QED
  BY <1>1 DEF try_run_async, Runner

\* What is scheduled is an action of the executor and of a runner.
LEMMA ScheduleTypes ==
  ASSUME Types, NEW kind \in Kind, \E r \in Runner : schedule(r, kind)
  PROVE  ex' \in Executor /\ run' \in [Runner -> Action]
<1> PICK r \in Runner : schedule(r, kind)
  OBVIOUS
<1>1. [kind |-> kind, pc |-> "new"] \in Action
  BY DEF Action, Pc
<1> QED
  BY <1>1 DEF Types, schedule, Executor

\* A runner that goes on is somewhere in its action.
LEMMA GotoTypes ==
  ASSUME Types, NEW r \in Runner, NEW pc \in Pc, Goto(r, pc)
  PROVE  run' \in [Runner -> Action]
  BY DEF Types, Goto, Action

\* A cycle returns or goes on to demote.
LEMMA LoopTypes ==
  ASSUME Types, Return \/ demote(TRUE) \/ demote(FALSE)
  PROVE  main' \in Loop
<1>1. ASSUME NEW release \in BOOLEAN, demote(release) PROVE main' \in Loop
  <2>1. main' = [pc |-> "stop", mine |-> main.mine, release |-> release]
    BY <1>1 DEF demote, Types, Loop
  <2> QED
    BY <2>1 DEF Types, Loop
<1>2. CASE Return
  BY <1>2 DEF Return, Loop
<1> QED
  BY <1>1, <1>2

\* The leader runs as primary, or begins a promotion.
LEMMA EnforceTypes ==
  ASSUME Types, Enforce
  PROVE  /\ key' \in {"mine", "other", "none"} /\ response' \in Response
         /\ UNCHANGED <<ex, run>> \/ \E r \in Runner : schedule(r, "promote")
         /\ ex' \in Executor /\ run' \in [Runner -> Action]
<1>1. key' \in {"mine", "other", "none"} /\ response' \in Response
  <2>1. key' \in {"none", "mine"} /\ response' \in {response, Fresh}
    BY DEF Enforce
  <2>2. Fresh \in Response
    BY DEF Fresh, Response
  <2>3. response' \in Response
    BY <2>1, <2>2 DEF Types
  <2> QED
    BY <2>1, <2>3
<1>2. UNCHANGED <<ex, run>> \/ \E r \in Runner : schedule(r, "promote")
  <2>1. UNCHANGED <<ex, run>> \/ (CanRun /\ try_run_async("promote"))
    BY DEF Enforce
  <2> QED
    BY <2>1, Taken DEF Kind
<1>3. ex' \in Executor /\ run' \in [Runner -> Action]
  BY <1>2, ScheduleTypes DEF Types, Kind
<1> QED
  BY <1>1, <1>2, <1>3

\* The types are kept by every step.
LEMMA TypesStep == Types /\ [Next]_vars => Types'
<1> SUFFICES ASSUME Types, [Next]_vars PROVE Types'
  OBVIOUS
<1>1. ASSUME NEW r \in Runner, run_enter(r) PROVE Types'
  BY <1>1, GotoTypes DEF Types, run_enter, Executor, Pc, postgres, ghosts
<1>2. ASSUME NEW r \in Runner, run_reset(r) PROVE Types'
  BY <1>2, GotoTypes DEF Types, run_reset, FirstStep, Pc, postgres, ghosts
<1>3. ASSUME NEW r \in Runner, run_finally(r) PROVE Types'
  BY <1>3 DEF Types, run_finally, Idle, Fresh, Executor, Task, Action, Pc, Pg
<1>4. ASSUME NEW r \in Runner, restart(r) PROVE Types'
  BY <1>4, GotoTypes DEF Types, restart, StepOnly, ghosts, Pc, Stopped, Down, Pg
<1>5. ASSUME NEW r \in Runner, follow(r) PROVE Types'
  BY <1>5, GotoTypes DEF Types, follow, StepOnly, ghosts, Pc, Stopped, Down, Pg, Mode
<1>6. ASSUME NEW r \in Runner, start(r) PROVE Types'
  BY <1>6, GotoTypes DEF Types, start, StepOnly, ghosts, Pc
<1>7. ASSUME NEW r \in Runner, PostmasterStart(r) PROVE Types'
  <2>1. [proc |-> "starting", seen |-> FALSE, mode |-> conf, by |-> r] \in Pg
    BY DEF Types, Pg
  <2>2. run' \in [Runner -> Action]
    BY <1>7, GotoTypes DEF PostmasterStart, Pc
  <2> QED
    BY <1>7, <2>1, <2>2 DEF Types, PostmasterStart, StepOnly, ghosts
<1>8. ASSUME NEW r \in Runner, PostmasterKnown(r) PROVE Types'
  BY <1>8, GotoTypes DEF Types, PostmasterKnown, StepOnly, ghosts, Pc, Pg, Task
<1>9. ASSUME NEW r \in Runner, wait_for_startup(r) PROVE Types'
  BY <1>9, GotoTypes DEF Types, wait_for_startup, StepOnly, ghosts, Pc
<1>10. ASSUME NEW r \in Runner, _pre_promote(r) PROVE Types'
  BY <1>10, GotoTypes DEF Types, _pre_promote, StepOnly, ghosts, Pc, postgres
<1>11. ASSUME NEW r \in Runner, PromoteCommit(r) PROVE Types'
  BY <1>11, GotoTypes DEF Types, PromoteCommit, StepOnly, ghosts, Pc, Response, postgres
<1>12. ASSUME NEW r \in Runner, PromoteCheck(r) PROVE Types'
  BY <1>12, GotoTypes DEF Types, PromoteCheck, StepOnly, ghosts, Pc, postgres
<1>13. ASSUME NEW r \in Runner, promote(r) PROVE Types'
  BY <1>13, GotoTypes DEF Types, promote, StepOnly, ghosts, Pc, Pg, Mode
<1>14. ASSUME NEW r \in Runner, _wait_promote(r) PROVE Types'
  BY <1>14, GotoTypes DEF Types, _wait_promote, StepOnly, ghosts, Pc
<1>15. ASSUME NEW r \in Runner, _do_reinitialize(r) PROVE Types'
  BY <1>15, GotoTypes DEF Types, _do_reinitialize, StepOnly, ghosts, Pc, Stopped, Down, Pg
<1>16. ASSUME NEW r \in Runner, clone(r) PROVE Types'
  BY <1>16, GotoTypes DEF Types, clone, StepOnly, ghosts, Pc, Mode
<1>17. ASSUME NEW r \in Runner, CloneEnds(r) PROVE Types'
  BY <1>17, GotoTypes DEF Types, CloneEnds, StepOnly, ghosts, Pc, Mode
<1>18. CASE do_POST_restart
  <2>1. schedule(Api, "restart") /\ recovering' = TRUE /\ "restart" \in Kind /\ Api \in Runner
    BY <1>18 DEF do_POST_restart, Restart, Kind, Runner
  <2>2. ex' \in Executor /\ run' \in [Runner -> Action]
    BY <2>1, ScheduleTypes
  <2> QED
    BY <1>18, <2>2 DEF Types, do_POST_restart, postgres, ghosts
<1>19. CASE do_POST_reinitialize
  BY <1>19 DEF Types, do_POST_reinitialize, executor, postgres, ghosts
<1>20. CASE cancel_flag
  BY <1>20 DEF Types, cancel_flag, Executor, postgres
<1>21. CASE cancel_subprocess
  BY <1>21 DEF Types, cancel_subprocess, postgres, ghosts
<1>22. CASE cancel_wait
  BY <1>22 DEF Types, cancel_wait, executor, postgres, ghosts
<1>23. CASE cancel_clear
  BY <1>23 DEF Types, cancel_clear, Executor, postgres
<1>24. CASE reinitialize
  BY <1>24, Taken, ScheduleTypes DEF Types, reinitialize, Kind, postgres, ghosts
<1>25. CASE run_cycle
  BY <1>25 DEF Types, run_cycle, Loop, executor, postgres, ghosts
<1>26. CASE handle_long_action_in_progress
  <2>1. main' \in Loop
    BY <1>26, LoopTypes DEF handle_long_action_in_progress
  <2>2. response' \in Response /\ task' \in Task /\ pg' \in Pg /\ fenced' \subseteq Runner
    BY <1>26 DEF Types, handle_long_action_in_progress, Response, Task, Pg, Down, Lost
  <2> QED
    BY <1>26, <2>1, <2>2 DEF Types, handle_long_action_in_progress
<1>27. CASE demote_stop
  BY <1>27 DEF Types, demote_stop, Loop, Stopped, Down, Pg, executor, ghosts
<1>28. CASE demote_follow
  BY <1>28, Taken, ScheduleTypes DEF Types, demote_follow, Loop, Return, Kind, ghosts
<1>29. CASE handle_starting_instance
  <2>1. main' \in Loop
    BY <1>29, LoopTypes DEF handle_starting_instance
  <2> QED
    BY <1>29, <2>1 DEF Types, handle_starting_instance, executor, postgres, ghosts
<1>30. CASE post_recover
  BY <1>30 DEF Types, post_recover, Loop, Return, Delete, executor, ghosts
<1>31. CASE bootstrap
  BY <1>31, Taken, ScheduleTypes DEF Types, bootstrap, Loop, Return, Delete, Stopped, Down, Pg, Kind, ghosts
<1>32. CASE recover
  BY <1>32, Taken, ScheduleTypes DEF Types, recover, Loop, Return, Kind, ghosts
<1>33. CASE process_healthy_cluster
  <2>1. main' \in Loop
    BY <1>33, LoopTypes DEF process_healthy_cluster
  <2>2. /\ key' \in {"mine", "other", "none"} /\ response' \in Response
        /\ ex' \in Executor /\ run' \in [Runner -> Action]
    BY <1>33, EnforceTypes DEF Types, process_healthy_cluster
  <2> QED
    BY <1>33, <2>1, <2>2 DEF Types, process_healthy_cluster, ghosts
<1>34. CASE process_unhealthy_cluster
  <2>1. main' \in Loop
    BY <1>34, LoopTypes DEF process_unhealthy_cluster
  <2>2. /\ key' \in {"mine", "other", "none"} /\ response' \in Response
        /\ ex' \in Executor /\ run' \in [Runner -> Action]
    BY <1>34, EnforceTypes DEF Types, process_unhealthy_cluster
  <2> QED
    BY <1>34, <2>1, <2>2 DEF Types, process_unhealthy_cluster, ghosts
<1>35. CASE sigterm_handler
  BY <1>35 DEF Types, sigterm_handler, Loop, Stopped, Down, Pg, executor
<1>36. CASE shutdown
  BY <1>36 DEF Types, shutdown, Loop, executor, postgres, ghosts
<1>37. CASE PostgresUp
  BY <1>37 DEF Types, PostgresUp, Pg, executor, ghosts
<1>38. CASE PostgresCrash
  BY <1>38 DEF Types, PostgresCrash, Pg, Down, executor, ghosts
<1>39. CASE KeyChanges
  BY <1>39 DEF Types, KeyChanges, executor, postgres, ghosts
<1>40. CASE UNCHANGED vars
  BY <1>40 DEF Types, vars
<1> QED
  BY <1>1, <1>2, <1>3, <1>4, <1>5, <1>6, <1>7, <1>8, <1>9, <1>10, <1>11, <1>12,
     <1>13, <1>14, <1>15, <1>16, <1>17, <1>18, <1>19, <1>20, <1>21, <1>22, <1>23,
     <1>24, <1>25, <1>26, <1>27, <1>28, <1>29, <1>30, <1>31, <1>32, <1>33, <1>34,
     <1>35, <1>36, <1>37, <1>38, <1>39, <1>40
  DEF Next, Cycle, Run, Reinitialize, Finished

-----------------------------------------------------------------------------
(* What the steps outside of an action leave alone.                         *)

Begins == \E r \in Runner, kind \in Kind : schedule(r, kind)

\* Of an action that is in progress.
Spared ==
    /\ \/ run' = run /\ ("cancel" \notin raced' => ex'.action = ex.action)
       \/ Begins
    /\ task' = task /\ fenced' = fenced /\ raced \subseteq raced'
    /\ busy => response' = response

\* Of the postmaster: it may come up or go down.
SamePostmaster ==
    /\ pg' \in Pg /\ pg'.by = pg.by /\ pg'.mode = pg.mode /\ pg'.seen = pg.seen
    /\ pg.proc = "down" => pg'.proc = "down"

Outside ==
    \/ do_POST_restart \/ do_POST_reinitialize \/ Reinitialize
    \/ run_cycle \/ demote_stop \/ demote_follow \/ handle_starting_instance \/ post_recover
    \/ bootstrap \/ recover \/ process_healthy_cluster \/ process_unhealthy_cluster
    \/ sigterm_handler \/ shutdown \/ PostgresUp \/ PostgresCrash \/ KeyChanges

\* Everything but the action itself and the loop that cancels it lets it be.
LEMMA OutsideStep == Types /\ Outside => Spared /\ SamePostmaster
<1> SUFFICES ASSUME Types, Outside PROVE Spared /\ SamePostmaster
  OBVIOUS
<1>1. CASE do_POST_restart
  <2>1. schedule(Api, "restart") /\ "restart" \in Kind /\ Api \in Runner
    BY <1>1 DEF do_POST_restart, Restart, Kind, Runner
  <2>2. Begins
    BY <2>1 DEF Begins
  <2> QED
    BY <1>1, <2>2 DEF Types, Spared, SamePostmaster, do_POST_restart, postgres, ghosts
<1>2. CASE do_POST_reinitialize
  BY <1>2 DEF Types, Spared, SamePostmaster, do_POST_reinitialize, executor, postgres, ghosts
<1>3. CASE cancel_flag
  <2>1. run' = run /\ ex'.action = ex.action /\ raced \subseteq raced'
    BY <1>3 DEF cancel_flag, Types, Executor
  <2> QED
    BY <1>3, <2>1 DEF Types, Spared, SamePostmaster, cancel_flag, postgres
<1>4. CASE cancel_subprocess
  BY <1>4 DEF Types, Spared, SamePostmaster, cancel_subprocess, postgres, ghosts
<1>5. CASE cancel_wait
  BY <1>5 DEF Types, Spared, SamePostmaster, cancel_wait, executor, postgres, ghosts
<1>6. CASE cancel_clear
  <2>1. run' = run /\ ("cancel" \notin raced' => ex'.action = ex.action)
    BY <1>6 DEF cancel_clear, Types, Executor
  <2> QED
    BY <1>6, <2>1 DEF Types, Spared, SamePostmaster, cancel_clear, postgres
<1>7. CASE reinitialize
  <2>1. UNCHANGED <<ex, run>> \/ (CanRun /\ try_run_async("reinitialize"))
    BY <1>7 DEF reinitialize
  <2>2. UNCHANGED <<ex, run>> \/ Begins
    BY <2>1, Taken DEF Begins, Kind
  <2> QED
    BY <1>7, <2>2 DEF Types, Spared, SamePostmaster, reinitialize, postgres, ghosts
<1>8. CASE run_cycle
  BY <1>8 DEF Types, Spared, SamePostmaster, run_cycle, executor, postgres, ghosts
<1>9. CASE demote_stop
  BY <1>9 DEF Types, Spared, SamePostmaster, demote_stop, Stopped, Down, executor, ghosts, Pg
<1>10. CASE demote_follow
  <2>1. UNCHANGED <<ex, run>> \/ (CanRun /\ try_run_async("starting after demotion"))
    BY <1>10 DEF demote_follow
  <2>2. UNCHANGED <<ex, run>> \/ Begins
    BY <2>1, Taken DEF Begins, Kind
  <2> QED
    BY <1>10, <2>2 DEF Types, Spared, SamePostmaster, demote_follow, ghosts
<1>11. CASE handle_starting_instance
  BY <1>11 DEF Types, Spared, SamePostmaster, handle_starting_instance, executor, postgres, ghosts
<1>12. CASE post_recover
  BY <1>12 DEF Types, Spared, SamePostmaster, post_recover, executor, ghosts
<1>13. CASE bootstrap
  <2>1. UNCHANGED <<ex, run>> \/ (CanRun /\ try_run_async("bootstrap"))
    BY <1>13 DEF bootstrap
  <2>2. UNCHANGED <<ex, run>> \/ Begins
    BY <2>1, Taken DEF Begins, Kind
  <2> QED
    BY <1>13, <2>2 DEF Types, Spared, SamePostmaster, bootstrap, Stopped, Down, ghosts, Pg
<1>14. CASE recover
  <2>1. \/ UNCHANGED <<ex, run>>
        \/ CanRun /\ try_run_async("starting primary after failure")
        \/ CanRun /\ try_run_async("restarting after failure")
    BY <1>14 DEF recover
  <2>2. UNCHANGED <<ex, run>> \/ Begins
    BY <2>1, Taken DEF Begins, Kind
  <2> QED
    BY <1>14, <2>2 DEF Types, Spared, SamePostmaster, recover, ghosts
<1>15. CASE process_healthy_cluster
  <2>1. UNCHANGED <<ex, run>> \/ Begins
    BY <1>15, EnforceTypes DEF process_healthy_cluster, Begins, Kind
  <2> QED
    BY <1>15, <2>1 DEF Types, Spared, SamePostmaster, process_healthy_cluster, Healthy, Regular, ghosts
<1>16. CASE process_unhealthy_cluster
  <2>1. UNCHANGED <<ex, run>> \/ Begins
    BY <1>16, EnforceTypes DEF process_unhealthy_cluster, Begins, Kind
  <2> QED
    BY <1>16, <2>1 DEF Types, Spared, SamePostmaster, process_unhealthy_cluster, Healthy, Regular, ghosts
<1>17. CASE sigterm_handler
  BY <1>17 DEF Types, Spared, SamePostmaster, sigterm_handler, Stopped, Down, executor, Pg
<1>18. CASE shutdown
  BY <1>18 DEF Types, Spared, SamePostmaster, shutdown, executor, postgres, ghosts
<1>19. CASE PostgresUp
  BY <1>19 DEF Types, Spared, SamePostmaster, PostgresUp, executor, ghosts, Pg
<1>20. CASE PostgresCrash
  BY <1>20 DEF Types, Spared, SamePostmaster, PostgresCrash, Down, executor, ghosts, Pg
<1>21. CASE KeyChanges
  BY <1>21 DEF Types, Spared, SamePostmaster, KeyChanges, executor, postgres, ghosts
<1> QED
  BY <1>1, <1>2, <1>3, <1>4, <1>5, <1>6, <1>7, <1>8, <1>9, <1>10, <1>11, <1>12,
     <1>13, <1>14, <1>15, <1>16, <1>17, <1>18, <1>19, <1>20, <1>21
  DEF Outside, Reinitialize

-----------------------------------------------------------------------------
(* The steps of an action.                                                  *)

\* An action goes on or ends, and the others are where they were.
LEMMA RunStep ==
  ASSUME Types, NEW r \in Runner, Run(r)
  PROVE  /\ Active(r) /\ raced' = raced /\ fenced' \subseteq fenced
         /\ \/ \E pc \in Pc \ {"idle"} : Goto(r, pc) /\ ex'.action = ex.action
            \/ r \notin fenced' /\ run' = [run EXCEPT ![r] = Idle]
         /\ pg'.by \in {pg.by, r, "none"}
         /\ \A s \in Runner \ {r} : run'[s] = run[s] /\ (s \in fenced => s \in fenced')
<1>1. CASE run_enter(r)
  BY <1>1 DEF run_enter, Goto, Active, Pc, Types, Executor, Pg, postgres, ghosts
<1>2. CASE run_reset(r)
  BY <1>2 DEF run_reset, Goto, Active, Pc, Types, Executor, Pg, FirstStep, postgres, ghosts
<1>3. CASE run_finally(r)
  BY <1>3 DEF run_finally, Goto, Active, Pc, Types, Executor, Pg, Idle, Fresh
<1>4. CASE restart(r)
  BY <1>4 DEF restart, Goto, Active, Pc, Types, Executor, Pg, StepOnly, ghosts, Stopped, Down
<1>5. CASE follow(r)
  BY <1>5 DEF follow, Goto, Active, Pc, Types, Executor, Pg, StepOnly, ghosts, Stopped, Down
<1>6. CASE start(r)
  BY <1>6 DEF start, Goto, Active, Pc, Types, Executor, Pg, StepOnly, ghosts
<1>7. CASE PostmasterStart(r)
  BY <1>7 DEF PostmasterStart, Goto, Active, Pc, Types, Executor, Pg, StepOnly, ghosts
<1>8. CASE PostmasterKnown(r)
  BY <1>8 DEF PostmasterKnown, Goto, Active, Pc, Types, Executor, Pg, StepOnly, ghosts
<1>9. CASE wait_for_startup(r)
  BY <1>9 DEF wait_for_startup, Goto, Active, Pc, Types, Executor, Pg, StepOnly, ghosts
<1>10. CASE _pre_promote(r)
  BY <1>10 DEF _pre_promote, Goto, Active, Pc, Types, Executor, Pg, StepOnly, ghosts, postgres
<1>11. CASE PromoteCommit(r)
  BY <1>11 DEF PromoteCommit, Goto, Active, Pc, Types, Executor, Pg, StepOnly, ghosts, postgres
<1>12. CASE PromoteCheck(r)
  BY <1>12 DEF PromoteCheck, Goto, Active, Pc, Types, Executor, Pg, StepOnly, ghosts, postgres
<1>13. CASE promote(r)
  BY <1>13 DEF promote, Goto, Active, Pc, Types, Executor, Pg, StepOnly, ghosts
<1>14. CASE _wait_promote(r)
  BY <1>14 DEF _wait_promote, Goto, Active, Pc, Types, Executor, Pg, StepOnly, ghosts
<1>15. CASE _do_reinitialize(r)
  BY <1>15 DEF _do_reinitialize, Goto, Active, Pc, Types, Executor, Pg, StepOnly, ghosts, Stopped, Down
<1>16. CASE clone(r)
  BY <1>16 DEF clone, Goto, Active, Pc, Types, Executor, Pg, StepOnly, ghosts
<1>17. CASE CloneEnds(r)
  BY <1>17 DEF CloneEnds, Goto, Active, Pc, Types, Executor, Pg, StepOnly, ghosts
<1> QED
  BY <1>1, <1>2, <1>3, <1>4, <1>5, <1>6, <1>7, <1>8, <1>9, <1>10, <1>11, <1>12,
     <1>13, <1>14, <1>15, <1>16, <1>17 DEF Run

\* Each step of the only action comes from the right place, and what has been cancelled
\* does not go past its critical task.
LEMMA StageStep ==
  ASSUME Types, Stages, Cut, NEW r \in Runner, Run(r), \A s \in Runner : Active(s) => s = r
  PROVE  HasPostmaster' /\ Stage(r)' /\ (r \in fenced' => CutOff(r)')
<1> DEFINE HasTask == task.result /= "none" => Critically(r) /\ run[r].pc \in {"wait", "finish"}
<1> USE DEF Critically, Critical, Starting, Promoting
<1>0. Stage(r) /\ HasTask /\ (r \in fenced => CutOff(r)) /\ r /= "none"
  BY DEF Stages, HasPostmaster, Cut, Active, Runner, Api
<1>. SUFFICES HasTask' /\ Stage(r)' /\ (r \in fenced' => CutOff(r)')
  BY DEF HasPostmaster
<1>1. CASE run_enter(r)
  <2>1. run'[r].kind = run[r].kind /\ run'[r].pc \in {"finish", "reset"}
    BY <1>1 DEF run_enter, Goto, Types, Action
  <2>3. HasTask'
    BY <1>0, <1>1, <2>1 DEF run_enter, Active, Goto, Types, Action, Pg, Task, Response, postgres, ghosts
  <2>4. Stage(r)'
    BY <1>0, <1>1, <2>1 DEF Stage, run_enter, Active, Goto, Types, Action, Pg, Task, Response, postgres, ghosts
  <2>5. r \in fenced' => CutOff(r)'
    BY <1>0, <1>1, <2>1 DEF Stage, CutOff, run_enter, Active, Goto, Types, Action, Pg, Task, Response, postgres, ghosts
  <2> QED
    BY <2>3, <2>4, <2>5
<1>2. CASE run_reset(r)
  <2>1. run'[r].kind = run[r].kind /\ run[r].pc = "reset" /\ run'[r].pc = FirstStep(run[r].kind)
    BY <1>2 DEF run_reset, Goto, Types, Action
  <2>2. /\ FirstStep(run[r].kind) \in {"stop", "start", "pre", "wipe", "clone", "conf"}
        /\ run[r].kind = "promote" <=> FirstStep(run[r].kind) = "pre"
        /\ Critically(r) => FirstStep(run[r].kind) \in {"stop", "start"}
    BY DEF FirstStep
  <2>3. HasTask'
    BY <1>0, <1>2, <2>1, <2>2 DEF run_reset, Active, Goto, Types, Action, Pg, Task, Response, FirstStep, postgres, ghosts
  <2>4. Stage(r)'
    BY <1>0, <1>2, <2>1, <2>2 DEF Stage, run_reset, Active, Goto, Types, Action, Pg, Task, Response, FirstStep, postgres, ghosts
  <2>5. r \in fenced' => CutOff(r)'
    BY <1>0, <1>2, <2>1, <2>2 DEF Stage, CutOff, run_reset, Active, Goto, Types, Action, Pg, Task, Response, FirstStep, postgres, ghosts
  <2> QED
    BY <2>3, <2>4, <2>5
<1>3. CASE run_finally(r)
  BY <1>0, <1>3 DEF run_finally, Stage, Active, Types, Pg, Pc, Idle, Fresh
<1>4. CASE restart(r)
  <2>1. run'[r].kind = run[r].kind /\ run'[r].pc \in {"start"}
    BY <1>4 DEF restart, Goto, Types, Action
  <2>3. HasTask'
    BY <1>0, <1>4, <2>1 DEF restart, Active, Goto, Types, Action, Pg, Task, Response, StepOnly, ghosts, Stopped, Down
  <2>4. Stage(r)'
    BY <1>0, <1>4, <2>1 DEF Stage, restart, Active, Goto, Types, Action, Pg, Task, Response, StepOnly, ghosts, Stopped, Down
  <2>5. r \in fenced' => CutOff(r)'
    BY <1>0, <1>4, <2>1 DEF Stage, CutOff, restart, Active, Goto, Types, Action, Pg, Task, Response, StepOnly, ghosts, Stopped, Down
  <2> QED
    BY <2>3, <2>4, <2>5
<1>5. CASE follow(r)
  <2>1. run'[r].kind = run[r].kind /\ run'[r].pc \in {"start"}
    BY <1>5 DEF follow, Goto, Types, Action
  <2>3. HasTask'
    BY <1>0, <1>5, <2>1 DEF follow, Active, Goto, Types, Action, Pg, Task, Response, StepOnly, ghosts, Stopped, Down
  <2>4. Stage(r)'
    BY <1>0, <1>5, <2>1 DEF Stage, follow, Active, Goto, Types, Action, Pg, Task, Response, StepOnly, ghosts, Stopped, Down
  <2>5. r \in fenced' => CutOff(r)'
    BY <1>0, <1>5, <2>1 DEF Stage, CutOff, follow, Active, Goto, Types, Action, Pg, Task, Response, StepOnly, ghosts, Stopped, Down
  <2> QED
    BY <2>3, <2>4, <2>5
<1>6. CASE start(r)
  <2>1. run'[r].kind = run[r].kind /\ run'[r].pc \in {"finish", "fork"}
    BY <1>6 DEF start, Goto, Types, Action
  <2>3. HasTask'
    BY <1>0, <1>6, <2>1 DEF start, Active, Goto, Types, Action, Pg, Task, Response, StepOnly, ghosts
  <2>4. Stage(r)'
    BY <1>0, <1>6, <2>1 DEF Stage, start, Active, Goto, Types, Action, Pg, Task, Response, StepOnly, ghosts
  <2>5. r \in fenced' => CutOff(r)'
    BY <1>0, <1>6, <2>1 DEF Stage, CutOff, start, Active, Goto, Types, Action, Pg, Task, Response, StepOnly, ghosts
  <2> QED
    BY <2>3, <2>4, <2>5
<1>7. CASE PostmasterStart(r)
  <2>1. /\ run[r].pc = "fork" /\ run'[r].kind = run[r].kind
        /\ task' = task /\ response' = response /\ fenced' = fenced
        /\ \/ run'[r].pc = "finish" /\ pg' = pg
           \/ run'[r].pc = "assign" /\ ~(Critically(r) /\ task.cancelled)
    <3>1. /\ run[r].pc = "fork" /\ StepOnly /\ UNCHANGED <<task, response, role, state, conf>>
          /\ \/ Goto(r, "finish") /\ UNCHANGED pg
             \/ ~(run[r].kind \in Critical /\ task.cancelled) /\ Goto(r, "assign")
      BY <1>7 DEF PostmasterStart
    <3>2. CASE Goto(r, "finish") /\ UNCHANGED pg
      BY <3>1, <3>2 DEF Goto, Types, Action, StepOnly, ghosts
    <3>3. CASE ~(run[r].kind \in Critical /\ task.cancelled) /\ Goto(r, "assign")
      BY <3>1, <3>3 DEF Goto, Types, Action, StepOnly, ghosts
    <3> QED
      BY <3>1, <3>2, <3>3
  <2>2. pg.by /= r
    BY <1>0, <2>1 DEF Stage
  <2>3. HasTask'
    BY <1>0, <2>1
  <2>4. Stage(r)'
    BY <1>0, <2>1, <2>2 DEF Stage, Active
  <2>5. r \in fenced' => CutOff(r)'
    BY <1>0, <2>1 DEF Stage, CutOff
  <2> QED
    BY <2>3, <2>4, <2>5
<1>8. CASE PostmasterKnown(r)
  <2>1. run'[r].kind = run[r].kind /\ run'[r].pc \in {"wait"}
    BY <1>8 DEF PostmasterKnown, Goto, Types, Action
  <2>3. HasTask'
    BY <1>0, <1>8, <2>1 DEF PostmasterKnown, Active, Goto, Types, Action, Pg, Task, Response, StepOnly, ghosts
  <2>4. Stage(r)'
    BY <1>0, <1>8, <2>1 DEF Stage, PostmasterKnown, Active, Goto, Types, Action, Pg, Task, Response, StepOnly, ghosts
  <2>5. r \in fenced' => CutOff(r)'
    BY <1>0, <1>8, <2>1 DEF Stage, CutOff, PostmasterKnown, Active, Goto, Types, Action, Pg, Task, Response, StepOnly, ghosts
  <2> QED
    BY <2>3, <2>4, <2>5
<1>9. CASE wait_for_startup(r)
  <2>1. run'[r].kind = run[r].kind /\ run'[r].pc \in {"finish"}
    BY <1>9 DEF wait_for_startup, Goto, Types, Action
  <2>3. HasTask'
    BY <1>0, <1>9, <2>1 DEF wait_for_startup, Active, Goto, Types, Action, Pg, Task, Response, StepOnly, ghosts
  <2>4. Stage(r)'
    BY <1>0, <1>9, <2>1 DEF Stage, wait_for_startup, Active, Goto, Types, Action, Pg, Task, Response, StepOnly, ghosts
  <2>5. r \in fenced' => CutOff(r)'
    BY <1>0, <1>9, <2>1 DEF Stage, CutOff, wait_for_startup, Active, Goto, Types, Action, Pg, Task, Response, StepOnly, ghosts
  <2> QED
    BY <2>3, <2>4, <2>5
<1>10. CASE _pre_promote(r)
  <2>1. run'[r].kind = run[r].kind /\ run'[r].pc \in {"finish", "commit", "refuse"}
    BY <1>10 DEF _pre_promote, Goto, Types, Action
  <2>3. HasTask'
    BY <1>0, <1>10, <2>1 DEF _pre_promote, Active, Goto, Types, Action, Pg, Task, Response, StepOnly, ghosts, postgres
  <2>4. Stage(r)'
    BY <1>0, <1>10, <2>1 DEF Stage, _pre_promote, Active, Goto, Types, Action, Pg, Task, Response, StepOnly, ghosts, postgres
  <2>5. r \in fenced' => CutOff(r)'
    BY <1>0, <1>10, <2>1 DEF Stage, CutOff, _pre_promote, Active, Goto, Types, Action, Pg, Task, Response, StepOnly, ghosts, postgres
  <2> QED
    BY <2>3, <2>4, <2>5
<1>11. CASE PromoteCommit(r)
  <2>1. /\ run[r].pc \in {"commit", "refuse"} /\ run'[r].kind = run[r].kind
        /\ task' = task /\ pg' = pg /\ fenced' = fenced
        /\ \/ response' = response /\ run'[r].pc = "finish"
           \/ ~response.cancelled /\ run'[r].pc = "finish"
           \/ ~response.cancelled /\ run'[r].pc = "check" /\ response'.result = "commit"
    BY <1>11 DEF PromoteCommit, Goto, Types, Action, Response, StepOnly, ghosts, postgres
  <2>2. pg.by /= r
    BY <1>0, <2>1 DEF Stage
  <2>3. HasTask'
    BY <1>0, <2>1
  <2>4. Stage(r)'
    BY <1>0, <2>1, <2>2 DEF Stage, Active
  <2>5. r \in fenced' => CutOff(r)'
    BY <1>0, <2>1 DEF Stage, CutOff
  <2> QED
    BY <2>3, <2>4, <2>5
<1>12. CASE PromoteCheck(r)
  <2>1. run'[r].kind = run[r].kind /\ run'[r].pc \in {"finish", "pg_ctl"}
    BY <1>12 DEF PromoteCheck, Goto, Types, Action
  <2>3. HasTask'
    BY <1>0, <1>12, <2>1 DEF PromoteCheck, Active, Goto, Types, Action, Pg, Task, Response, StepOnly, ghosts, postgres
  <2>4. Stage(r)'
    BY <1>0, <1>12, <2>1 DEF Stage, PromoteCheck, Active, Goto, Types, Action, Pg, Task, Response, StepOnly, ghosts, postgres
  <2>5. r \in fenced' => CutOff(r)'
    BY <1>0, <1>12, <2>1 DEF Stage, CutOff, PromoteCheck, Active, Goto, Types, Action, Pg, Task, Response, StepOnly, ghosts, postgres
  <2> QED
    BY <2>3, <2>4, <2>5
<1>13. CASE promote(r)
  <2>1. /\ run[r].pc = "pg_ctl" /\ run'[r].kind = run[r].kind
        /\ task' = task /\ response' = response /\ fenced' = fenced
        /\ \/ run'[r].pc = "production"
           \/ run'[r].pc = "finish" /\ pg' = pg
    BY <1>13 DEF promote, Goto, Types, Action, StepOnly, ghosts
  <2>2. response.result = "commit" /\ pg.by /= r /\ ~Critically(r)
    BY <1>0, <2>1 DEF Stage
  <2>3. HasTask'
    BY <1>0, <2>1
  <2>4. run[r].kind = "promote"
    BY <1>0, <2>1 DEF Stage
  <2>5. Stage(r)'
    BY <1>0, <2>1, <2>2, <2>4 DEF Stage, Active
  <2>6. r \in fenced' => CutOff(r)'
    BY <1>0, <2>1, <2>2 DEF CutOff
  <2> QED
    BY <2>3, <2>5, <2>6
<1>14. CASE _wait_promote(r)
  <2>1. run'[r].kind = run[r].kind /\ run'[r].pc \in {"finish"}
    BY <1>14 DEF _wait_promote, Goto, Types, Action
  <2>3. HasTask'
    BY <1>0, <1>14, <2>1 DEF _wait_promote, Active, Goto, Types, Action, Pg, Task, Response, StepOnly, ghosts
  <2>4. Stage(r)'
    BY <1>0, <1>14, <2>1 DEF Stage, _wait_promote, Active, Goto, Types, Action, Pg, Task, Response, StepOnly, ghosts
  <2>5. r \in fenced' => CutOff(r)'
    BY <1>0, <1>14, <2>1 DEF Stage, CutOff, _wait_promote, Active, Goto, Types, Action, Pg, Task, Response, StepOnly, ghosts
  <2> QED
    BY <2>3, <2>4, <2>5
<1>15. CASE _do_reinitialize(r)
  <2>1. run'[r].kind = run[r].kind /\ run'[r].pc \in {"clone"}
    BY <1>15 DEF _do_reinitialize, Goto, Types, Action
  <2>3. HasTask'
    BY <1>0, <1>15, <2>1 DEF _do_reinitialize, Active, Goto, Types, Action, Pg, Task, Response, StepOnly, ghosts, Stopped, Down
  <2>4. Stage(r)'
    BY <1>0, <1>15, <2>1 DEF Stage, _do_reinitialize, Active, Goto, Types, Action, Pg, Task, Response, StepOnly, ghosts, Stopped, Down
  <2>5. r \in fenced' => CutOff(r)'
    BY <1>0, <1>15, <2>1 DEF Stage, CutOff, _do_reinitialize, Active, Goto, Types, Action, Pg, Task, Response, StepOnly, ghosts, Stopped, Down
  <2> QED
    BY <2>3, <2>4, <2>5
<1>16. CASE clone(r)
  <2>1. run'[r].kind = run[r].kind /\ run'[r].pc \in {"copy"}
    BY <1>16 DEF clone, Goto, Types, Action
  <2>3. HasTask'
    BY <1>0, <1>16, <2>1 DEF clone, Active, Goto, Types, Action, Pg, Task, Response, StepOnly, ghosts
  <2>4. Stage(r)'
    BY <1>0, <1>16, <2>1 DEF Stage, clone, Active, Goto, Types, Action, Pg, Task, Response, StepOnly, ghosts
  <2>5. r \in fenced' => CutOff(r)'
    BY <1>0, <1>16, <2>1 DEF Stage, CutOff, clone, Active, Goto, Types, Action, Pg, Task, Response, StepOnly, ghosts
  <2> QED
    BY <2>3, <2>4, <2>5
<1>17. CASE CloneEnds(r)
  <2>1. run'[r].kind = run[r].kind /\ run'[r].pc \in {"conf", "finish"}
    BY <1>17 DEF CloneEnds, Goto, Types, Action
  <2>3. HasTask'
    BY <1>0, <1>17, <2>1 DEF CloneEnds, Active, Goto, Types, Action, Pg, Task, Response, StepOnly, ghosts
  <2>4. Stage(r)'
    BY <1>0, <1>17, <2>1 DEF Stage, CloneEnds, Active, Goto, Types, Action, Pg, Task, Response, StepOnly, ghosts
  <2>5. r \in fenced' => CutOff(r)'
    BY <1>0, <1>17, <2>1 DEF Stage, CutOff, CloneEnds, Active, Goto, Types, Action, Pg, Task, Response, StepOnly, ghosts
  <2> QED
    BY <2>3, <2>4, <2>5
<1> QED
  BY <1>1, <1>2, <1>3, <1>4, <1>5, <1>6, <1>7, <1>8, <1>9, <1>10, <1>11, <1>12,
     <1>13, <1>14, <1>15, <1>16, <1>17 DEF Run

-----------------------------------------------------------------------------
(* The steps of Next.                                                       *)

\* A step is one of an action, the cancellation by the loop, or neither.
LEMMA Steps ==
  ASSUME [Next]_vars
  PROVE  Outside \/ handle_long_action_in_progress \/ (\E r \in Runner : Run(r)) \/ UNCHANGED vars
  BY DEF Next, Cycle, Finished, Outside

\* What has been scheduled was not active before, and the others are where they were.
LEMMA Begun ==
  ASSUME Types, Begins
  PROVE  /\ ex.action = "none"
         /\ \E r \in Runner : /\ ~Active(r) /\ run'[r].pc = "new"
                              /\ run'[r].kind = ex'.action /\ ex'.action \in Kind
                              /\ \A s \in Runner \ {r} : run'[s] = run[s]
  BY DEF Begins, schedule, Types

\* Who is fenced is at work.
LEMMA MembersStep == Types /\ Members /\ [Next]_vars => Members'
<1> SUFFICES ASSUME Types, Members, [Next]_vars PROVE Members'
  OBVIOUS
<1>1. CASE Outside
  <2>1. fenced' = fenced /\ (run' = run \/ Begins)
    BY <1>1, OutsideStep DEF Spared
  <2>2. ASSUME NEW s \in Runner, Active(s), Begins PROVE run'[s] = run[s]
    BY <2>2, Begun
  <2> QED
    BY <2>1, <2>2 DEF Members, Active, Types
<1>2. CASE handle_long_action_in_progress
  BY <1>2 DEF Members, handle_long_action_in_progress, Lost, Active
<1>3. ASSUME NEW r \in Runner, Run(r) PROVE Members'
  BY <1>3, RunStep DEF Members, Active, Goto, Types, Action
<1>4. CASE UNCHANGED vars
  BY <1>4 DEF Members, vars, Active
<1> QED
  BY <1>1, <1>2, <1>3, <1>4, Steps

\* Only an action about to tell Patroni of its postmaster starts one.
LEMMA KnownStep == Types /\ Known /\ [Next]_vars => Known'
<1> SUFFICES ASSUME Types, Known, [Next]_vars PROVE Known'
  OBVIOUS
<1>1. CASE Outside
  BY <1>1, OutsideStep, Begun DEF Known, Spared, SamePostmaster, Active
<1>2. CASE handle_long_action_in_progress
  BY <1>2 DEF Known, handle_long_action_in_progress, Down, Types, Pg
<1>3. ASSUME NEW r \in Runner, Run(r) PROVE Known'
  <2>1. CASE PostmasterStart(r)
    <3>1. (pg' = pg /\ run[r].pc = "fork") \/ run'[r].pc = "assign"
      BY <2>1 DEF PostmasterStart, Goto, Types, Action
    <3> QED
      BY <1>3, <3>1, RunStep DEF Known
  <2>2. CASE PostmasterKnown(r)
    BY <2>2 DEF Known, PostmasterKnown, Types, Pg
  <2>3. CASE ~PostmasterStart(r) /\ ~PostmasterKnown(r)
    <3>1. run[r].pc /= "assign"
      BY <1>3, <2>3 DEF Run, run_enter, run_reset, run_finally, restart, follow, start,
         wait_for_startup, _pre_promote, PromoteCommit, PromoteCheck, promote, _wait_promote,
         _do_reinitialize, clone, CloneEnds
    <3>2. pg'.proc /= "down" => pg.proc /= "down" /\ pg'.seen = pg.seen
      BY <1>3, <2>3 DEF Run, run_enter, run_reset, run_finally, restart, follow, start,
         wait_for_startup, _pre_promote, PromoteCommit, PromoteCheck, promote, _wait_promote,
         _do_reinitialize, clone, CloneEnds, postgres, Stopped, Down, Types, Pg
    <3> QED
      BY <1>3, <3>1, <3>2, RunStep DEF Known
  <2> QED
    BY <2>1, <2>2, <2>3
<1>4. CASE UNCHANGED vars
  BY <1>4 DEF Known, vars
<1> QED
  BY <1>1, <1>2, <1>3, <1>4, Steps

\* After the stop nothing starts any more.
LEMMA QuietStep == Types /\ Known /\ Quiet /\ [Next]_vars => Quiet'
<1> SUFFICES ASSUME Types, Known, Quiet, [Next]_vars, Exited', "stop" \notin raced'
             PROVE  (pg.proc = "down" /\ api = "idle" /\ \A r \in Runner : ~Active(r))'
  BY DEF Quiet
<1>1. "stop" \notin raced
  <2>1. CASE Outside
    BY <2>1, OutsideStep DEF Spared
  <2>2. CASE handle_long_action_in_progress
    BY <2>2 DEF handle_long_action_in_progress
  <2>3. ASSUME NEW r \in Runner, Run(r) PROVE raced' = raced
    BY <2>3, RunStep
  <2>4. CASE UNCHANGED vars
    BY <2>4 DEF vars
  <2> QED
    BY <2>1, <2>2, <2>3, <2>4, Steps
<1>2. CASE Exited
  <2>1. pg.proc = "down" /\ api = "idle" /\ \A r \in Runner : ~Active(r)
    BY <1>1, <1>2 DEF Quiet
  <2>2. \A r \in Runner : ~Run(r)
    BY <2>1, RunStep
  <2>3. shutdown \/ KeyChanges \/ UNCHANGED vars
    BY <1>2, <2>1, <2>2 DEF Exited, Next, Cycle, Finished, Reinitialize, run_cycle,
       handle_long_action_in_progress, demote_stop, demote_follow, handle_starting_instance,
       post_recover, bootstrap, recover, process_healthy_cluster, process_unhealthy_cluster,
       Healthy, Regular, do_POST_restart, do_POST_reinitialize, cancel_flag, cancel_subprocess,
       cancel_wait, cancel_clear, reinitialize, sigterm_handler, PostgresUp, PostgresCrash
  <2> QED
    BY <2>1, <2>3 DEF shutdown, KeyChanges, vars, postgres, Active
<1>3. CASE ~Exited
  <2>1. sigterm_handler
    <3>1. ASSUME Return \/ demote(TRUE) \/ demote(FALSE) \/ main' = main PROVE ~Exited'
      <4>1. Return => main'.pc = "idle"
        BY DEF Return
      <4>2. demote(TRUE) \/ demote(FALSE) => main'.pc = "stop"
        BY DEF demote, Types, Loop
      <4> QED
        BY <1>3, <3>1, <4>1, <4>2 DEF Exited
    <3>2. CASE Outside
      <4>1. shutdown => Exited
        BY DEF shutdown, Exited
      <4>2. ~run_cycle /\ ~demote_stop
        BY DEF run_cycle, demote_stop, Exited, Types, Loop
      <4> QED
        BY <1>3, <3>1, <3>2, <4>1, <4>2 DEF Outside, Reinitialize, demote_follow,
           handle_starting_instance, post_recover, bootstrap, recover,
           process_healthy_cluster, process_unhealthy_cluster, do_POST_restart,
           do_POST_reinitialize, cancel_flag, cancel_subprocess, cancel_wait, cancel_clear,
           reinitialize, PostgresUp, PostgresCrash, KeyChanges
    <3>3. CASE handle_long_action_in_progress
      BY <3>1, <3>3 DEF handle_long_action_in_progress
    <3>4. ASSUME NEW r \in Runner, Run(r) PROVE main' = main
      BY <3>4 DEF Run, StepOnly,
         run_enter, run_reset, run_finally, restart, follow, start, PostmasterStart,
         PostmasterKnown, wait_for_startup, _pre_promote, PromoteCommit, PromoteCheck, promote,
         _wait_promote, _do_reinitialize, clone, CloneEnds
    <3> QED
      BY <3>1, <3>2, <3>3, <3>4, Steps DEF vars
  <2>2. Lost = {} /\ api = "idle" /\ run' = run /\ api' = api /\ pg' = Stopped
    BY <2>1 DEF sigterm_handler
  <2>3. \A r \in Runner : run[r].pc = "idle"
    BY <2>2 DEF Lost, Active
  <2>4. pg.proc = "down" \/ pg.seen
    BY <2>3 DEF Known
  <2> QED
    BY <2>2, <2>3, <2>4 DEF Stopped, is_running, Down, Active, Types, Pg
<1> QED
  BY <1>2, <1>3

\* But for a cancel that meets an action before it has begun, one action is in
\* progress, its steps are in order, and nothing undoes what has cancelled it.
LEMMA WholeStep == Types /\ Members /\ Whole /\ [Next]_vars => Whole'
<1> SUFFICES ASSUME Types, Members, Whole, [Next]_vars, "cancel" \notin raced'
             PROVE  Alone' /\ Stages' /\ Cut'
  BY DEF Whole
<1>1. CASE Outside
  <2>1. Spared /\ SamePostmaster /\ Alone /\ Stages /\ Cut
    BY <1>1, OutsideStep DEF Whole, Spared
  <2>2. CASE Begins
    <3>1. \A r \in Runner : ~Active(r)
      BY <2>1, <2>2, Begun DEF Alone
    <3>2. task'.result = "none" /\ pg'.by \notin Runner /\ fenced' = {}
      BY <2>1, <3>1 DEF Stages, HasPostmaster, Stage, Spared, SamePostmaster, Active, Members,
         Types, Task, Pg, Critically
    <3>3. PICK r \in Runner : /\ run'[r].pc = "new" /\ run'[r].kind = ex'.action
                              /\ ex'.action \in Kind
                              /\ \A s \in Runner \ {r} : run'[s].pc = "idle"
      BY <2>2, <3>1, Begun DEF Active
    <3>4. Alone'
      BY <3>3 DEF Alone, Active, Kind
    <3>5. HasPostmaster' /\ Cut'
      BY <3>2 DEF HasPostmaster, Cut
    <3>6. ASSUME NEW s \in Runner PROVE Stage(s)'
      <4>1. s /= r => run'[s].kind = run[s].kind
        BY <2>2, <3>3, Begun
      <4>2. s /= r => run[s].kind /= "promote" /\ ~Critically(s)
        BY <2>1, <3>1 DEF Stages, Stage, Active, Promoting, Starting
      <4> QED
        BY <3>2, <3>3, <4>1, <4>2 DEF Stage, Promoting, Starting, Critically
    <3> QED
      BY <3>4, <3>5, <3>6 DEF Stages
  <2>3. CASE run' = run /\ ex'.action = ex.action
    <3>1. Alone'
      BY <2>1, <2>3 DEF Alone, Active
    <3>2. task' = task /\ pg'.by = pg.by /\ (pg.proc = "down" => pg'.proc = "down")
      BY <2>1 DEF Spared, SamePostmaster
    <3>3. ASSUME NEW s \in Runner, Active(s) PROVE response' = response
      BY <2>1, <3>3 DEF Alone, Spared, busy
    <3>4. HasPostmaster'
      BY <2>1, <2>3, <3>2 DEF Stages, HasPostmaster, Critically
    <3>5. ASSUME NEW s \in Runner PROVE Stage(s)'
      BY <2>1, <2>3, <3>2, <3>3 DEF Stages, Stage, Critically, Active
    <3>6. Cut'
      BY <2>1, <2>3, <3>2, <3>3 DEF Cut, CutOff, Spared, Members, Critically, Types
    <3> QED
      BY <3>1, <3>4, <3>5, <3>6 DEF Stages
  <2> QED
    BY <2>1, <2>2, <2>3 DEF Spared
<1>2. CASE handle_long_action_in_progress
  <2>1. run' = run /\ ex' = ex /\ raced' = raced /\ Alone /\ Stages /\ Cut
    BY <1>2 DEF handle_long_action_in_progress, Whole
  <2>2. Alone'
    BY <2>1 DEF Alone, Active
  <2>3. task'.result = task.result /\ response'.result = response.result /\ pg'.by = pg.by
    BY <1>2 DEF handle_long_action_in_progress, Types, Task, Response, Pg, Down
  <2>4. HasPostmaster' /\ \A s \in Runner : Stage(s)'
    BY <2>1, <2>3 DEF Stages, Stage, HasPostmaster, Critically, Active
  <2>5. ASSUME NEW s \in fenced' PROVE CutOff(s)'
    <3>1. /\ s \in Runner
          /\ task.cancelled => task'.cancelled
          /\ response.cancelled => response'.cancelled
          /\ pg.proc = "down" => pg'.proc = "down"
      BY <1>2, <2>5
      DEF handle_long_action_in_progress, Types, Task, Response, Pg, Down, Lost
    <3>2. CASE s \in fenced
      BY <2>1, <2>3, <3>1, <3>2 DEF Cut, CutOff, Critically
    <3>3. CASE s \notin fenced
      <4>1. Active(s) /\ run[s].kind = ex.action
        BY <1>2, <2>1, <2>5, <3>3 DEF handle_long_action_in_progress, Lost, Alone
      <4>2. \/ ex.action = "promote" /\ response'.cancelled /\ response.result = "none"
            \/ /\ ex.action \in Critical /\ ~TaskHeld
               /\ task.result = "none" => task'.cancelled
               /\ task.result /= "none" => pg'.proc = "down"
        <5>1. \/ /\ ex.action = "promote" /\ response.result = "none"
                 /\ response' = [response EXCEPT !.cancelled = TRUE]
              \/ /\ ex.action \in Critical /\ ~TaskHeld
                 /\ task.result = "none" => task' = [task EXCEPT !.cancelled = TRUE]
                 /\ task.result /= "none" => pg' = Down
          BY <1>2, <2>5, <3>3 DEF handle_long_action_in_progress
        <5> QED
          BY <5>1 DEF Types, Task, Response, Pg, Down
      <4>3. run[s].kind \in Critical /\ ~TaskHeld => run[s].pc /= "assign"
        BY <3>1 DEF TaskHeld
      <4>4. task.result /= "none" => run[s].pc \in {"wait", "finish"}
        BY <2>1, <3>1, <4>1 DEF Stages, HasPostmaster, Alone, Active, Critically
      <4> QED
        BY <2>1, <2>3, <4>1, <4>2, <4>3, <4>4 DEF CutOff, Critically
    <3> QED
      BY <3>2, <3>3
  <2> QED
    BY <2>2, <2>4, <2>5 DEF Stages, Cut
<1>3. ASSUME NEW r \in Runner, Run(r) PROVE Alone' /\ Stages' /\ Cut'
  <2>1. Alone /\ Stages /\ Cut /\ Active(r)
    BY <1>3, RunStep DEF Whole
  <2>2. \A s \in Runner : Active(s) => s = r
    BY <2>1 DEF Alone
  <2>3. \A s \in Runner \ {r} : run[s].pc = "idle" /\ run'[s] = run[s] /\ pg'.by /= s
    BY <1>3, <2>1, <2>2, RunStep DEF Active, Stages, Stage, Types, Pg, Runner, Api
  <2>4. \/ run'[r].kind = run[r].kind /\ ex'.action = ex.action
        \/ run'[r].pc = "idle"
    BY <1>3, RunStep DEF Goto, Types, Action, Idle
  <2>5. Alone'
    BY <2>1, <2>3, <2>4 DEF Alone, Active
  <2>6. HasPostmaster' /\ Stage(r)' /\ (r \in fenced' => CutOff(r)')
    BY <1>3, <2>1, <2>2, StageStep
  <2>7. ASSUME NEW s \in Runner \ {r} PROVE Stage(s)'
    BY <2>1, <2>3 DEF Stages, Stage, Critically, Starting, Promoting
  <2>8. fenced' \subseteq {r}
    BY <1>3, <2>2, RunStep DEF Members, Types
  <2> QED
    BY <2>5, <2>6, <2>7, <2>8 DEF Stages, Cut
<1>4. CASE UNCHANGED vars
  BY <1>4 DEF vars, Whole, Alone, Stages, Stage, HasPostmaster, Cut, CutOff, Critically, Active
<1> QED
  BY <1>1, <1>2, <1>3, <1>4, Steps

-----------------------------------------------------------------------------
(* The theorem.                                                             *)

\* The invariant holds at first.
LEMMA IInvInit == Init => IInv
<1> SUFFICES ASSUME Init PROVE IInv
  OBVIOUS
<1>1. Types
  BY DEF Init, Types, Executor, Task, Response, Loop, Pg, Mode, Action, Pc, Fresh, Idle
<1>2. Members /\ Known /\ Quiet
  BY DEF Init, Members, Known, Quiet, Exited
<1>3. Alone /\ Cut
  BY DEF Init, Alone, Cut, Active, Idle
<1>4. Stages
  BY DEF Init, Stages, Stage, HasPostmaster, Critically, Critical, Starting, Promoting, Idle,
     Fresh, Runner, Api
<1> QED
  BY <1>1, <1>2, <1>3, <1>4 DEF IInv, Whole

\* What has been cancelled has no postmaster of its own, or that one is down.
LEMMA CutIsFenced == Types /\ Whole => Fenced
<1> SUFFICES ASSUME Types, Whole, "cancel" \notin raced, NEW r \in fenced, pg.by = r
             PROVE  pg.proc = "down"
  BY DEF Fenced
<1> QED
  BY DEF Whole, Stages, Stage, Cut, CutOff, Types, Critically, Critical

\* Who is at work is alone.
LEMMA AloneIsOne == Types /\ Whole => OneTask
<1> SUFFICES ASSUME Types, Alone PROVE Cardinality({r \in Runner : Body(r)}) <= 1
  BY DEF Whole, OneTask
<1> DEFINE busyOnes == {r \in Runner : Body(r)}
<1>1. CASE busyOnes = {}
  BY <1>1, FS_EmptySet
<1>2. CASE busyOnes /= {}
  <2> PICK r \in Runner : Body(r)
    BY <1>2
  <2>1. busyOnes = {r}
    BY DEF Alone, Body, Active
  <2> QED
    BY <2>1, FS_Singleton
<1> QED
  BY <1>1, <1>2

\* Wherever an action is when the loop cancels it for the loss of the key (critical tasks,
\* handle_long_action_in_progress), it gives the node no primary; the executor runs one
\* action at a time; and after the stop of the daemon nothing starts Postgres again.
THEOREM NodeIsSafe == Spec => []NodeSafe
<1>1. IInv /\ [Next]_vars => IInv'
  BY TypesStep, MembersStep, KnownStep, QuietStep, WholeStep DEF IInv
<1>2. IInv => NodeSafe
  <2> SUFFICES ASSUME IInv PROVE NodeSafe
    OBVIOUS
  <2>1. TypeOK
    BY DEF IInv, Types, TypeOK, Executor, Mode, Members, Whole, Stages, HasPostmaster, Critically
  <2>2. StoppedForGood
    BY DEF IInv, Quiet, StoppedForGood, Exited
  <2> QED
    BY <2>1, <2>2, CutIsFenced, AloneIsOne DEF IInv, NodeSafe
<1> QED
  BY <1>1, <1>2, IInvInit, PTL DEF Spec

HIDE PatroniNodeAssumption

-----------------------------------------------------------------------------
(* Replication slots: the inductive invariant.                             *)

\* A slot, or a copy of one: what it needs is there to be confirmed, and is confirmed.
Proper(s) == s \in Slots /\ (s = NoSlot \/ 0 < s.xmin) /\ s.xmin <= s.confirmed /\ s.confirmed <= consumed

\* What the slots say.
Postgres ==
    /\ leader \in Member /\ now \in 1 .. MaxNow /\ consumed \in 1 .. now /\ removed \in 1 .. now
    /\ slot \in [Member -> Slots] /\ \A n \in Member : Proper(slot[n])
    /\ phys \in [Member -> Positions \cup {Absent}]
    /\ connected \in [Member -> BOOLEAN] /\ unprotected \in [Member -> BOOLEAN]
    /\ unready \in BOOLEAN /\ failures \in 0 .. MaxFailures

\* Whatever is on its way to a slot was confirmed: a published position, what a cycle
\* or a thread has read of it, and what is copied.
OnItsWay ==
    /\ status \in 0 .. consumed
    /\ seen \in [Member -> Positions \cup {Unread}] /\ \A n \in Member : seen[n] <= consumed
    /\ slots \in [Member -> Slots \cup {Bare}] /\ \A n \in Member : slots[n].confirmed <= consumed
    /\ advance \in [Member -> [scheduled : Positions, hand : Positions, failed : BOOLEAN, copy : BOOLEAN]]
    /\ \A n \in Member : advance[n].scheduled <= consumed /\ advance[n].hand <= consumed
    /\ copy \in [Member -> [state : {"idle", "asked", "read"}, slot : Slots]]
    /\ \A n \in Member : Proper(copy[n].slot) /\ (copy[n].state = "read" => copy[n].slot /= NoSlot)

\* What the handler remembers of a slot is not beyond it, unless it is to be read again.
Remembers ==
    /\ queue \in [Member -> Positions \cup {Absent}]
    /\ load \in [Member -> BOOLEAN] /\ force \in [Member -> BOOLEAN]
    /\ \A n \in Member : force[n] => load[n]
    /\ \A n \in Member : ~load[n] /\ slot[n] /= NoSlot => slots[n] /= NoSlot /\ slots[n].xmin <= slot[n].xmin

\* The primary has the rows that its slot needs.
Usable == slot[leader] /= NoSlot => removed <= slot[leader].xmin

\* A copy that is checked, and not yet ready: since the primary's position was noted
\* nothing was removed but with the reservation in force.  One that is ready needs
\* nothing that is not reserved.
Checked(n) == Standby(n) /\ slot[n] /= NoSlot /\ ~force[n] /\ ~unprotected[n] =>
    /\ queue[n] > Null => phys[n] > Null /\ (removed <= queue[n] \/ removed <= phys[n])
    /\ queue[n] = Absent => phys[n] > Null /\ phys[n] <= slot[n].xmin /\ removed <= phys[n]

SlotsIInv == Postgres /\ OnItsWay /\ Remembers /\ (unready \/ (Usable /\ \A n \in Member : Checked(n)))

USE SlotsAssumption
USE DEF NoSlot, Bare, Absent, Null, Unread, Positions, Slots, Standby

-----------------------------------------------------------------------------
(* Replication slots: the greater of two, the least of several.             *)

LEMMA MaxOfTwo ==
  ASSUME NEW a \in Int, NEW b \in Int
  PROVE  Max({a, b}) \in {a, b} /\ Max({a, b}) >= a /\ Max({a, b}) >= b
  <1>1. \E x \in {a, b} : \A y \in {a, b} : x >= y
    OBVIOUS
  <1> QED
    BY <1>1 DEF Max

LEMMA MinOfNumbers ==
  ASSUME NEW S \in SUBSET Nat, S /= {}
  PROVE  Min(S) \in S /\ \A x \in S : Min(S) <= x
  <1>1. PICK x \in S : \A y \in S : ~(<<y, x>> \in OpToRel(<, Nat))
    BY WFMin, NatLessThanWellFounded
  <1>2. \A y \in S : x <= y
    <2>1. \A y \in S : ~(y < x)
      BY <1>1 DEF OpToRel
    <2> QED
      BY <2>1
  <1>3. \E z \in S : \A y \in S : z <= y
    BY <1>2
  <1> QED
    BY <1>3 DEF Min

-----------------------------------------------------------------------------
(* Replication slots: the steps.                                           *)

\* What an action leaves alone.
LEMMA CheckedKept ==
  ASSUME NEW m \in Member, Checked(m), leader' = leader, removed' = removed, slot'[m] = slot[m],
         force'[m] = force[m], queue'[m] = queue[m], phys'[m] = phys[m], unprotected'[m] = unprotected[m]
  PROVE  Checked(m)'
  BY DEF Checked

LEMMA UsableKept ==
  ASSUME Usable, UNCHANGED <<leader, removed, slot>>
  PROVE  Usable'
  BY DEF Usable

LEMMA PostgresKept ==
  ASSUME Postgres, UNCHANGED <<cluster, slot, connected, unprotected>>, failures' \in 0 .. MaxFailures
  PROVE  Postgres'
  BY DEF Postgres, Proper, cluster

LEMMA OnItsWayKept ==
  ASSUME OnItsWay, UNCHANGED <<consumed, patroni>>
  PROVE  OnItsWay'
  BY DEF OnItsWay, Proper, patroni, slots_handler

LEMMA RemembersKept ==
  ASSUME Remembers, UNCHANGED <<slot, slots_handler>>
  PROVE  Remembers'
  BY DEF Remembers, slots_handler

LEMMA MayIs ==
  ASSUME Postgres, NEW f \in {0, 1}, May(f)
  PROVE  failures' \in 0 .. MaxFailures
  BY DEF Postgres, May

LEMMA ProperKept ==
  ASSUME NEW s, Proper(s), consumed \in Nat, consumed' \in Nat, consumed <= consumed'
  PROVE  Proper(s)'
  BY DEF Proper

LEMMA OnItsWayGrows ==
  ASSUME OnItsWay, UNCHANGED patroni, consumed \in Nat, consumed' \in Nat, consumed <= consumed'
  PROVE  OnItsWay'
  <1>1. status' \in 0 .. consumed'
    BY DEF OnItsWay, patroni
  <1>2. seen' \in [Member -> Positions \cup {Unread}] /\ \A n \in Member : seen'[n] <= consumed'
    <2>1. \A n \in Member : seen[n] \in Int /\ seen[n] <= consumed
      BY DEF OnItsWay
    <2> QED
      BY <2>1 DEF OnItsWay, patroni
  <1>3. slots' \in [Member -> Slots \cup {Bare}] /\ \A n \in Member : slots'[n].confirmed <= consumed'
    <2>1. \A n \in Member : slots[n].confirmed \in Int /\ slots[n].confirmed <= consumed
      BY DEF OnItsWay
    <2> QED
      BY <2>1 DEF OnItsWay, patroni, slots_handler
  <1>4. /\ advance' \in [Member -> [scheduled : Positions, hand : Positions, failed : BOOLEAN, copy : BOOLEAN]]
        /\ \A n \in Member : advance'[n].scheduled <= consumed' /\ advance'[n].hand <= consumed'
    <2>1. \A n \in Member : /\ advance[n].scheduled \in Int /\ advance[n].scheduled <= consumed
                            /\ advance[n].hand \in Int /\ advance[n].hand <= consumed
      BY DEF OnItsWay
    <2> QED
      BY <2>1 DEF OnItsWay, patroni
  <1>5. /\ copy' \in [Member -> [state : {"idle", "asked", "read"}, slot : Slots]]
        /\ \A n \in Member : Proper(copy[n].slot)' /\ (copy'[n].state = "read" => copy'[n].slot /= NoSlot)
    <2>1. \A n \in Member : Proper(copy[n].slot)'
      BY ProperKept DEF OnItsWay, patroni, Proper
    <2> QED
      BY <2>1 DEF OnItsWay, patroni
  <1> QED
    BY <1>1, <1>2, <1>3, <1>4, <1>5 DEF OnItsWay

LEMMA WriteKeeps ==
  ASSUME SlotsIInv, WriteWal
  PROVE  SlotsIInv'
  <1>1. Postgres'
    BY DEF SlotsIInv, WriteWal, Postgres, Proper, links
  <1>2. OnItsWay' /\ Remembers'
    BY OnItsWayKept, RemembersKept DEF SlotsIInv, WriteWal, patroni
  <1>3. unready' \/ (Usable' /\ \A m \in Member : Checked(m)')
    BY UsableKept, CheckedKept DEF SlotsIInv, WriteWal, patroni, slots_handler, links
  <1> QED
    BY <1>1, <1>2, <1>3 DEF SlotsIInv

LEMMA ConsumeKeeps ==
  ASSUME SlotsIInv, Consume
  PROVE  SlotsIInv'
  <1> DEFINE s == slot'[leader]
  <1>1. /\ slot[leader] \in Slots /\ leader \in Member /\ Proper(slot[leader]) /\ slot[leader] /= NoSlot
        /\ consumed \in 1 .. now /\ now \in 1 .. MaxNow
    BY DEF SlotsIInv, Postgres, Consume
  <1>2. /\ s \in Slots /\ s /= NoSlot /\ s.xmin <= s.confirmed /\ slot[leader].xmin <= s.xmin
        /\ consumed' \in consumed .. now /\ s.confirmed <= consumed'
        /\ slot' = [slot EXCEPT ![leader] = s]
    <2>1. CASE \E p \in slot[leader].confirmed + 1 .. now :
                /\ slot' = [slot EXCEPT ![leader].confirmed = p]
                /\ consumed' = Max({consumed, p})
      BY <1>1, <2>1, MaxOfTwo DEF SlotsIInv, Postgres, Proper
    <2>2. CASE /\ slot[leader].xmin < slot[leader].confirmed
               /\ slot' = [slot EXCEPT ![leader].xmin = @ + 1]
               /\ UNCHANGED consumed
      BY <1>1, <2>2 DEF SlotsIInv, Postgres, Proper
    <2> QED
      BY <2>1, <2>2 DEF Consume
  <1> HIDE DEF s
  <1>3. Postgres'
    BY <1>1, <1>2 DEF SlotsIInv, Consume, Postgres, Proper, links
  <1>4. OnItsWay'
    BY <1>1, <1>2, OnItsWayGrows DEF SlotsIInv, Consume
  <1>5. Remembers'
    <2>1. ASSUME NEW n \in Member, ~load[n], slot'[n] /= NoSlot
          PROVE  slots[n] /= NoSlot /\ slots[n].xmin <= slot'[n].xmin
      <3>1. CASE n = leader
        <4>1. slots[n] /= NoSlot /\ slots[n].xmin <= slot[n].xmin
          BY <1>1, <2>1, <3>1 DEF SlotsIInv, Remembers
        <4>2. slots[n].xmin \in Int
          BY DEF SlotsIInv, OnItsWay
        <4> QED
          BY <1>1, <1>2, <3>1, <4>1, <4>2 DEF SlotsIInv, Postgres
      <3>2. CASE n /= leader
        BY <1>2, <2>1, <3>2 DEF SlotsIInv, Postgres, Remembers
      <3> QED
        BY <3>1, <3>2
    <2> QED
      BY <2>1 DEF SlotsIInv, Consume, Remembers, patroni, slots_handler
  <1>6. Usable => Usable'
    BY <1>1, <1>2 DEF SlotsIInv, Postgres, Consume, Usable
  <1>7. ASSUME NEW m \in Member, Checked(m) PROVE Checked(m)'
    BY <1>1, <1>2, <1>7, CheckedKept DEF SlotsIInv, Postgres, Consume, patroni, slots_handler, links, Checked
  <1> QED
    BY <1>3, <1>4, <1>5, <1>6, <1>7 DEF SlotsIInv, Consume

LEMMA VacuumKeeps ==
  ASSUME SlotsIInv, Vacuum
  PROVE  SlotsIInv'
  <1> DEFINE horizon == {now} \cup {phys[n] : n \in Member} \cup {slot[leader].xmin}
             H == horizon \ {Null, Absent}
  <1>1. H \in SUBSET Nat /\ now \in H
    BY DEF SlotsIInv, Postgres
  <1>2. removed' \in H /\ removed' > removed /\ \A x \in H : removed' <= x
    BY <1>1, MinOfNumbers DEF Vacuum
  <1>3. removed' \in 1 .. now
    BY <1>1, <1>2 DEF SlotsIInv, Postgres
  <1>4. Postgres'
    BY <1>3 DEF SlotsIInv, Vacuum, Postgres, Proper, links
  <1>5. OnItsWay' /\ Remembers'
    BY OnItsWayKept, RemembersKept DEF SlotsIInv, Vacuum, patroni
  <1>6. slot[leader] /= NoSlot => removed' <= slot[leader].xmin
    BY <1>2 DEF SlotsIInv, Postgres, Proper
  <1>7. Usable'
    BY <1>6 DEF Vacuum, Usable
  <1>8. \A m \in Member : phys[m] > Null => removed' <= phys[m]
    BY <1>2
  <1>9. ASSUME NEW m \in Member, Checked(m) PROVE Checked(m)'
    BY <1>8, <1>9 DEF Vacuum, patroni, slots_handler, links, Checked
  <1> QED
    BY <1>4, <1>5, <1>7, <1>9 DEF SlotsIInv, Vacuum

LEMMA FeedbackKeeps ==
  ASSUME SlotsIInv, NEW n \in Member, Feedback(n)
  PROVE  SlotsIInv'
  <1>1. slot[n] \in Slots /\ phys[n] \in Positions
    BY DEF SlotsIInv, Postgres, Feedback
  <1> DEFINE greater == Max({phys[n], slot[n].xmin})
             p == IF slot[n] = NoSlot \/ phys[n] = Null THEN slot[n].xmin ELSE greater
  <1>2. /\ phys' = [phys EXCEPT ![n] = p] /\ phys'[n] = p
        /\ p \in Positions
        /\ slot[n] /= NoSlot /\ phys[n] > Null => /\ p >= phys[n]
                                                  /\ phys[n] <= slot[n].xmin => p = slot[n].xmin
    <2>1. phys[n] \in Int /\ slot[n].xmin \in Int
      BY <1>1
    <2>2. greater \in {phys[n], slot[n].xmin} /\ greater >= phys[n] /\ greater >= slot[n].xmin
      BY <2>1, MaxOfTwo
    <2>3. phys' = [phys EXCEPT ![n] = p] /\ phys \in [Member -> Positions \cup {Absent}]
      BY DEF SlotsIInv, Postgres, Feedback, Put
    <2> HIDE DEF greater
    <2> QED
      BY <1>1, <2>1, <2>2, <2>3
  <1> HIDE DEF p
  <1>3. Postgres'
    BY <1>2 DEF SlotsIInv, Feedback, Postgres, Proper, links
  <1>4. OnItsWay' /\ Remembers'
    BY OnItsWayKept, RemembersKept DEF SlotsIInv, Feedback, patroni
  <1>5. Usable => Usable'
    BY UsableKept DEF Feedback
  <1>6. ASSUME NEW m \in Member, Checked(m) PROVE Checked(m)'
    <2>1. CASE m = n
      <3>1. removed \in Int /\ slot[n].xmin \in Int /\ phys[n] \in Int /\ p \in Int
        BY <1>1, <1>2 DEF SlotsIInv, Postgres
      <3> QED
        BY <1>2, <1>6, <2>1, <3>1 DEF Feedback, patroni, slots_handler, links, Checked
    <2>2. CASE m /= n
      BY <1>2, <1>6, <2>2, CheckedKept DEF SlotsIInv, Postgres, Feedback, patroni, slots_handler, links
    <2> QED
      BY <2>1, <2>2
  <1> QED
    BY <1>3, <1>4, <1>5, <1>6 DEF SlotsIInv, Feedback

LEMMA LoadKeeps ==
  ASSUME SlotsIInv, NEW n \in Member, Load(n)
  PROVE  SlotsIInv'
  <1>1. Postgres'
    BY PostgresKept DEF SlotsIInv, Load, Postgres
  <1>2. slots' \in [Member -> Slots \cup {Bare}] /\ \A m \in Member : slots'[m].confirmed <= consumed
    BY DEF SlotsIInv, Load, process_permanent_slots, OnItsWay, Postgres, Proper, Put
  <1>3. OnItsWay'
    <2>1. seen' \in [Member -> Positions \cup {Unread}] /\ \A m \in Member : seen'[m] <= consumed
      BY DEF SlotsIInv, Load, OnItsWay, Postgres, Put
    <2> QED
      BY <1>2, <2>1 DEF SlotsIInv, Load, OnItsWay, Proper, cluster
  <1>4. Remembers'
    BY DEF SlotsIInv, Load, process_permanent_slots, Remembers, OnItsWay, Postgres, Put
  <1>5. Usable => Usable'
    BY UsableKept DEF Load, cluster
  <1>6. ASSUME NEW m \in Member, Checked(m) PROVE Checked(m)'
    BY <1>6, CheckedKept DEF Load, cluster
  <1> QED
    BY <1>1, <1>3, <1>4, <1>5, <1>6 DEF SlotsIInv, Load, cluster

\* What the handler goes by, after it has read the slots if it had to.
LEMMA LoadedIs ==
  ASSUME SlotsIInv, NEW n \in Member
  PROVE  /\ Loaded(n) \in Slots \cup {Bare} /\ Loaded(n).confirmed \in Int /\ Loaded(n).confirmed <= consumed
         /\ slot[n] /= NoSlot => Loaded(n) /= NoSlot /\ Loaded(n).xmin <= slot[n].xmin
         /\ Queued(n) \in Positions \cup {Absent}
         /\ force[n] => Queued(n) = IF slot[n] = NoSlot THEN Absent ELSE Null
         /\ ~force[n] => Queued(n) = queue[n]
  <1>1. /\ slot[n] \in Slots /\ Proper(slot[n]) /\ slots[n] \in Slots \cup {Bare} /\ slots[n].confirmed <= consumed
        /\ queue[n] \in Positions \cup {Absent} /\ (force[n] => load[n])
        /\ load[n] \in BOOLEAN /\ force[n] \in BOOLEAN
        /\ ~load[n] /\ slot[n] /= NoSlot => slots[n] /= NoSlot /\ slots[n].xmin <= slot[n].xmin
    BY DEF SlotsIInv, Postgres, OnItsWay, Remembers
  <1>2. Loaded(n) = slot[n] \/ (~load[n] /\ Loaded(n) = slots[n])
    BY <1>1 DEF Loaded
  <1>3. Loaded(n) \in Slots \cup {Bare} /\ Loaded(n).confirmed \in Int /\ Loaded(n).confirmed <= consumed
    BY <1>1, <1>2 DEF Proper
  <1>4. slot[n] /= NoSlot => Loaded(n) /= NoSlot /\ Loaded(n).xmin <= slot[n].xmin
    BY <1>1, <1>2
  <1> QED
    BY <1>1, <1>3, <1>4 DEF Queued

LEMMA PrimaryCycleKeeps ==
  ASSUME SlotsIInv, NEW n \in Member, PrimaryCycle(n)
  PROVE  SlotsIInv'
  <1>1. /\ n = leader /\ consumed \in 1 .. now /\ now \in 1 .. MaxNow /\ removed \in 1 .. now
        /\ slot \in [Member -> Slots] /\ Proper(slot[n])
    BY DEF SlotsIInv, Postgres, PrimaryCycle
  <1> DEFINE s == IF Loaded(n) \in {NoSlot, Bare} /\ slot[n] = NoSlot THEN [confirmed |-> now, xmin |-> now] ELSE slot[n]
             l == IF Loaded(n) \in {NoSlot, Bare} THEN Bare ELSE Loaded(n)
  <1>2. /\ slot' = [slot EXCEPT ![n] = s]
        /\ consumed' = IF Loaded(n) \in {NoSlot, Bare} /\ slot[n] = NoSlot THEN now ELSE consumed
        /\ slots' = [slots EXCEPT ![n] = l]
        /\ queue' = [queue EXCEPT ![n] = Absent]
        /\ load' = [load EXCEPT ![n] = (Loaded(n) \in {NoSlot, Bare})]
        /\ force' = IF load[n] THEN [force EXCEPT ![n] = FALSE] ELSE force
        /\ seen' = [seen EXCEPT ![n] = Unread]
        /\ status' \in {status, slots[n].confirmed} /\ (slots[n] = Bare => status' = status)
        /\ phys' = [m \in Member |-> IF m /= n /\ connected[m] /\ phys[m] = Absent THEN Null ELSE phys[m]]
    <2>1. /\ seen' = [seen EXCEPT ![n] = Unread] /\ queue' = [queue EXCEPT ![n] = Absent]
          /\ phys' = [m \in Member |-> IF m /= n /\ connected[m] /\ phys[m] = Absent THEN Null ELSE phys[m]]
          /\ status' = IF slots[n] \in {NoSlot, Bare} THEN status ELSE slots[n].confirmed
      BY DEF PrimaryCycle, update_leader, EnsurePhysicalSlots, Put
    <2>2. CASE Loaded(n) \in {NoSlot, Bare}
      <3>1. /\ slot' = IF slot[n] = NoSlot THEN [slot EXCEPT ![n] = [confirmed |-> now, xmin |-> now]] ELSE slot
            /\ consumed' = IF slot[n] = NoSlot THEN now ELSE consumed
            /\ slots' = [slots EXCEPT ![n] = Bare]
            /\ load' = [load EXCEPT ![n] = TRUE]
            /\ force' = IF load[n] THEN [force EXCEPT ![n] = FALSE] ELSE force
        BY <2>2 DEF PrimaryCycle, load_replication_slots, Put
      <3>2. slot' = [slot EXCEPT ![n] = s]
        BY <1>1, <2>2, <3>1
      <3> QED
        BY <2>1, <2>2, <3>1, <3>2
    <2>3. CASE Loaded(n) \notin {NoSlot, Bare}
      <3>1. /\ slot' = slot /\ consumed' = consumed
            /\ slots' = [slots EXCEPT ![n] = Loaded(n)]
            /\ load' = [load EXCEPT ![n] = FALSE]
            /\ force' = IF load[n] THEN [force EXCEPT ![n] = FALSE] ELSE force
        BY <2>3 DEF PrimaryCycle, load_replication_slots, Put
      <3>2. slot' = [slot EXCEPT ![n] = s]
        BY <1>1, <2>3, <3>1
      <3>3. (Loaded(n) \in {NoSlot, Bare}) = FALSE
        BY <2>3
      <3>4. slots' = [slots EXCEPT ![n] = l] /\ load' = [load EXCEPT ![n] = (Loaded(n) \in {NoSlot, Bare})]
        BY <2>3, <3>1, <3>3
      <3> QED
        BY <2>1, <2>3, <3>1, <3>2, <3>4
    <2> QED
      BY <2>2, <2>3
  <1>3. /\ UNCHANGED <<leader, now, removed, unready, advance, copy, connected, unprotected, failures>>
    BY DEF PrimaryCycle, links
  <1>4. /\ s \in Slots /\ consumed' \in consumed .. now /\ s.xmin <= s.confirmed /\ s.confirmed <= consumed'
        /\ s = NoSlot \/ 0 < s.xmin
        /\ s /= slot[n] => s.xmin = now
        /\ slot[n] /= NoSlot => s = slot[n]
    BY <1>1, <1>2 DEF Proper
  <1>5. /\ l \in Slots \cup {Bare} /\ l.confirmed \in Int /\ l.confirmed <= consumed
        /\ l /= NoSlot
        /\ l /= Bare => l = Loaded(n)
    BY <1>1, LoadedIs
  <1>6. l.xmin <= s.xmin \/ s = NoSlot
    <2>1. CASE l = Bare
      BY <1>4, <2>1
    <2>2. CASE l /= Bare
      BY <1>4, <1>5, <2>2, LoadedIs
    <2> QED
      BY <2>1, <2>2
  <1> HIDE DEF s, l
  <1>7. Postgres'
    BY <1>1, <1>2, <1>3, <1>4 DEF SlotsIInv, Postgres, Proper
  <1>8. OnItsWay'
    <2>1. status' \in 0 .. consumed'
      BY <1>1, <1>2, <1>4 DEF SlotsIInv, OnItsWay
    <2>2. seen' \in [Member -> Positions \cup {Unread}] /\ \A m \in Member : seen'[m] <= consumed'
      <3>1. \A m \in Member : seen[m] \in Int /\ seen[m] <= consumed
        BY DEF SlotsIInv, OnItsWay
      <3> QED
        BY <1>1, <1>2, <1>4, <3>1 DEF SlotsIInv, OnItsWay
    <2>3. slots' \in [Member -> Slots \cup {Bare}] /\ \A m \in Member : slots'[m].confirmed <= consumed'
      <3>1. \A m \in Member : slots[m].confirmed \in Int /\ slots[m].confirmed <= consumed
        BY DEF SlotsIInv, OnItsWay
      <3> QED
        BY <1>1, <1>2, <1>4, <1>5, <3>1 DEF SlotsIInv, OnItsWay
    <2>4. \A m \in Member : advance[m].scheduled <= consumed' /\ advance[m].hand <= consumed'
      <3>1. \A m \in Member : /\ advance[m].scheduled \in Int /\ advance[m].scheduled <= consumed
                              /\ advance[m].hand \in Int /\ advance[m].hand <= consumed
        BY DEF SlotsIInv, OnItsWay
      <3> QED
        BY <1>1, <1>4, <3>1
    <2>5. \A m \in Member : Proper(copy[m].slot)'
      BY <1>1, <1>3, <1>4, ProperKept DEF SlotsIInv, OnItsWay, Proper
    <2> QED
      BY <1>3, <2>1, <2>2, <2>3, <2>4, <2>5 DEF SlotsIInv, OnItsWay
  <1>9. Remembers'
    <2>1. queue' \in [Member -> Positions \cup {Absent}] /\ load' \in [Member -> BOOLEAN] /\ force' \in [Member -> BOOLEAN]
      BY <1>2 DEF SlotsIInv, Remembers
    <2>2. \A m \in Member : force'[m] => load'[m]
      BY <1>2 DEF SlotsIInv, Remembers
    <2>3. ASSUME NEW m \in Member, ~load'[m], slot'[m] /= NoSlot
          PROVE  slots'[m] /= NoSlot /\ slots'[m].xmin <= slot'[m].xmin
      <3>1. CASE m = n
        BY <1>1, <1>2, <1>5, <1>6, <2>3, <3>1 DEF SlotsIInv, OnItsWay
      <3>2. CASE m /= n
        BY <1>1, <1>2, <2>3, <3>2 DEF SlotsIInv, OnItsWay, Remembers
      <3> QED
        BY <3>1, <3>2
    <2> QED
      BY <2>1, <2>2, <2>3 DEF Remembers
  <1>10. Usable => Usable'
    BY <1>1, <1>2, <1>3, <1>4 DEF Usable
  <1>11. ASSUME NEW m \in Member, Checked(m) PROVE Checked(m)'
    <2>1. CASE m = n
      BY <1>1, <1>3, <2>1 DEF Checked
    <2>2. CASE m /= n
      BY <1>2, <1>3, <1>11, <2>2 DEF SlotsIInv, Postgres, Remembers, Checked
    <2> QED
      BY <2>1, <2>2
  <1> QED
    BY <1>3, <1>7, <1>8, <1>9, <1>10, <1>11 DEF SlotsIInv

\* What the check leaves in the queue.
LEMMA ReadinessIs ==
  ASSUME SlotsIInv, NEW n \in Member, Standby(n), ~Raises(n)
  PROVE  LET q == check_logical_slots_readiness(n) IN
         /\ q \in Positions \cup {Absent}
         /\ ~unready /\ slot[n] /= NoSlot /\ (~unprotected[n] \/ Queued(n) = Null) =>
            /\ q > Null => phys[n] > Null /\ (removed <= q \/ removed <= phys[n])
            /\ q = Absent => phys[n] > Null /\ phys[n] <= slot[n].xmin /\ removed <= phys[n]
  <1> DEFINE q == check_logical_slots_readiness(n)
  <1>1. /\ slot \in [Member -> Slots] /\ slot[n] \in Slots /\ Proper(slot[n]) /\ leader \in Member /\ slot[leader] \in Slots
        /\ Proper(slot[leader])
        /\ phys[n] \in Positions \cup {Absent} /\ removed \in Nat
        /\ force[n] \in BOOLEAN /\ queue[n] \in Positions \cup {Absent} /\ unprotected[n] \in BOOLEAN
    BY DEF SlotsIInv, Postgres, Remembers
  <1>2. /\ Loaded(n) \in Slots \cup {Bare}
        /\ slot[n] /= NoSlot => Loaded(n) /= NoSlot /\ Loaded(n).xmin <= slot[n].xmin
        /\ Queued(n) \in Positions \cup {Absent}
        /\ force[n] => Queued(n) = IF slot[n] = NoSlot THEN Absent ELSE Null
        /\ ~force[n] => Queued(n) = queue[n]
    BY LoadedIs
  <1>3. Remembered(n) \in Positions \cup {Absent}
    BY <1>1, <1>2 DEF Remembered
  <1>4. q \in Positions \cup {Absent}
    BY <1>2, <1>3 DEF check_logical_slots_readiness
  <1>5. ASSUME ~unready, slot[n] /= NoSlot, ~unprotected[n] \/ Queued(n) = Null
        PROVE  /\ q > Null => phys[n] > Null /\ (removed <= q \/ removed <= phys[n])
               /\ q = Absent => phys[n] > Null /\ phys[n] <= slot[n].xmin /\ removed <= phys[n]
    <2>0. Usable /\ Checked(n)
      BY <1>5 DEF SlotsIInv
    <2>1. CASE Queued(n) = Absent
      <3>1. q = Absent /\ ~force[n] /\ queue[n] = Absent /\ ~unprotected[n]
        BY <1>1, <1>2, <1>5, <2>1 DEF check_logical_slots_readiness
      <3> QED
        BY <1>5, <2>0, <3>1 DEF Checked
    <2>2. CASE Queued(n) > Null
      <3>1. ~force[n] /\ queue[n] = Queued(n) /\ ~unprotected[n]
        BY <1>1, <1>2, <1>5, <2>2
      <3>2. phys[n] > Null /\ (removed <= queue[n] \/ removed <= phys[n])
        BY <1>5, <2>0, <2>2, <3>1 DEF Checked
      <3>3. q = IF Ready(queue[n], phys[n], Loaded(n)) THEN Absent ELSE queue[n]
        <4>1. Remembered(n) = queue[n]
          BY <2>2, <3>1 DEF Remembered
        <4> QED
          BY <1>1, <1>2, <1>5, <2>2, <3>1, <3>2, <4>1 DEF check_logical_slots_readiness
      <3>4. Ready(queue[n], phys[n], Loaded(n)) => queue[n] <= phys[n] /\ phys[n] <= slot[n].xmin
        BY <1>1, <1>2, <1>5 DEF Ready
      <3> QED
        BY <1>1, <2>2, <3>1, <3>2, <3>3, <3>4
    <2>3. CASE Queued(n) = Null /\ phys[n] <= Null
      BY <1>2, <1>5, <2>3 DEF check_logical_slots_readiness
    <2>4. CASE Queued(n) = Null /\ phys[n] > Null
      <3>1. slot[leader] /= NoSlot
        BY <1>2, <1>5, <2>4 DEF Raises
      <3>2. Remembered(n) = slot[leader].xmin /\ removed <= slot[leader].xmin /\ slot[leader].xmin \in Positions
        BY <1>1, <2>0, <2>4, <3>1 DEF Remembered, Usable
      <3>3. q = IF Ready(slot[leader].xmin, phys[n], Loaded(n)) THEN Absent ELSE slot[leader].xmin
        BY <1>1, <1>2, <1>5, <2>4, <3>2 DEF check_logical_slots_readiness
      <3>4. Ready(slot[leader].xmin, phys[n], Loaded(n)) => slot[leader].xmin <= phys[n] /\ phys[n] <= slot[n].xmin
        BY <1>1, <1>2, <1>5 DEF Ready
      <3> QED
        BY <1>1, <2>4, <3>2, <3>3, <3>4
    <2> QED
      BY <1>1, <1>2, <2>1, <2>2, <2>3, <2>4
  <1> QED
    BY <1>4, <1>5

LEMMA ReplicaCycleKeeps ==
  ASSUME SlotsIInv, NEW n \in Member, ReplicaCycle(n)
  PROVE  SlotsIInv'
  <1> DEFINE q == queue'[n]
             l == slots'[n]
  <1>1. /\ Standby(n) /\ UNCHANGED <<leader, now, consumed, removed, phys, unready, slot, status, connected, failures>>
        /\ seen' = [seen EXCEPT ![n] = Unread]
        /\ force' = IF load[n] THEN [force EXCEPT ![n] = FALSE] ELSE force
        /\ unprotected' = IF Queued(n) = Null THEN [unprotected EXCEPT ![n] = FALSE] ELSE unprotected
    BY DEF ReplicaCycle, load_replication_slots, cluster, Put
  <1>2. /\ Queued(n) \in Positions \cup {Absent} /\ Loaded(n) \in Slots \cup {Bare} /\ Loaded(n).confirmed \in Int
        /\ Loaded(n).confirmed <= consumed
        /\ slot[n] /= NoSlot => Loaded(n) /= NoSlot /\ Loaded(n).xmin <= slot[n].xmin
    BY LoadedIs
  <1>3. /\ slot \in [Member -> Slots] /\ Proper(slot[n]) /\ consumed \in 1 .. MaxNow
        /\ queue \in [Member -> Positions \cup {Absent}] /\ slots \in [Member -> Slots \cup {Bare}]
        /\ load \in [Member -> BOOLEAN] /\ unprotected \in [Member -> BOOLEAN]
        /\ advance \in [Member -> [scheduled : Positions, hand : Positions, failed : BOOLEAN, copy : BOOLEAN]]
        /\ seen[n] \in Positions \cup {Unread} /\ seen[n] <= consumed
    BY DEF SlotsIInv, Postgres, OnItsWay, Remembers
  <1>4. /\ queue' = [queue EXCEPT ![n] = q]
        /\ q = IF Raises(n) THEN Queued(n) ELSE check_logical_slots_readiness(n)
        /\ slots' = [slots EXCEPT ![n] = l]
        /\ l = Loaded(n) \/ (l = Bare /\ Loaded(n) = NoSlot)
        /\ \E again \in BOOLEAN : load' = [load EXCEPT ![n] = again]
    BY <1>3 DEF ReplicaCycle, load_replication_slots, Put
  <1>5. \/ UNCHANGED <<advance, copy>>
        \/ /\ \E lsn \in {0, seen[n]} : schedule_slots(n, lsn)
           /\ copy' = copy \/ copy' = [copy EXCEPT ![n] = [NoCopy EXCEPT !.state = "asked"]]
    BY DEF ReplicaCycle, Put
  <1> HIDE DEF q, l
  <1>6. Postgres'
    BY <1>1 DEF SlotsIInv, Postgres, Proper
  <1>7. OnItsWay'
    <2>1. status' \in 0 .. consumed' /\ seen' \in [Member -> Positions \cup {Unread}] /\ \A m \in Member : seen'[m] <= consumed'
      BY <1>1, <1>3 DEF SlotsIInv, OnItsWay
    <2>2. slots' \in [Member -> Slots \cup {Bare}] /\ \A m \in Member : slots'[m].confirmed <= consumed'
      <3>1. l \in Slots \cup {Bare} /\ l.confirmed \in Int /\ l.confirmed <= consumed
        BY <1>2, <1>3, <1>4
      <3> QED
        BY <1>1, <1>3, <1>4, <3>1 DEF SlotsIInv, OnItsWay
    <2>3. /\ advance' \in [Member -> [scheduled : Positions, hand : Positions, failed : BOOLEAN, copy : BOOLEAN]]
          /\ \A m \in Member : advance'[m].scheduled <= consumed' /\ advance'[m].hand <= consumed'
      <3>1. CASE UNCHANGED advance
        BY <1>1, <3>1 DEF SlotsIInv, OnItsWay
      <3>2. CASE \E lsn \in {0, seen[n]} : schedule_slots(n, lsn)
        <4>1. PICK lsn \in {0, seen[n]} : schedule_slots(n, lsn)
          BY <3>2
        <4>2. lsn \in Int /\ lsn <= consumed /\ (lsn > 0 => lsn \in Positions)
          BY <1>3
        <4> DEFINE to == IF lsn > 0 THEN lsn ELSE advance[n].scheduled
        <4>3. advance' = [advance EXCEPT ![n].scheduled = to, ![n].failed = FALSE, ![n].copy = FALSE]
          BY <4>1 DEF schedule_slots
        <4>4. to \in Positions /\ to <= consumed /\ advance[n].hand <= consumed
          BY <1>3, <4>2 DEF SlotsIInv, OnItsWay
        <4> HIDE DEF to
        <4>5. /\ advance' \in [Member -> [scheduled : Positions, hand : Positions, failed : BOOLEAN, copy : BOOLEAN]]
              /\ advance'[n].scheduled = to /\ advance'[n].hand = advance[n].hand
              /\ \A m \in Member \ {n} : advance'[m] = advance[m]
          BY <1>3, <4>3, <4>4
        <4> QED
          BY <1>1, <4>4, <4>5 DEF SlotsIInv, OnItsWay
      <3> QED
        BY <1>5, <3>1, <3>2
    <2>4. /\ copy' \in [Member -> [state : {"idle", "asked", "read"}, slot : Slots]]
          /\ \A m \in Member : Proper(copy'[m].slot) /\ (copy'[m].state = "read" => copy'[m].slot /= NoSlot)
      <3>1. /\ copy \in [Member -> [state : {"idle", "asked", "read"}, slot : Slots]]
            /\ \A m \in Member : Proper(copy[m].slot) /\ (copy[m].state = "read" => copy[m].slot /= NoSlot)
        BY DEF SlotsIInv, OnItsWay
      <3>2. copy' = copy \/ copy' = [copy EXCEPT ![n] = [state |-> "asked", slot |-> NoSlot]]
        BY <1>5 DEF NoCopy
      <3>3. Proper(NoSlot)
        BY <1>3 DEF Proper
      <3> QED
        BY <3>1, <3>2, <3>3
    <2> QED
      BY <1>1, <2>1, <2>2, <2>3, <2>4 DEF OnItsWay, Proper
  <1>8. q \in Positions \cup {Absent}
    BY <1>1, <1>2, <1>4, ReadinessIs
  <1>9. Remembers'
    <2>1. queue' \in [Member -> Positions \cup {Absent}] /\ load' \in [Member -> BOOLEAN] /\ force' \in [Member -> BOOLEAN]
      BY <1>1, <1>4, <1>8 DEF SlotsIInv, Remembers
    <2>2. \A m \in Member : force'[m] => load'[m]
      BY <1>1, <1>4 DEF SlotsIInv, Remembers
    <2>3. ASSUME NEW m \in Member, ~load'[m], slot'[m] /= NoSlot
          PROVE  slots'[m] /= NoSlot /\ slots'[m].xmin <= slot'[m].xmin
      <3>1. CASE m = n
        BY <1>1, <1>2, <1>3, <1>4, <2>3, <3>1
      <3>2. CASE m /= n
        BY <1>1, <1>3, <1>4, <2>3, <3>2 DEF SlotsIInv, Remembers
      <3> QED
        BY <3>1, <3>2
    <2> QED
      BY <2>1, <2>2, <2>3 DEF Remembers
  <1>10. Usable => Usable'
    BY <1>1, UsableKept
  <1>11. ASSUME ~unready, NEW m \in Member, Checked(m) PROVE Checked(m)'
    <2>1. CASE m = n
      <3>1. Raises(n) => q = Null
        BY <1>4 DEF Raises
      <3>2. ~Raises(n) /\ slot[n] /= NoSlot /\ ~unprotected'[n] =>
               /\ q > Null => phys[n] > Null /\ (removed <= q \/ removed <= phys[n])
               /\ q = Absent => phys[n] > Null /\ phys[n] <= slot[n].xmin /\ removed <= phys[n]
        BY <1>1, <1>3, <1>4, <1>11, ReadinessIs
      <3>3. queue'[n] = q
        BY <1>3, <1>4
      <3> QED
        BY <1>1, <2>1, <3>1, <3>2, <3>3 DEF Checked
    <2>2. CASE m /= n
      BY <1>1, <1>3, <1>4, <1>11, <2>2, CheckedKept DEF SlotsIInv, Remembers
    <2> QED
      BY <2>1, <2>2
  <1> QED
    BY <1>1, <1>6, <1>7, <1>9, <1>10, <1>11 DEF SlotsIInv

LEMMA CopyReadKeeps ==
  ASSUME SlotsIInv, NEW n \in Member, CopyRead(n)
  PROVE  SlotsIInv'
  <1>1. failures' \in 0 .. MaxFailures
    BY MayIs DEF SlotsIInv, CopyRead
  <1>2. /\ UNCHANGED <<cluster, slot, connected, unprotected>> /\ UNCHANGED slots_handler
        /\ UNCHANGED <<status, seen, advance>>
    BY DEF CopyRead
  <1>3. Postgres'
    BY <1>1, <1>2, PostgresKept DEF SlotsIInv
  <1>4. OnItsWay'
    <2>1. \E s \in Slots : /\ Proper(s) /\ \/ copy' = [copy EXCEPT ![n] = [state |-> "read", slot |-> s]] /\ s /= NoSlot
                                           \/ copy' = [copy EXCEPT ![n] = NoCopy]
      BY DEF SlotsIInv, Postgres, CopyRead, Put
    <2>2. PICK s \in Slots : /\ Proper(s) /\ \/ copy' = [copy EXCEPT ![n] = [state |-> "read", slot |-> s]] /\ s /= NoSlot
                                             \/ copy' = [copy EXCEPT ![n] = NoCopy]
      BY <2>1
    <2>3. Proper(NoSlot)
      BY DEF SlotsIInv, Postgres, Proper
    <2>4. /\ copy' \in [Member -> [state : {"idle", "asked", "read"}, slot : Slots]]
          /\ \A m \in Member : Proper(copy'[m].slot) /\ (copy'[m].state = "read" => copy'[m].slot /= NoSlot)
      <3>1. /\ copy \in [Member -> [state : {"idle", "asked", "read"}, slot : Slots]]
            /\ \A m \in Member : Proper(copy[m].slot) /\ (copy[m].state = "read" => copy[m].slot /= NoSlot)
        BY DEF SlotsIInv, OnItsWay
      <3>2. PICK c \in [state : {"idle", "asked", "read"}, slot : Slots] :
                copy' = [copy EXCEPT ![n] = c] /\ Proper(c.slot) /\ (c.state = "read" => c.slot /= NoSlot)
        <4>1. CASE copy' = [copy EXCEPT ![n] = [state |-> "read", slot |-> s]] /\ s /= NoSlot
          <5> DEFINE c == [state |-> "read", slot |-> s]
          <5>1. c \in [state : {"idle", "asked", "read"}, slot : Slots] /\ c.slot = s
            OBVIOUS
          <5>2. copy' = [copy EXCEPT ![n] = c]
            BY <4>1
          <5> HIDE DEF c
          <5>3. Proper(c.slot) /\ c.slot /= NoSlot
            BY <2>2, <4>1, <5>1
          <5> QED
            BY <5>1, <5>2, <5>3
        <4>2. CASE copy' = [copy EXCEPT ![n] = NoCopy]
          <5>1. NoCopy \in [state : {"idle", "asked", "read"}, slot : Slots] /\ NoCopy.slot = NoSlot /\ NoCopy.state = "idle"
            BY DEF NoCopy
          <5> QED
            BY <2>3, <4>2, <5>1
        <4> QED
          BY <2>2, <4>1, <4>2
      <3> QED
        BY <3>1, <3>2
    <2> QED
      BY <1>2, <2>4 DEF SlotsIInv, OnItsWay, Proper, slots_handler, cluster
  <1>5. Remembers'
    BY <1>2, RemembersKept DEF SlotsIInv
  <1>6. Usable => Usable'
    BY <1>2, UsableKept DEF cluster
  <1>7. ASSUME NEW m \in Member, Checked(m) PROVE Checked(m)'
    BY <1>2, <1>7, CheckedKept DEF cluster, slots_handler
  <1> QED
    BY <1>2, <1>3, <1>4, <1>5, <1>6, <1>7 DEF SlotsIInv, cluster

LEMMA CopyWriteKeeps ==
  ASSUME SlotsIInv, NEW n \in Member, CopyWrite(n)
  PROVE  SlotsIInv'
  <1>1. /\ Standby(n) /\ UNCHANGED <<cluster, status, seen, slots, advance, connected, failures>>
        /\ slot' = [slot EXCEPT ![n] = copy[n].slot] /\ queue' = [queue EXCEPT ![n] = Null]
        /\ load' = [load EXCEPT ![n] = TRUE] /\ force' = [force EXCEPT ![n] = TRUE]
        /\ copy' = [copy EXCEPT ![n] = NoCopy] /\ unprotected' = [unprotected EXCEPT ![n] = FALSE]
    BY DEF CopyWrite, Put
  <1>2. copy[n].slot \in Slots /\ Proper(copy[n].slot)
    BY DEF SlotsIInv, OnItsWay
  <1>3. Postgres'
    BY <1>1, <1>2 DEF SlotsIInv, Postgres, Proper, cluster
  <1>4. OnItsWay'
    BY <1>1 DEF SlotsIInv, Postgres, OnItsWay, Proper, NoCopy, cluster
  <1>5. Remembers'
    BY <1>1 DEF SlotsIInv, Remembers
  <1>6. Usable => Usable'
    BY <1>1 DEF Usable, cluster, SlotsIInv, Postgres
  <1>7. ASSUME NEW m \in Member, Checked(m) PROVE Checked(m)'
    BY <1>1, <1>7 DEF SlotsIInv, Postgres, Remembers, Checked, cluster
  <1> QED
    BY <1>1, <1>3, <1>4, <1>5, <1>6, <1>7 DEF SlotsIInv, cluster

LEMMA sync_slotsKeeps ==
  ASSUME SlotsIInv, NEW n \in Member, sync_slots(n)
  PROVE  SlotsIInv'
  <1>1. UNCHANGED <<cluster, slot, status, seen, slots_handler, copy, links>>
    BY DEF sync_slots, links
  <1>2. /\ advance' \in [Member -> [scheduled : Positions, hand : Positions, failed : BOOLEAN, copy : BOOLEAN]]
        /\ advance'[n].hand = advance[n].scheduled /\ advance'[n].scheduled = advance[n].scheduled
        /\ \A m \in Member \ {n} : advance'[m] = advance[m]
    BY DEF sync_slots, SlotsIInv, OnItsWay
  <1>3. Postgres' /\ Remembers'
    BY <1>1, PostgresKept, RemembersKept DEF SlotsIInv, Postgres, links
  <1>4. OnItsWay'
    BY <1>1, <1>2 DEF SlotsIInv, OnItsWay, Proper, slots_handler, cluster
  <1>5. Usable => Usable'
    BY <1>1, UsableKept DEF cluster
  <1>6. ASSUME NEW m \in Member, Checked(m) PROVE Checked(m)'
    BY <1>1, <1>6, CheckedKept DEF cluster, slots_handler, links
  <1> QED
    BY <1>1, <1>3, <1>4, <1>5, <1>6 DEF SlotsIInv, cluster

LEMMA sync_slotKeeps ==
  ASSUME SlotsIInv, NEW n \in Member, sync_slot(n)
  PROVE  SlotsIInv'
  <1>1. /\ UNCHANGED <<cluster, status, seen, slots_handler, copy, connected, unprotected>>
        /\ failures' \in 0 .. MaxFailures
    BY MayIs DEF SlotsIInv, sync_slot
  <1>2. /\ slot \in [Member -> Slots] /\ Proper(slot[n]) /\ consumed \in 1 .. MaxNow
        /\ advance \in [Member -> [scheduled : Positions, hand : Positions, failed : BOOLEAN, copy : BOOLEAN]]
        /\ advance[n].hand \in Positions /\ advance[n].hand <= consumed
    BY DEF SlotsIInv, Postgres, OnItsWay
  <1>3. /\ advance' \in [Member -> [scheduled : Positions, hand : Positions, failed : BOOLEAN, copy : BOOLEAN]]
        /\ advance'[n].hand = 0 /\ advance'[n].scheduled \in {0, advance[n].scheduled}
        /\ \A m \in Member \ {n} : advance'[m] = advance[m]
    <2>1. PICK failed \in BOOLEAN, gone \in BOOLEAN : Unschedule(n, failed, gone)
      BY DEF sync_slot
    <2> QED
      BY <1>2, <2>1 DEF Unschedule, Put
  <1>4. \E s \in Slots : /\ slot' = [slot EXCEPT ![n] = s] /\ Proper(s) /\ slot[n].xmin <= s.xmin
                         /\ s = NoSlot <=> slot[n] = NoSlot
    <2>1. CASE UNCHANGED slot
      BY <1>2, <2>1
    <2>2. CASE slot[n] /= NoSlot /\ LET c == Max({slot[n].confirmed, advance[n].hand})
                                    IN \E x \in slot[n].xmin .. c : slot' = Put(slot, n, [confirmed |-> c, xmin |-> x])
      <3> DEFINE c == Max({slot[n].confirmed, advance[n].hand})
      <3>1. slot[n].confirmed \in Int /\ advance[n].hand \in Int
        BY <1>2
      <3>2. c \in {slot[n].confirmed, advance[n].hand}
        BY <3>1, MaxOfTwo
      <3>3. PICK x \in slot[n].xmin .. c : slot' = Put(slot, n, [confirmed |-> c, xmin |-> x])
        BY <2>2
      <3> HIDE DEF c
      <3>4. c \in Positions /\ c <= consumed /\ slot[n].xmin \in Positions /\ 0 < slot[n].xmin /\ x \in Positions
        BY <1>2, <2>2, <3>2, <3>3 DEF Proper
      <3> DEFINE s == [confirmed |-> c, xmin |-> x]
      <3>5. s \in Slots /\ Proper(s) /\ slot[n].xmin <= s.xmin /\ s /= NoSlot
        BY <3>3, <3>4 DEF Proper
      <3> QED
        BY <2>2, <3>3, <3>5 DEF Put
    <2> QED
      BY <2>1, <2>2 DEF sync_slot
  <1>5. PICK s \in Slots : /\ slot' = [slot EXCEPT ![n] = s] /\ Proper(s) /\ slot[n].xmin <= s.xmin
                           /\ s = NoSlot <=> slot[n] = NoSlot
    BY <1>4
  <1>6. Postgres'
    BY <1>1, <1>2, <1>5 DEF SlotsIInv, Postgres, Proper, cluster
  <1>7. OnItsWay'
    BY <1>1, <1>2, <1>3 DEF SlotsIInv, OnItsWay, Proper, slots_handler, cluster
  <1>8. Remembers'
    <2>1. ASSUME NEW m \in Member, ~load[m], slot'[m] /= NoSlot
          PROVE  slots[m] /= NoSlot /\ slots[m].xmin <= slot'[m].xmin
      <3>1. slots[m].xmin \in Int /\ slot[m].xmin \in Int /\ s.xmin \in Int
        BY <1>2 DEF SlotsIInv, OnItsWay
      <3> QED
        BY <1>2, <1>5, <2>1, <3>1 DEF SlotsIInv, Remembers
    <2> QED
      BY <1>1, <2>1 DEF SlotsIInv, Remembers, slots_handler
  <1>9. ASSUME Usable PROVE Usable'
    <2>1. slot[leader].xmin \in Int /\ s.xmin \in Int /\ removed \in Int /\ slot[n].xmin \in Int
      BY DEF SlotsIInv, Postgres
    <2> QED
      BY <1>1, <1>2, <1>5, <1>9, <2>1 DEF SlotsIInv, Postgres, Usable, cluster
  <1>10. ASSUME NEW m \in Member, Checked(m) PROVE Checked(m)'
    <2>1. CASE m = n
      <3>1. slot[n].xmin \in Int /\ s.xmin \in Int /\ phys[n] \in Int
        BY DEF SlotsIInv, Postgres
      <3> QED
        BY <1>1, <1>2, <1>5, <1>10, <2>1, <3>1 DEF Checked, cluster, slots_handler
    <2>2. CASE m /= n
      BY <1>1, <1>2, <1>5, <1>10, <2>2, CheckedKept DEF cluster, slots_handler
    <2> QED
      BY <2>1, <2>2
  <1> QED
    BY <1>1, <1>6, <1>7, <1>8, <1>9, <1>10 DEF SlotsIInv, cluster

LEMMA FailoverKeeps ==
  ASSUME SlotsIInv, NEW n \in Member, Failover(n)
  PROVE  SlotsIInv'
  <1>1. /\ n /= leader /\ leader' = n /\ UNCHANGED <<now, consumed, removed, status, slots, queue, copy, connected>>
        /\ phys' = [m \in Member |-> Absent]
        /\ advance' = [m \in Member |-> IF m = n THEN on_promote(n) ELSE advance[m]]
        /\ seen' = [m \in Member |-> Unread]
        /\ load' = [load EXCEPT ![leader] = TRUE] /\ force' = [force EXCEPT ![leader] = TRUE]
        /\ slot' = slot \/ slot' = [slot EXCEPT ![leader] = NoSlot]
        /\ unready' = (unready \/ (slot[n] /= NoSlot /\ (queue[n] /= Absent \/ force[n] \/ unprotected[n])))
        /\ unprotected' = [m \in Member |-> m \notin {n, leader} /\ Outdated(m)]
    BY DEF Failover, Put
  <1>2. failures' \in 0 .. MaxFailures
    BY MayIs DEF SlotsIInv, Failover
  <1>3. /\ leader \in Member /\ slot \in [Member -> Slots] /\ consumed \in 1 .. MaxNow
        /\ load \in [Member -> BOOLEAN] /\ force \in [Member -> BOOLEAN] /\ queue \in [Member -> Positions \cup {Absent}]
        /\ unprotected \in [Member -> BOOLEAN]
    BY DEF SlotsIInv, Postgres, Remembers
  <1>4. \A m \in Member : Outdated(m) \in BOOLEAN
    BY DEF Outdated
  <1>5. Proper(NoSlot)
    BY <1>3 DEF Proper
  <1>6. Postgres'
    <2>1. slot' \in [Member -> Slots] /\ \A m \in Member : Proper(slot'[m])
      <3>1. \A m \in Member : Proper(slot[m])
        BY DEF SlotsIInv, Postgres
      <3>2. \A m \in Member : slot'[m] \in {slot[m], NoSlot}
        BY <1>1, <1>3
      <3>3. slot' \in [Member -> Slots]
        BY <1>1, <1>3
      <3> QED
        BY <1>5, <3>1, <3>2, <3>3
    <2>2. unprotected' \in [Member -> BOOLEAN] /\ unready' \in BOOLEAN
      BY <1>1, <1>3, <1>4 DEF SlotsIInv, Postgres, Remembers
    <2>3. phys' \in [Member -> Positions \cup {Absent}]
      BY <1>1
    <2>4. \A m \in Member : Proper(slot[m])'
      BY <1>1, <2>1 DEF Proper
    <2> QED
      BY <1>1, <1>2, <2>1, <2>2, <2>3, <2>4 DEF SlotsIInv, Postgres
  <1>7. OnItsWay'
    <2>1. /\ on_promote(n) \in [scheduled : Positions, hand : Positions, failed : BOOLEAN, copy : BOOLEAN]
          /\ on_promote(n).scheduled = 0 /\ on_promote(n).hand = advance[n].hand
      <3>1. advance[n].hand \in Positions
        BY DEF SlotsIInv, OnItsWay
      <3>2. NoThread \in [scheduled : Positions, hand : Positions, failed : BOOLEAN, copy : BOOLEAN] /\ NoThread.scheduled = 0
        BY DEF NoThread
      <3> QED
        BY <3>1, <3>2 DEF on_promote
    <2>2. /\ advance \in [Member -> [scheduled : Positions, hand : Positions, failed : BOOLEAN, copy : BOOLEAN]]
          /\ \A m \in Member : advance[m].scheduled <= consumed /\ advance[m].hand <= consumed
      BY DEF SlotsIInv, OnItsWay
    <2>3. /\ advance' \in [Member -> [scheduled : Positions, hand : Positions, failed : BOOLEAN, copy : BOOLEAN]]
          /\ \A m \in Member : advance'[m].scheduled <= consumed /\ advance'[m].hand <= consumed
      BY <1>1, <1>3, <2>1, <2>2
    <2> QED
      BY <1>1, <1>3, <2>3 DEF SlotsIInv, OnItsWay, Proper
  <1>8. Remembers'
    BY <1>1, <1>3 DEF SlotsIInv, Remembers
  <1>9. ASSUME ~unready' PROVE Usable'
    <2>1. Checked(n) /\ (slot[n] /= NoSlot => queue[n] = Absent /\ ~force[n] /\ ~unprotected[n])
      BY <1>1, <1>9 DEF SlotsIInv
    <2>2. slot[n] /= NoSlot => phys[n] <= slot[n].xmin /\ removed <= phys[n]
      BY <1>1, <2>1 DEF Checked
    <2>3. removed \in Int /\ phys[n] \in Int /\ slot[n].xmin \in Int
      BY DEF SlotsIInv, Postgres
    <2> QED
      BY <1>1, <1>3, <2>2, <2>3 DEF Usable
  <1>10. ASSUME NEW m \in Member PROVE Checked(m)'
    <2>1. CASE m = n
      BY <1>1, <2>1 DEF Checked
    <2>2. CASE m = leader
      BY <1>1, <1>3, <2>2 DEF Checked
    <2>3. CASE m \notin {n, leader}
      <3>1. unprotected'[m] <=> Outdated(m)
        BY <1>1, <2>3
      <3>2. Outdated(m) \/ slot[m] = NoSlot \/ queue[m] = Null \/ force[m]
        BY DEF Outdated
      <3>3. slot'[m] = slot[m] /\ queue'[m] = queue[m] /\ force'[m] = force[m]
        BY <1>1, <1>3, <2>3
      <3> QED
        BY <3>1, <3>2, <3>3 DEF Checked
    <2> QED
      BY <2>1, <2>2, <2>3
  <1> QED
    BY <1>6, <1>7, <1>8, <1>9, <1>10 DEF SlotsIInv

LEMMA LinkKeeps ==
  ASSUME SlotsIInv, NEW n \in Member, Partition(n) \/ Heal(n)
  PROVE  SlotsIInv'
  <1>1. /\ UNCHANGED <<cluster, slot, patroni, unprotected>> /\ failures' \in 0 .. MaxFailures
        /\ connected' \in [Member -> BOOLEAN]
    <2>1. CASE Partition(n)
      BY <2>1, MayIs DEF SlotsIInv, Postgres, Partition, Put, patroni
    <2>2. CASE Heal(n)
      BY <2>2 DEF SlotsIInv, Postgres, Heal, Put, patroni
    <2> QED
      BY <2>1, <2>2
  <1>2. Postgres'
    BY <1>1 DEF SlotsIInv, Postgres, Proper, cluster
  <1>3. OnItsWay' /\ Remembers'
    BY <1>1, OnItsWayKept, RemembersKept DEF SlotsIInv, patroni, cluster
  <1>4. (Usable => Usable') /\ \A m \in Member : Checked(m) => Checked(m)'
    BY <1>1, UsableKept, CheckedKept DEF cluster, patroni, slots_handler
  <1> QED
    BY <1>1, <1>2, <1>3, <1>4 DEF SlotsIInv, cluster

LEMMA DropPhysicalSlotKeeps ==
  ASSUME SlotsIInv, NEW n \in Member, DropPhysicalSlot(n)
  PROVE  SlotsIInv'
  <1>1. /\ Standby(n) /\ UNCHANGED <<leader, now, consumed, removed, unready, slot, patroni, connected, failures>>
        /\ phys' = [phys EXCEPT ![n] = Absent] /\ unprotected' = [unprotected EXCEPT ![n] = Outdated(n)]
    BY DEF DropPhysicalSlot, Put
  <1>2. Outdated(n) \in BOOLEAN
    BY DEF Outdated
  <1>3. Postgres'
    BY <1>1, <1>2 DEF SlotsIInv, Postgres, Proper
  <1>4. OnItsWay' /\ Remembers'
    BY <1>1, OnItsWayKept, RemembersKept DEF SlotsIInv, patroni
  <1>5. ASSUME NEW m \in Member, Checked(m) PROVE Checked(m)'
    <2>1. CASE m = n
      <3>1. unprotected'[n] <=> Outdated(n)
        BY <1>1, <1>2 DEF SlotsIInv, Postgres
      <3>2. Outdated(n) \/ slot[n] = NoSlot \/ queue[n] = Null \/ force[n]
        BY DEF Outdated
      <3> QED
        BY <1>1, <2>1, <3>1, <3>2 DEF Checked, patroni, slots_handler
    <2>2. CASE m /= n
      BY <1>1, <1>5, <2>2, CheckedKept DEF SlotsIInv, Postgres, patroni, slots_handler
    <2> QED
      BY <2>1, <2>2
  <1> QED
    BY <1>1, <1>3, <1>4, <1>5, UsableKept DEF SlotsIInv

LEMMA NodeRestartsKeeps ==
  ASSUME SlotsIInv, NEW n \in Member, NodeRestarts(n)
  PROVE  SlotsIInv'
  <1>1. /\ UNCHANGED <<cluster, slot, status, copy, connected, unprotected>> /\ failures' \in 0 .. MaxFailures
        /\ load' = [load EXCEPT ![n] = TRUE] /\ force' = [force EXCEPT ![n] = TRUE] /\ seen' = [seen EXCEPT ![n] = Unread]
        /\ \/ UNCHANGED <<slots, queue, advance>>
           \/ /\ slots' = [slots EXCEPT ![n] = NoSlot] /\ queue' = [queue EXCEPT ![n] = Absent]
              /\ advance' = [advance EXCEPT ![n] = NoThread]
    BY MayIs DEF SlotsIInv, NodeRestarts, Put
  <1>2. consumed \in 1 .. MaxNow
    BY DEF SlotsIInv, Postgres
  <1>3. Postgres'
    BY <1>1, PostgresKept DEF SlotsIInv
  <1>4. OnItsWay'
    <2>1. NoThread \in [scheduled : Positions, hand : Positions, failed : BOOLEAN, copy : BOOLEAN]
          /\ NoThread.scheduled = 0 /\ NoThread.hand = 0
      BY DEF NoThread
    <2>2. /\ advance' \in [Member -> [scheduled : Positions, hand : Positions, failed : BOOLEAN, copy : BOOLEAN]]
          /\ \A m \in Member : advance'[m].scheduled <= consumed /\ advance'[m].hand <= consumed
      <3>1. /\ advance \in [Member -> [scheduled : Positions, hand : Positions, failed : BOOLEAN, copy : BOOLEAN]]
            /\ \A m \in Member : advance[m].scheduled <= consumed /\ advance[m].hand <= consumed
        BY DEF SlotsIInv, OnItsWay
      <3>2. advance' = advance \/ advance' = [advance EXCEPT ![n] = NoThread]
        BY <1>1
      <3> QED
        BY <1>2, <2>1, <3>1, <3>2
    <2>3. slots' \in [Member -> Slots \cup {Bare}] /\ \A m \in Member : slots'[m].confirmed <= consumed
      <3>1. slots \in [Member -> Slots \cup {Bare}] /\ \A m \in Member : slots[m].confirmed <= consumed
        BY DEF SlotsIInv, OnItsWay
      <3>2. slots' = slots \/ slots' = [slots EXCEPT ![n] = NoSlot]
        BY <1>1
      <3> QED
        BY <1>2, <3>1, <3>2
    <2>4. seen' \in [Member -> Positions \cup {Unread}] /\ \A m \in Member : seen'[m] <= consumed
      BY <1>1, <1>2 DEF SlotsIInv, OnItsWay
    <2> QED
      BY <1>1, <2>2, <2>3, <2>4 DEF SlotsIInv, OnItsWay, Proper, cluster
  <1>5. Remembers'
    <2>1. queue' \in [Member -> Positions \cup {Absent}] /\ load' \in [Member -> BOOLEAN] /\ force' \in [Member -> BOOLEAN]
      BY <1>1 DEF SlotsIInv, Remembers
    <2>2. \A m \in Member : force'[m] => load'[m]
      BY <1>1 DEF SlotsIInv, Remembers
    <2>3. \A m \in Member : ~load'[m] => ~load[m] /\ slots'[m] = slots[m] /\ slot'[m] = slot[m]
      BY <1>1 DEF SlotsIInv, Remembers, OnItsWay
    <2> QED
      BY <2>1, <2>2, <2>3 DEF SlotsIInv, Remembers
  <1>6. ASSUME NEW m \in Member, Checked(m) PROVE Checked(m)'
    <2>1. CASE m = n
      BY <1>1, <2>1 DEF SlotsIInv, Remembers, Checked
    <2>2. CASE m /= n
      BY <1>1, <1>6, <2>2, CheckedKept DEF SlotsIInv, Remembers, cluster
    <2> QED
      BY <2>1, <2>2
  <1> QED
    BY <1>1, <1>3, <1>4, <1>5, <1>6, UsableKept DEF SlotsIInv, cluster

LEMMA DropSlotKeeps ==
  ASSUME SlotsIInv, NEW n \in Member, DropSlot(n)
  PROVE  SlotsIInv'
  <1>1. /\ Standby(n) /\ slot' = [slot EXCEPT ![n] = NoSlot] /\ failures' \in 0 .. MaxFailures
        /\ UNCHANGED <<cluster, patroni, connected, unprotected>>
    BY MayIs DEF SlotsIInv, DropSlot, Put, patroni
  <1>2. Proper(NoSlot)
    BY DEF SlotsIInv, Postgres, Proper
  <1>3. Postgres'
    BY <1>1, <1>2 DEF SlotsIInv, Postgres, Proper, cluster
  <1>4. OnItsWay'
    BY <1>1, OnItsWayKept DEF SlotsIInv, cluster
  <1>5. Remembers'
    BY <1>1 DEF SlotsIInv, Postgres, Remembers, patroni, slots_handler
  <1>6. Usable => Usable'
    BY <1>1 DEF SlotsIInv, Postgres, Usable, cluster
  <1>7. ASSUME NEW m \in Member, Checked(m) PROVE Checked(m)'
    BY <1>1, <1>7 DEF SlotsIInv, Postgres, Checked, cluster, patroni, slots_handler
  <1> QED
    BY <1>1, <1>3, <1>4, <1>5, <1>6, <1>7 DEF SlotsIInv, cluster

LEMMA InitSlotsIInv == SlotsInit => SlotsIInv
  <1> SUFFICES ASSUME SlotsInit PROVE SlotsIInv
    OBVIOUS
  <1>1. Postgres
    <2>1. 1 \in 1 .. MaxNow /\ 0 \in 0 .. MaxNow /\ 0 \in 0 .. MaxFailures
      OBVIOUS
    <2>2. slot \in [Member -> Slots] /\ phys \in [Member -> Positions \cup {Absent}]
      BY <2>1 DEF SlotsInit
    <2>3. \A n \in Member : Proper(slot[n])
      BY <2>1 DEF SlotsInit, Proper
    <2>4. connected \in [Member -> BOOLEAN] /\ unprotected \in [Member -> BOOLEAN] /\ unready \in BOOLEAN
      BY DEF SlotsInit
    <2>5. /\ leader \in Member /\ now \in 1 .. MaxNow /\ consumed \in 1 .. now /\ removed \in 1 .. now
          /\ failures \in 0 .. MaxFailures
      BY <2>1 DEF SlotsInit
    <2> QED
      BY <2>2, <2>3, <2>4, <2>5 DEF Postgres
  <1>2. OnItsWay
    BY DEF SlotsInit, OnItsWay, Proper, NoThread, NoCopy
  <1>3. Remembers
    BY DEF SlotsInit, Remembers
  <1>4. Usable /\ \A m \in Member : Checked(m)
    BY DEF SlotsInit, Usable, Checked
  <1> QED
    BY <1>1, <1>2, <1>3, <1>4 DEF SlotsIInv

LEMMA NextSlotsIInv == SlotsIInv /\ [SlotsNext]_slotsVars => SlotsIInv'
  <1> SUFFICES ASSUME SlotsIInv, [SlotsNext]_slotsVars PROVE SlotsIInv'
    OBVIOUS
  <1>1. CASE WriteWal \/ Consume \/ Vacuum
    BY <1>1, WriteKeeps, ConsumeKeeps, VacuumKeeps
  <1>2. ASSUME NEW n \in Member, NodeStep(n) PROVE SlotsIInv'
    BY <1>2, FeedbackKeeps, LoadKeeps, PrimaryCycleKeeps, ReplicaCycleKeeps, CopyReadKeeps, CopyWriteKeeps,
       sync_slotsKeeps, sync_slotKeeps, FailoverKeeps, LinkKeeps, DropPhysicalSlotKeeps, NodeRestartsKeeps,
       DropSlotKeeps DEF NodeStep
  <1>3. CASE UNCHANGED slotsVars
    <2>1. Postgres' /\ OnItsWay' /\ Remembers'
      BY <1>3, PostgresKept, OnItsWayKept, RemembersKept DEF slotsVars, links, cluster, patroni, SlotsIInv, Postgres
    <2>2. (Usable => Usable') /\ \A m \in Member : Checked(m) => Checked(m)'
      BY <1>3, UsableKept, CheckedKept DEF slotsVars, links, cluster, patroni, slots_handler
    <2> QED
      BY <1>3, <2>1, <2>2 DEF SlotsIInv, slotsVars, cluster
  <1> QED
    BY <1>1, <1>2, <1>3 DEF SlotsNext

LEMMA SlotsIInvSafe == SlotsIInv => SlotsSafe
  <1> SUFFICES ASSUME SlotsIInv PROVE SlotsSafe
    OBVIOUS
  <1>1. SlotsTypeOK
    BY DEF SlotsIInv, Postgres, OnItsWay, Remembers, SlotsTypeOK, Proper
  <1>2. ReadyIsSafe
    <2>1. \A n \in Member : removed \in Int /\ phys[n] \in Int /\ slot[n].xmin \in Int
      BY DEF SlotsIInv, Postgres
    <2> QED
      BY <2>1 DEF SlotsIInv, Checked, ReadyIsSafe
  <1>3. NothingSkipped
    BY DEF SlotsIInv, Postgres, Proper, NothingSkipped
  <1> QED
    BY <1>1, <1>2, <1>3 DEF SlotsSafe

\* For any nodes, positions and number of failures: a copy of a logical slot that
\* counts as ready needs no row that is gone, unless its reservation was lost after
\* the check had begun or a copy that was not ready was promoted, and no slot has
\* moved past what its consumer has confirmed (SlotsHandler, SlotsAdvanceThread).
THEOREM SlotsAreSafe == SlotsSpec => []SlotsSafe
  BY InitSlotsIInv, NextSlotsIInv, SlotsIInvSafe, PTL DEF SlotsSpec
=============================================================================
