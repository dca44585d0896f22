---------------------------- MODULE PatroniParameters ----------------------------
(***************************************************************************)
(* A parameter that takes a restart and that a standby must not have lower *)
(* than its primary (max_connections): what the configuration asks for,    *)
(* what postgresql.conf says, what Postgres runs with, what pg_control     *)
(* remembers of the primary, and the flag "pending restart".  The main     *)
(* loop reloads (reload_config), another thread restarts (Postgresql.stop  *)
(* and start); there is no lock between them.  One node is modelled; what  *)
(* the primary of a standby runs with may be any value at any time.        *)
(***************************************************************************)
EXTENDS Naturals

CONSTANTS
    Amount,         \* values of the parameter, 0 is none
    Unset

ASSUME ParametersAssumption == Amount \subseteq Nat \ {0}

VARIABLES
    goal,           \* the dynamic configuration
    want,           \* _server_parameters
    conf,           \* postgresql.conf
    run,            \* the value Postgres runs with, 0 if it does not run
    flag,           \* pending_restart_reason is not empty
    pgstate,        \* Postgresql.state
    role,
    control,        \* pg_control
    main_loop,      \* the main loop: in a reload, or waiting for the time of a restart
    thr,            \* the thread that restarts or starts
    sched,          \* scheduled_restart
    crossed         \* history: the last reload and a restart came in each other's way

parametersVars == <<goal, want, conf, run, flag, pgstate, role, control, main_loop, thr, sched, crossed>>

Idle == [pc |-> "idle"]
IsRunning == pgstate = "running"
Busy == thr.pc /= "idle"

ParametersInit ==
    /\ \E x \in Amount : goal = x /\ want = x /\ conf = x /\ run = x /\ control = x
    /\ flag = FALSE /\ pgstate = "running" /\ role \in {"primary", "replica"}
    /\ main_loop = Idle /\ thr = Idle
    /\ sched = Unset /\ crossed = FALSE

-----------------------------------------------------------------------------
(* reload_config, in the main loop: for a new configuration or a SIGHUP.    *)

\* pg_settings is read if the state says that Postgres runs; if that fails the
\* reload is given up and nothing is changed.
ReloadBegins ==
    /\ main_loop = Idle
    /\ \E sighup \in BOOLEAN :
        /\ sighup \/ want /= goal
        /\ ~(IsRunning /\ run = 0)
        /\ main_loop' = [pc |-> "write", new |-> goal, sighup |-> sighup,
             diff |-> IsRunning /\ run /= goal,
             changed |-> IsRunning /\ (run /= goal \/ want /= run),
             clean |-> IsRunning /\ ~Busy]
    /\ thr' = IF Busy THEN [thr EXCEPT !.clean = FALSE] ELSE thr
    /\ UNCHANGED <<goal, want, conf, run, flag, pgstate, role, control, sched, crossed>>

Crossed(written) == IF ~main_loop.clean \/ Busy THEN TRUE ELSE ~written /\ crossed

\* Variant: the file is only written for a value that does not run.
WriteIfDifferent == IF main_loop.diff THEN main_loop.new ELSE conf
write_postgresql_conf == IF main_loop.changed THEN main_loop.new ELSE conf

ReloadWrites ==
    /\ main_loop.pc = "write"
    /\ want' = main_loop.new
    /\ conf' = write_postgresql_conf
    /\ IF main_loop.changed \/ main_loop.sighup
       THEN main_loop' = [main_loop EXCEPT !.pc = "query"] /\ UNCHANGED <<flag, crossed>>
       ELSE /\ flag' = main_loop.diff
            /\ crossed' = Crossed(FALSE)
            /\ main_loop' = Idle
    /\ UNCHANGED <<goal, run, pgstate, role, control, thr, sched>>

\* pg_settings.pending_restart, or what was found above if Postgres does not answer.
ReloadFlags ==
    /\ main_loop.pc = "query"
    /\ flag' = IF run = 0 THEN main_loop.diff ELSE conf /= run
    /\ crossed' = Crossed(main_loop.changed)
    /\ main_loop' = Idle
    /\ UNCHANGED <<goal, want, conf, run, pgstate, role, control, thr, sched>>

-----------------------------------------------------------------------------
(* Restarts.                                                                *)

\* The filters of a request: a role, and the flag if it says restart_pending.
restart_matches(req) ==
    /\ req.role \in {Unset, role}
    /\ req.pending => flag

Begin(pc) == [pc |-> pc, value |-> 0, clean |-> main_loop.pc \in {"idle", "sleep"}]
Disturb(l) == IF l.pc \in {"write", "query"} THEN [l EXCEPT !.clean = FALSE] ELSE l

Requests == [role : {Unset, "replica"}, pending : BOOLEAN]

\* do_POST_restart without a schedule.
restart ==
    /\ ~Busy
    /\ \E req \in Requests : restart_matches(req)
    /\ thr' = Begin("stop")
    /\ main_loop' = Disturb(main_loop)
    /\ pgstate' = "restarting"
    /\ UNCHANGED <<goal, want, conf, run, flag, role, control, sched, crossed>>

\* do_POST_restart with one: 409 if there is one already.  same: the postmaster
\* is the one that ran then, as far as is known.
schedule_future_restart ==
    /\ sched = Unset
    /\ \E req \in Requests :
         sched' = [req |-> req, same |-> TRUE, known |-> run /= 0]
    /\ UNCHANGED <<goal, want, conf, run, flag, pgstate, role, control, main_loop, thr, crossed>>

delete_future_restart ==
    /\ sched /= Unset
    /\ sched' = Unset
    /\ UNCHANGED <<goal, want, conf, run, flag, pgstate, role, control, main_loop, thr, crossed>>

\* The main loop drops a request whose postmaster is gone, and waits for the time
\* of another (should_run_scheduled_action sleeps) with what it has read; a
\* request out of date is dropped by delete_future_restart.
evaluate_scheduled_restart ==
    /\ main_loop = Idle /\ ~Busy /\ sched /= Unset
    /\ IF run /= 0 /\ sched.known /\ ~sched.same
       THEN sched' = Unset /\ UNCHANGED main_loop
       ELSE main_loop' = [pc |-> "sleep", req |-> sched.req] /\ UNCHANGED sched
    /\ UNCHANGED <<goal, want, conf, run, flag, pgstate, role, control, thr, crossed>>

\* Whatever becomes of it the request is deleted.
RunScheduled ==
    /\ main_loop.pc = "sleep"
    /\ main_loop' = Idle
    /\ sched' = Unset
    /\ IF restart_matches(main_loop.req) /\ ~Busy
       THEN /\ thr' = Begin("stop")
            /\ pgstate' = "restarting"
       ELSE UNCHANGED <<thr, pgstate>>
    /\ UNCHANGED <<goal, want, conf, run, flag, role, control, crossed>>

stop ==
    /\ thr.pc = "stop"
    /\ run' = 0
    /\ thr' = [thr EXCEPT !.pc = "start"]
    /\ UNCHANGED <<goal, want, conf, flag, pgstate, role, control, main_loop, sched, crossed>>

\* start: the flag is cleared first, ..
start ==
    /\ thr.pc = "start"
    /\ pgstate' = "starting"
    /\ flag' = FALSE
    /\ thr' = [thr EXCEPT !.pc = "configure"]
    /\ UNCHANGED <<goal, want, conf, run, role, control, main_loop, sched, crossed>>

\* .. then a standby takes the value of pg_control if that is higher, ..
effective_configuration ==
    IF role = "replica" /\ control > want THEN control ELSE want

configure ==
    /\ thr.pc = "configure"
    /\ thr' = [thr EXCEPT !.pc = "launch", !.value = effective_configuration]
    /\ flag' = IF role = "replica" THEN control > want ELSE flag
    /\ UNCHANGED <<goal, want, conf, run, pgstate, role, control, main_loop, sched, crossed>>

\* .. and it is written and given to the postmaster on the command line.
launch ==
    /\ thr.pc = "launch"
    /\ conf' = thr.value
    /\ run' = thr.value
    /\ control' = IF role = "primary" THEN thr.value ELSE control
    /\ sched' = IF sched = Unset THEN Unset ELSE [sched EXCEPT !.same = FALSE]
    /\ thr' = [thr EXCEPT !.pc = "wait"]
    /\ UNCHANGED <<goal, want, flag, pgstate, role, main_loop, crossed>>

\* wait_for_startup, or check_for_startup of the main loop later.
check_startup_state_changed ==
    /\ thr.pc = "wait"
    /\ pgstate' = IF run = 0 THEN "start failed" ELSE "running"
    /\ crossed' = IF run /= 0 /\ thr.clean THEN FALSE ELSE crossed
    /\ thr' = Idle
    /\ UNCHANGED <<goal, want, conf, run, flag, role, control, main_loop, sched>>

\* recover: Postgres is found dead.
recover_dead ==
    /\ main_loop = Idle /\ ~Busy /\ run = 0
    /\ thr' = Begin("start")
    /\ UNCHANGED <<goal, want, conf, run, flag, pgstate, role, control, main_loop, sched, crossed>>

-----------------------------------------------------------------------------
(* The environment.                                                         *)

Configure ==
    /\ goal' \in Amount \ {goal}
    /\ UNCHANGED <<want, conf, run, flag, pgstate, role, control, main_loop, thr, sched, crossed>>

\* A value of the primary arrives; a standby that runs with less shuts down.
Replay ==
    /\ role = "replica" /\ run /= 0
    /\ control' \in Amount \ {control}
    /\ run' = IF run < control' THEN 0 ELSE run
    /\ UNCHANGED <<goal, want, conf, flag, pgstate, role, main_loop, thr, sched, crossed>>

Crash ==
    /\ run /= 0
    /\ run' = 0
    /\ UNCHANGED <<goal, want, conf, flag, pgstate, role, control, main_loop, thr, sched, crossed>>

Promote ==
    /\ role = "replica" /\ run /= 0 /\ ~Busy
    /\ role' = "primary"
    /\ control' = run
    /\ UNCHANGED <<goal, want, conf, run, flag, pgstate, main_loop, thr, sched, crossed>>

\* The primary is stopped and started as a standby.
Demote ==
    /\ role = "primary" /\ main_loop = Idle /\ ~Busy
    /\ role' = "replica"
    /\ run' = 0
    /\ thr' = Begin("start")
    /\ UNCHANGED <<goal, want, conf, flag, pgstate, control, main_loop, sched, crossed>>

ParametersNext ==
    \/ ReloadBegins \/ ReloadWrites \/ ReloadFlags
    \/ restart \/ schedule_future_restart \/ delete_future_restart
    \/ evaluate_scheduled_restart \/ RunScheduled
    \/ stop \/ start \/ configure \/ launch \/ check_startup_state_changed \/ recover_dead
    \/ Configure \/ Replay \/ Crash \/ Promote \/ Demote

ParametersSpec == ParametersInit /\ [][ParametersNext]_parametersVars

-----------------------------------------------------------------------------
(* What the parameter of PatroniParameters has to satisfy. *)

\* Types; postmaster is only taken for running while nobody restarts it.
ParametersTypeOK ==
    /\ {goal, want, conf, control} \subseteq Amount /\ run \in Amount \cup {0}
    /\ {flag, crossed} \subseteq BOOLEAN
    /\ pgstate \in {"running", "starting", "restarting", "start failed"}
    /\ role \in {"primary", "replica"}
    /\ Busy => pgstate /= "running" \/ thr.pc = "start"
    /\ run /= 0 => thr.pc \in {"idle", "stop", "wait"}
    /\ main_loop.pc \in {"idle", "write", "query", "sleep"}

\* effective_configuration: "If we try to start postgres with max_connections=100,
\* it will immediately exit": a standby is never given less than what pg_control
\* says, however reloads, promotions and restarts are interleaved.
StandbyCanStart ==
    role = "replica" /\ thr.pc = "launch" => thr.value >= control

\* The flag says whether Postgres runs with something else than what is asked
\* for, when neither a reload nor a restart is under way.  Not so if the two
\* came in each other's way: a reload while Postgres is not running writes no
\* file and clears the flag.
FlagIsTrue ==
    main_loop.pc \in {"idle", "sleep"} /\ ~Busy /\ IsRunning /\ run /= 0 /\ ~crossed
    => flag = (run /= want)

\* A standby can start, and the flag does not lie.
ParametersSafe == ParametersTypeOK /\ StandbyCanStart /\ FlagIsTrue
=============================================================================
