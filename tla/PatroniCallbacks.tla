---------------------------- MODULE PatroniCallbacks ----------------------------
(***************************************************************************)
(* The callback scripts (on_start, on_stop, on_restart, on_role_change,    *)
(* on_reload) of one node: the places of the code that announce a role,    *)
(* the thread that runs one script at a time, and the killing of a script  *)
(* when a newer one is to be run.  Scripts move the address of the         *)
(* primary, so what the last one was told has to be the node's role.       *)
(*                                                                         *)
(* Two threads announce: "main" runs the cycle and whatever it starts in   *)
(* the executor and waits for, "promote" is the executor with a promotion, *)
(* which the rest of the same cycle does not wait for.                     *)
(***************************************************************************)
EXTENDS Naturals

CONSTANTS Unset, MaxEvents   \* bounds restarts, stops, crashes and other events

VARIABLES
    role, pg_state, standby,   \* the role Patroni knows; Postgres and whether its data directory is a standby's
    pending, called,     \* __cb_pending, __cb_called
    call,                \* per thread: a call in progress, before the kill or before the hand over
    promoting,           \* the executor promotes
    cmd, taken, process,    \* the executor's _cmd, the command it has taken, the script that runs
    reloads,             \* on_reload scripts that run
    told_role,                \* the last role a script was told and had the time for
    raced, overtaken, spoiled, events
callbacksVars == <<role, pg_state, standby, pending, called, call, promoting, cmd, taken, process, reloads, told_role,
                   raced, overtaken, spoiled, events>>
executor == <<cmd, taken, process, reloads, told_role>>
node == <<role, pg_state, standby, pending, called>>
flags == <<overtaken, spoiled>>

Thread == {"main", "promote"}
Primary == {"master", "promoted"}
Label(r) == IF r = "promoted" THEN "master" ELSE r
Idle(t) == call[t] = Unset
MayHappen == events < MaxEvents /\ events' = events + 1

CallbacksInit ==
    /\ pg_state = "up" /\ standby \in BOOLEAN /\ role = (IF standby THEN "replica" ELSE "master")
    /\ pending = Unset /\ called = FALSE
    /\ call = [t \in Thread |-> Unset] /\ promoting = "no"
    /\ cmd = Unset /\ taken = Unset /\ process = Unset /\ reloads = 0 /\ told_role = Unset
    /\ raced = FALSE /\ overtaken = FALSE /\ spoiled = FALSE /\ events = 0

\* The role is read here, the script is run later: another announcement of the
\* same moment makes it a race.
call_nowait(t, cb, r) ==
    /\ called' = TRUE
    /\ call' = [call EXCEPT ![t] = [cb |-> cb, role |-> Label(r), at |-> "kill"]]
    /\ raced' = \E u \in Thread \ {t} : ~Idle(u) \/ (u = "promote" /\ promoting /= "no")
Silent == UNCHANGED <<called, call, raced>>
\* The cycle's own steps: nothing is in progress.
Free == Idle("main") /\ Idle("promote") /\ promoting = "no"

-----------------------------------------------------------------------------
(* The executor.                                                            *)

\* The running script is killed, children included; then _cmd is set.  A command the
\* thread takes or has taken meanwhile is not running yet and is not killed.
Calls(t) ==
    \/ /\ call[t] /= Unset /\ call[t].at = "kill"
       /\ process' = IF process /= Unset THEN [process EXCEPT !.killed = TRUE] ELSE Unset
       /\ overtaken' = (overtaken \/ taken /= Unset \/ cmd /= Unset \/ \E u \in Thread \ {t} : ~Idle(u))
       /\ call' = [call EXCEPT ![t].at = "put"]
       /\ UNCHANGED cmd
    \/ /\ call[t] /= Unset /\ call[t].at = "put"
       /\ cmd' = [cb |-> call[t].cb, role |-> call[t].role]
       /\ call' = [call EXCEPT ![t] = Unset]
       /\ UNCHANGED <<process, overtaken>>
Call(t) == Calls(t) /\ UNCHANGED <<node, promoting, taken, reloads, told_role, raced, spoiled, events>>

Takes == cmd /= Unset /\ taken' = cmd /\ cmd' = Unset
Take == taken = Unset /\ process = Unset /\ Takes
        /\ UNCHANGED <<node, call, promoting, process, reloads, told_role, raced, flags, events>>

\* The command is lost when the script cannot be started.
_start_process ==
    /\ taken /= Unset /\ taken' = Unset
    /\ \/ process' = [cb |-> taken.cb, role |-> taken.role, killed |-> FALSE] /\ UNCHANGED <<spoiled, events>>
       \/ MayHappen /\ spoiled' = TRUE /\ UNCHANGED process
    /\ UNCHANGED <<node, call, promoting, cmd, reloads, told_role, raced, overtaken>>

\* The script ends, by itself or because it was killed, and the thread goes on.
Wait ==
    /\ process /= Unset /\ process' = Unset
    /\ told_role' = IF process.killed THEN "cut" ELSE process.role
    /\ overtaken' = (overtaken /\ (cmd /= Unset \/ \E t \in Thread : ~Idle(t)))
    /\ UNCHANGED <<node, call, promoting, cmd, taken, reloads, raced, spoiled, events>>

-----------------------------------------------------------------------------
(* What announces.                                                          *)

Rest == UNCHANGED <<promoting, executor, flags>>

\* A reload of Postgres runs its own script beside the others: an older one is killed.
Reload ==
    /\ Free /\ pg_state = "up" /\ MayHappen
    /\ reloads' = 1
    /\ UNCHANGED <<node, call, promoting, cmd, taken, process, told_role, raced, flags>>
OnReloadEnds ==
    /\ reloads = 1 /\ reloads' = 0
    /\ UNCHANGED <<node, call, promoting, cmd, taken, process, told_role, raced, flags, events>>

\* Postgres accepts connections: what was postponed is announced.
check_startup_state_changed ==
    /\ Free /\ pg_state = "starting" /\ pg_state' = "up" /\ pending' = Unset
    /\ LET action == IF pending = Unset THEN "on_start" ELSE pending
       IN IF action = "noop" THEN Silent ELSE call_nowait("main", action, role)
    /\ Rest /\ UNCHANGED <<role, standby, events>>
StartFails ==
    /\ Free /\ pg_state = "starting" /\ MayHappen /\ pg_state' = "down"
    /\ Rest /\ Silent /\ UNCHANGED <<role, standby, pending>>

change_role(r) == called /\ (role \in {"master", "demoted"} \/ {"standby_leader", "replica"} \subseteq {role, r})

\* Postgres is made to follow somebody: started, restarted or only reloaded.  The new
\* role is announced at once, and then the start is not announced.
follow_as(r) ==
    /\ Free /\ MayHappen /\ standby' = TRUE
    /\ \/ pg_state = "down" /\ pg_state' = "starting" /\ role' = r
          /\ pending' = (IF change_role(r) THEN "noop" ELSE "on_start")
       \/ pg_state = "up" /\ pg_state' = "starting" /\ role' = r
          /\ pending' = (IF change_role(r) THEN "noop" ELSE "on_restart")
       \/ pg_state = "up" /\ standby /\ role' \in {role, IF change_role(r) THEN r ELSE role}
          /\ pending' = (IF change_role(r) THEN "noop" ELSE pending) /\ UNCHANGED pg_state
    /\ IF change_role(r) THEN call_nowait("main", "on_role_change", role') ELSE Silent
    /\ Rest

\* A restart asked for takes the role from the data directory.
restart ==
    /\ Free /\ pg_state = "up" /\ MayHappen
    /\ pg_state' = "starting" /\ pending' = "on_restart" /\ role' = (IF standby THEN "replica" ELSE "master")
    /\ Rest /\ Silent /\ UNCHANGED standby

\* Postgres is stopped; the demotion changes the role after the announcement.
announce_stop ==
    /\ Free /\ pg_state = "up" /\ MayHappen /\ pg_state' = "down"
    /\ call_nowait("main", "on_stop", role)
    /\ role' = IF role \in Primary THEN "demoted" ELSE role
    /\ Rest /\ UNCHANGED <<standby, pending>>
PostgresDies ==
    /\ Free /\ pg_state = "up" /\ MayHappen /\ pg_state' = "down"
    /\ Rest /\ Silent /\ UNCHANGED <<role, standby, pending>>

\* The promotion runs in the executor.
promote_async ==
    /\ Idle("main") /\ Idle("promote") /\ promoting = "no" /\ pg_state = "up" /\ standby /\ role \notin Primary
    /\ promoting' = "asked" /\ MayHappen
    /\ Silent /\ UNCHANGED <<node, executor, flags>>
pg_ctl_promote ==
    /\ promoting = "asked" /\ promoting' = "done" /\ standby' = FALSE
    /\ Silent /\ UNCHANGED <<role, pg_state, pending, called, executor, flags, events>>
\* Variant: the role is announced before it is set.
AnnouncesFirst == role' = "promoted" /\ call_nowait("promote", "on_role_change", role)
Promoted == role' = "promoted" /\ call_nowait("promote", "on_role_change", "promoted")
set_promoted ==
    /\ promoting = "done" /\ promoting' = "no" /\ Promoted
    /\ UNCHANGED <<pg_state, standby, pending, executor, flags, events>>

\* The first cycle on a running Postgres announces its role; the promotion which the
\* same cycle may have begun is not waited for.
FirstCycle ==
    /\ Idle("main") /\ pg_state = "up" /\ ~called
    /\ call_nowait("main", "on_start", role)
    /\ Rest /\ UNCHANGED <<role, pg_state, standby, pending, events>>

\* The leader of a standby cluster, once Postgres follows the right node.
StandbyLeader ==
    /\ Free /\ pg_state = "up" /\ standby /\ role = "replica" /\ MayHappen /\ role' = "standby_leader"
    /\ call_nowait("main", "on_role_change", role')
    /\ Rest /\ UNCHANGED <<pg_state, standby, pending>>

\* enforce_primary_role, and follow in pause: the role is corrected, nothing is announced.
RoleCorrected ==
    /\ Free /\ pg_state = "up"
    /\ role' = (IF ~standby THEN "master" ELSE IF role = "standby_leader" THEN role ELSE "replica")
    /\ Rest /\ Silent /\ UNCHANGED <<pg_state, standby, pending, events>>

\* An operator promotes or starts Postgres past Patroni.
Operator ==
    /\ Free /\ MayHappen /\ spoiled' = TRUE
    /\ \/ pg_state = "up" /\ standby /\ standby' = FALSE /\ UNCHANGED pg_state
       \/ pg_state = "down" /\ pg_state' = "up" /\ UNCHANGED standby
    /\ Silent /\ UNCHANGED <<role, pending, promoting, executor, overtaken>>

CallbacksNext ==
    \/ \E t \in Thread : Call(t)
    \/ Take \/ _start_process \/ Wait
    \/ Reload \/ OnReloadEnds \/ check_startup_state_changed \/ StartFails
    \/ \E r \in {"replica", "standby_leader"} : follow_as(r)
    \/ restart \/ announce_stop \/ PostgresDies \/ promote_async \/ pg_ctl_promote \/ set_promoted
    \/ FirstCycle \/ StandbyLeader \/ RoleCorrected \/ Operator
CallbacksSpec == CallbacksInit /\ [][CallbacksNext]_callbacksVars

-----------------------------------------------------------------------------
(* What the scripts are told. *)

Roles == {"replica", "standby_leader", "master", "promoted", "demoted"}
ScriptNames == {"on_start", "on_stop", "on_restart", "on_role_change"}
Commands == [cb : ScriptNames, role : Roles \ {"promoted"}]
\* A call in progress, and the script that runs.
Asked == [cb : ScriptNames, role : Roles \ {"promoted"}, at : {"kill", "put"}]
Scripts == [cb : ScriptNames, role : Roles \ {"promoted"}, killed : BOOLEAN]

\* None is no command, call or script.
ASSUME CallbacksAssumption == Unset \notin Commands \cup Asked \cup Scripts

\* Types, and: the thread never has one command in hand while a script runs, nor runs
\* one it has not taken from _cmd.
CallbacksTypeOK ==
    /\ role \in Roles /\ pg_state \in {"down", "starting", "up"} /\ standby \in BOOLEAN
    /\ pending \in {Unset, "noop", "on_start", "on_restart"} /\ called \in BOOLEAN
    /\ promoting \in {"no", "asked", "done"} /\ reloads \in 0 .. 1
    /\ cmd \in {Unset} \cup Commands /\ taken \in {Unset} \cup Commands
    /\ taken = Unset \/ (process = Unset /\ taken /= cmd) \/ overtaken
    /\ told_role \in {Unset, "cut"} \cup Roles

\* Once nothing is under way the last script that ran was told the role the node has,
\* whatever starts, restarts, demotions, promotions and crashes came in which order,
\* and it was not killed.  Not if a script could not be started or an operator
\* promoted or started Postgres (spoiled); and not if the first cycle of Patroni announced
\* the standby it found while the promotion the same cycle had begun announced the
\* primary: the later of the two hand-overs wins (ha.py:1909-1912, call_nowait).
RoleTold ==
    Free /\ pg_state = "up" /\ called /\ cmd = Unset /\ taken = Unset /\ process = Unset
    => told_role = Label(role) \/ raced \/ spoiled

\* A script that waits for its turn waits for one that has been killed, never for one
\* that may run for ever ("Already running command is killed"); except one that was
\* taken but not started when the kill looked for it (callback_executor.py:63-66).
NotBlocked == cmd /= Unset /\ process /= Unset => process.killed \/ overtaken \/ raced

\* The scripts learn of what happened last.
CallbacksSafe == CallbacksTypeOK /\ RoleTold /\ NotBlocked
=============================================================================
