---------------------------- MODULE PatroniPostmaster ----------------------------
(***************************************************************************)
(* Stopping the Postgres of a primary, from the signal to the last user    *)
(* backend, and finding the postmaster by the pid in its file.  The        *)
(* watchdog, which would reset the node, is disabled at the safepoint,     *)
(* when no backend can report a commit any more; the leader key is given   *)
(* up when Postgres is shut down.                                          *)
(***************************************************************************)
EXTENDS Naturals

CONSTANTS Backend, MaxOsFaults   \* MaxOsFaults bounds crashes, reused pids and failing system calls

VARIABLES
    pm, primary, backends,   \* Postgres: the postmaster, its role, its user backends
    signaled,                \* the last signal sent to it
    pidfile, holder,         \* postmaster.pid, and who has the pid that is written there
    stop_pc, mode, timeout, proc, \* the stop in progress; whether it has a stop_timeout; the process to stop
    listed, told,            \* the backends waited for; PG_GRANDPARENT_PID is set
    watchdog, leader_key,
    late, orphaned, unsignaled, near, reused,   \* what went wrong
    victim, refused,         \* another process was signaled; the new postmaster refused to start
    os_faults
postmasterVars == <<pm, primary, backends, signaled, pidfile, holder, stop_pc, mode, timeout, proc, listed, told,
                    watchdog, leader_key, late, orphaned, unsignaled, near, reused, victim, refused, os_faults>>
server == <<pm, primary, backends, signaled, pidfile, holder>>
wrong == <<late, orphaned, unsignaled, near, reused, victim, refused>>
stopping == <<mode, timeout, proc, listed, told>>

\* What demote and shutdown ask of stop.
Mode == {"graceful", "offline", "immediate", "immediate-nolock", "shutdown"}
Fast == {"graceful", "offline", "shutdown"}
Releases == {"graceful", "immediate", "shutdown"}
MayFail == os_faults < MaxOsFaults /\ os_faults' = os_faults + 1
NoFault == UNCHANGED os_faults

PostmasterInit ==
    /\ pm = "up" /\ primary = TRUE /\ backends = {} /\ signaled = "none"
    /\ pidfile = TRUE /\ holder = "postmaster"
    /\ stop_pc = "idle" /\ mode = "offline" /\ timeout = FALSE /\ proc = "postmaster" /\ listed = {} /\ told = FALSE
    /\ watchdog = TRUE /\ leader_key = TRUE
    /\ late = FALSE /\ orphaned = FALSE /\ unsignaled = FALSE /\ near = FALSE /\ reused = FALSE
    /\ victim = FALSE /\ refused = FALSE /\ os_faults = 0

-----------------------------------------------------------------------------
(* Postgres and the operating system.                                       *)

Os == UNCHANGED <<stop_pc, stopping, watchdog, leader_key>>

Connects == /\ pm = "up" /\ \E b \in Backend \ backends : backends' = backends \cup {b}
            /\ Os /\ NoFault /\ UNCHANGED <<pm, primary, signaled, pidfile, holder, wrong>>
BackendEnds == /\ \E b \in backends : backends' = backends \ {b}
               /\ Os /\ NoFault /\ UNCHANGED <<pm, primary, signaled, pidfile, holder, wrong>>
\* The postmaster takes the signal: no more connections, its backends are told to end.
TakesSignal == /\ pm = "up" /\ signaled /= "none" /\ pm' = "stopping"
               /\ Os /\ NoFault /\ UNCHANGED <<primary, backends, signaled, pidfile, holder, wrong>>
\* After the last backend: a shutdown checkpoint, unless it was told to hurry.
ShutDown == /\ pm = "stopping" /\ backends = {} /\ signaled = "fast" /\ pm' = "shut_down"
            /\ Os /\ NoFault /\ UNCHANGED <<primary, backends, signaled, pidfile, holder, wrong>>
Exit == /\ pm = "shut_down" \/ (pm = "stopping" /\ backends = {} /\ signaled = "immediate")
        /\ pm' = "none" /\ pidfile' = FALSE /\ holder' = "none"
        /\ Os /\ NoFault /\ UNCHANGED <<primary, backends, signaled, wrong>>
\* The postmaster dies and leaves its file, and its backends until they notice.
Dies == /\ pm /= "none" /\ MayFail /\ pm' = "none" /\ holder' = "none"
        /\ orphaned' = (orphaned \/ backends /= {})
        /\ Os /\ UNCHANGED <<primary, backends, signaled, pidfile, late, unsignaled, near, reused, victim, refused>>
\* Another process gets the pid; near: it started when the postmaster did.
PidReused == /\ pidfile /\ holder = "none" /\ MayFail
             /\ \/ holder' = "far" /\ UNCHANGED near
                \/ holder' = "near" /\ near' = TRUE
             /\ reused' = (reused \/ stop_pc = "launch")
             /\ Os /\ UNCHANGED <<pm, primary, backends, signaled, pidfile, late, orphaned, unsignaled, victim, refused>>
OtherEnds == /\ holder \in {"near", "far"} /\ holder' = "none"
             /\ Os /\ NoFault /\ UNCHANGED <<pm, primary, backends, signaled, pidfile, wrong>>

-----------------------------------------------------------------------------
(* is_running, stop and the signals.                                        *)

Patroni == UNCHANGED <<pm, primary, backends, pidfile>>

\* The start times have to agree.
from_pidfile == pidfile /\ holder \in {"postmaster", "near"}

Safepoint == watchdog' = FALSE
stop(m) ==
    /\ stop_pc = "idle" /\ primary /\ mode' = m /\ timeout' \in BOOLEAN /\ proc' = holder
    /\ IF from_pidfile THEN stop_pc' = "signal" /\ UNCHANGED watchdog ELSE stop_pc' = "stopped" /\ Safepoint
    /\ Patroni /\ NoFault /\ UNCHANGED <<signaled, holder, listed, told, leader_key, wrong>>

StopMode == IF mode \in Fast THEN "fast" ELSE "immediate"
\* A process is identified by its pid and the time it started.
Gone == holder /= proc

\* Checkpoint and scripts before the signal change nothing here.
signal_stop ==
    /\ stop_pc = "signal"
    /\ \/ /\ Gone /\ stop_pc' = "stopped" /\ Safepoint        \* it is gone
          /\ NoFault /\ UNCHANGED <<signaled, wrong>>
       \/ /\ ~Gone /\ stop_pc' = "connection"
          /\ signaled' = StopMode
          /\ victim' = (victim \/ holder /= "postmaster")
          /\ NoFault /\ UNCHANGED <<watchdog, late, orphaned, unsignaled, near, reused, refused>>
       \/ /\ ~Gone /\ MayFail /\ stop_pc' = "failed" /\ unsignaled' = TRUE
          /\ UNCHANGED <<signaled, watchdog, late, orphaned, near, reused, victim, refused>>
    /\ Patroni /\ UNCHANGED <<holder, stopping, leader_key>>

Late == late' = TRUE /\ UNCHANGED <<orphaned, unsignaled, near, reused, victim, refused>>
Step(to) == stop_pc' = to /\ Patroni /\ UNCHANGED <<signaled, holder, mode, timeout, proc, told>>
\* Patroni's own connection is queried until it is closed: the signal has been taken.
ConnectionClosed == pm /= "up"
_wait_for_connection_close ==
    /\ stop_pc = "connection" /\ Step("list") /\ UNCHANGED <<listed, watchdog, leader_key>>
    /\ \/ ConnectionClosed /\ NoFault /\ UNCHANGED wrong
       \/ MayFail /\ Late      \* another error of the query
ListBackends ==
    /\ stop_pc = "list" /\ UNCHANGED <<watchdog, leader_key>>
    /\ \/ listed' = backends /\ Step("backends") /\ NoFault /\ UNCHANGED wrong
       \/ listed' = {} /\ Step("backends") /\ MayFail /\ Late      \* no list of the children
wait_for_user_backends_to_close ==
    /\ stop_pc = "backends" /\ Step(IF mode \in {"graceful", "shutdown"} THEN "shutdown" ELSE "end")
    /\ Safepoint /\ UNCHANGED <<listed, leader_key>>
    /\ \/ listed \cap backends = {} /\ NoFault /\ UNCHANGED wrong
       \/ timeout /\ MayFail /\ Late

\* Variant: the key is given up as soon as the shutdown begins.
WhenStopping == pm \in {"stopping", "shut_down"}
\* pg_controldata says that the shutdown checkpoint is written.
IsShutDown == pm = "shut_down"
\* Replicas that have it allow to give the key up before Postgres is gone.
on_shutdown ==
    /\ stop_pc = "shutdown" /\ Step("end") /\ UNCHANGED <<listed, watchdog, wrong>>
    /\ \/ IsShutDown /\ leader_key' \in {leader_key, FALSE} /\ NoFault
       \/ Gone /\ UNCHANGED leader_key /\ NoFault
       \/ timeout /\ MayFail /\ UNCHANGED leader_key

\* postmaster.wait, and what is done when it takes too long.
wait ==
    /\ stop_pc \in {"end", "aborted", "forever"} /\ UNCHANGED <<listed, watchdog, leader_key, wrong>>
    /\ \/ Gone /\ Step("stopped") /\ NoFault
       \/ stop_pc = "end" /\ timeout /\ MayFail /\ Step(IF mode \in Fast THEN "abort" ELSE "kill")
       \/ stop_pc = "aborted" /\ timeout /\ MayFail /\ Step("kill")
terminate_postmaster ==
    /\ stop_pc = "abort" /\ Patroni /\ NoFault /\ UNCHANGED <<holder, stopping, watchdog, leader_key, wrong>>
    /\ \/ Gone /\ stop_pc' = "stopped" /\ UNCHANGED signaled
       \/ ~Gone /\ stop_pc' = "aborted" /\ signaled' = "immediate"
\* Suspended, so that it cannot fork, then killed with its children; without their
\* list, or if it cannot be killed, less than that.
Killed == pm' = "none" /\ holder' = IF Gone THEN holder ELSE "none"
signal_kill ==
    /\ stop_pc = "kill" /\ UNCHANGED <<primary, signaled, pidfile, stopping, watchdog, leader_key, late, unsignaled, near, reused, victim, refused>>
    /\ \/ stop_pc' = "stopped" /\ Killed /\ backends' = (IF Gone \/ proc = "near" THEN backends ELSE {})
          /\ NoFault /\ UNCHANGED orphaned
       \/ stop_pc' = "stopped" /\ MayFail /\ Killed /\ orphaned' = (orphaned \/ backends /= {}) /\ UNCHANGED backends
       \/ stop_pc' = "forever" /\ MayFail /\ UNCHANGED <<pm, holder, backends, orphaned>>

\* demote gives the key up whatever stop has returned; shutdown asks whether Postgres
\* runs.
AfterStop ==
    /\ stop_pc \in {"stopped", "failed"} /\ stop_pc' = "down"
    /\ leader_key' = (leader_key /\ ~(mode \in Releases /\ (mode = "shutdown" => ~from_pidfile)))
    /\ Patroni /\ NoFault /\ UNCHANGED <<signaled, holder, stopping, watchdog, wrong>>

-----------------------------------------------------------------------------
(* start.                                                                   *)

Told == pidfile /\ holder /= "none" /\ ~from_pidfile
\* Nothing is started while Patroni believes that a postmaster runs.
start ==
    /\ stop_pc = "down" /\ ~from_pidfile /\ backends = {}
    /\ told' = Told /\ stop_pc' = "launch" /\ reused' = FALSE /\ refused' = FALSE
    /\ Patroni /\ NoFault
    /\ UNCHANGED <<signaled, holder, mode, timeout, proc, listed, watchdog, leader_key, late, orphaned, unsignaled, near, victim>>
\* A postmaster does not start if the pid in the file is another living process.
Launch ==
    /\ stop_pc = "launch"
    /\ IF pidfile /\ holder /= "none" /\ ~told
       THEN /\ stop_pc' = "down" /\ refused' = TRUE
            /\ UNCHANGED <<server, late, orphaned, unsignaled, near, reused, victim>>
       ELSE /\ stop_pc' = "idle" /\ pm' = "up" /\ primary' = FALSE /\ signaled' = "none"
            /\ pidfile' = TRUE /\ holder' = "postmaster"
            /\ UNCHANGED <<backends, wrong>>
    /\ NoFault /\ UNCHANGED <<stopping, watchdog, leader_key>>

\* The standby wins the leader key again: watchdog first, then the promotion.
Promote ==
    /\ stop_pc = "idle" /\ pm = "up" /\ ~primary /\ primary' = TRUE /\ leader_key' = TRUE /\ watchdog' = TRUE
    /\ NoFault /\ UNCHANGED <<pm, backends, signaled, pidfile, holder, stop_pc, stopping, wrong>>

PostmasterNext ==
    \/ Connects \/ BackendEnds \/ TakesSignal \/ ShutDown \/ Exit \/ Dies \/ PidReused \/ OtherEnds
    \/ \E m \in Mode : stop(m)
    \/ signal_stop \/ _wait_for_connection_close \/ ListBackends \/ wait_for_user_backends_to_close
    \/ on_shutdown \/ wait \/ terminate_postmaster \/ signal_kill \/ AfterStop
    \/ start \/ Launch \/ Promote
PostmasterSpec == PostmasterInit /\ [][PostmasterNext]_postmasterVars

-----------------------------------------------------------------------------
(* When the guards of a primary are let go. *)

\* Types, and: the pid in the file is the postmaster's as long as there is one.
PostmasterTypeOK ==
    /\ pm \in {"none", "up", "stopping", "shut_down"} /\ primary \in BOOLEAN /\ backends \subseteq Backend
    /\ signaled \in {"none", "fast", "immediate"} /\ pidfile \in BOOLEAN
    /\ holder \in {"none", "postmaster", "near", "far"} /\ (holder = "postmaster" <=> pm /= "none")
    /\ stop_pc \in {"idle", "signal", "connection", "list", "backends", "shutdown", "end", "abort", "aborted", "kill",
               "forever", "stopped", "failed", "down", "launch"}
    /\ mode \in Mode /\ timeout \in BOOLEAN
    /\ proc \in {"none", "postmaster", "near", "far"} /\ listed \subseteq Backend /\ told \in BOOLEAN
    /\ watchdog \in BOOLEAN /\ leader_key \in BOOLEAN

CannotCommit == pm /= "up" /\ backends = {}

\* The watchdog is not disabled before the last user backend is gone ("A safepoint is
\* when no user backend can return a successful commit to users"), even if clients
\* connect until the signal is taken.  Except when waiting for the backends times out or
\* the system calls fail (late; postmaster.py:192-206), and when backends survive
\* their postmaster (orphaned).
WatchdogUntilSafe == primary /\ ~watchdog => CannotCommit \/ late \/ orphaned

\* The leader key is not given up while a backend may still report a commit, however
\* the stop went: signals, timeouts, an abort or a kill.  Except when Postgres could
\* not be signaled and demote goes on all the same (unsignaled; ha.py:1259), and when
\* backends survive their postmaster (orphaned; postmaster.py:124-130).
KeyUntilStopped == primary /\ ~leader_key => CannotCommit \/ unsignaled \/ orphaned

\* A file left by a postmaster that died never makes Patroni signal another process,
\* nor keeps Postgres from starting: except for a process that started at the same
\* time, and one that gets the pid while Postgres is being started (reused).
StalePidfile == (victim => near) /\ (refused => near \/ reused)

\* The guards of a primary outlive it.
PostmasterSafe == PostmasterTypeOK /\ WatchdogUntilSafe /\ KeyUntilStopped /\ StalePidfile
=============================================================================
