----------------------------- MODULE PatroniRecovery -----------------------------
(***************************************************************************)
(* Whom a standby streams from: the node it has to follow, what its        *)
(* configuration files say, what its Postgres has read of them, what its   *)
(* WAL receiver does, and what Patroni believes without asking.  Patroni   *)
(* asks Postgres only if a file or the postmaster has changed since        *)
(* (check_recovery_conf), then reloads or restarts it (follow).            *)
(*                                                                         *)
(* A primary_conninfo is the host in it.  For version 11 `conninfo` is      *)
(* recovery.conf, and `signal` that it exists.                             *)
(***************************************************************************)
EXTENDS Naturals

CONSTANTS Host, NoHost

ASSUME RecoveryAssumption == NoHost \notin Host

VARIABLES
    version,
    target,         \* the node to follow
    conninfo, auto, \* primary_conninfo in postgresql.conf and postgresql.auto.conf
    signal,         \* standby.signal
    pass,           \* whose password the passfile has
    postmaster,     \* running, starting, down or primary
    live,           \* primary_conninfo of the postmaster
    receiver,       \* whom the WAL receiver streams from, NoHost without one
    hup,            \* a SIGHUP is on its way to the postmaster
    known,          \* _current_recovery_params
    params,         \* _recovery_params: what the next write of the file puts in it
    fresh,          \* the modification times remembered are still those of the files
    restarting,     \* a restart is under way in the other thread
    outdated        \* history: Postgres has read a file after it was asked about it

conn == <<conninfo, auto, signal, pass>>
server == <<postmaster, live, receiver, hup>>
memory == <<known, params, fresh, restarting, outdated>>
recoveryVars == <<version, target, conn, server, memory>>

Files == {"conf", "auto", "pass", "process"}
AllFresh == [f \in Files |-> TRUE]

RecoveryInit ==
    /\ version \in {11, 12, 14}
    /\ target \in Host
    \* Patroni joins a running standby
    /\ \E h \in Host : conninfo = h /\ live = h /\ params = h /\ pass = h
    /\ auto = NoHost /\ signal = TRUE /\ postmaster = "running" /\ receiver = NoHost /\ hup = FALSE
    /\ known = NoHost /\ fresh = [f \in Files |-> FALSE]
    /\ restarting = FALSE /\ outdated = FALSE

-----------------------------------------------------------------------------
(* check_recovery_conf.                                                     *)

Effective == IF version > 11 /\ auto /= NoHost THEN auto ELSE conninfo

\* Variant: a new postmaster is not looked for.
FilesOnly == \A f \in Files \ {"process"} : fresh[f]
Unchanged == \A f \in (IF version = 11 THEN {"conf", "pass"} ELSE Files) : fresh[f]

\* Postgres is asked, or the file is read; not while Postgres is starting.
Reads == (version = 11 \/ postmaster = "running") /\ ~Unchanged
_read_recovery_params == IF Reads THEN (IF version = 11 THEN conninfo ELSE live) ELSE known

\* What is compared: the host of the WAL receiver if there is one.
Seen == IF _read_recovery_params = NoHost THEN NoHost
        ELSE IF postmaster = "running" /\ receiver /= NoHost THEN receiver
        ELSE _read_recovery_params

\* The passfile is looked at if no WAL receiver has proved it good.
_check_passfile == (postmaster = "running" /\ receiver /= NoHost) \/ pass = target

_check_primary_conninfo == Seen = NoHost \/ (Seen = target /\ _check_passfile)

\* primary_conninfo takes a restart before version 13, and so does a missing file.
check_recovery_conf ==
    IF ~signal THEN "restart"
    ELSE IF _check_primary_conninfo THEN "none"
    ELSE IF version < 13 THEN "restart" ELSE "reload"

\* What is remembered after a check that has read; the passfile only if it was
\* looked at and found good.
AfterRead ==
    IF ~signal \/ ~Reads THEN UNCHANGED <<fresh, outdated>>
    ELSE /\ fresh' = [f \in Files |-> IF f = "pass" THEN fresh.pass \/ (receiver = NoHost /\ pass = target) ELSE TRUE]
         /\ outdated' = FALSE

-----------------------------------------------------------------------------
(* follow.                                                                  *)

\* write_postgresql_conf with the parameters in memory: postgresql.auto.conf is
\* cleared of them (_sanitize_auto_conf), the passfile written.
Write(p) ==
    /\ conninfo' = p
    /\ auto' = NoHost
    /\ pass' = p

Unread(read) == [f \in Files |-> IF f \in {"conf", "auto"} THEN FALSE ELSE f = "pass" \/ read[f]]

\* Nothing to do; Postgres does not answer and has been started anew: as if
\* nothing had changed.
CheckNothing ==
    /\ postmaster \in {"running", "starting"} /\ ~restarting
    /\ \/ /\ check_recovery_conf = "none"
          /\ known' = IF signal THEN _read_recovery_params ELSE known
          /\ AfterRead
       \/ /\ version > 11 /\ signal /\ Reads /\ \A f \in Files \ {"process"} : fresh[f]
          /\ known = NoHost \/ known = target
          /\ UNCHANGED <<known, fresh, outdated>>
    /\ UNCHANGED <<version, target, conn, server, params, restarting>>

FollowReload ==
    /\ postmaster = "running" /\ ~restarting
    /\ check_recovery_conf = "reload"
    /\ params' = target /\ known' = target
    /\ Write(target)
    /\ fresh' = Unread(IF Reads THEN AllFresh ELSE fresh)
    /\ outdated' = (outdated /\ ~Reads)
    /\ hup' = TRUE
    /\ UNCHANGED <<version, target, signal, postmaster, live, receiver, restarting>>

\* write_recovery_conf comes at once, for version 11 with the file; the rest when
\* Postgres starts.  Not being able to ask, with files that have changed, also
\* means a restart.
FollowRestart ==
    /\ postmaster \in {"running", "starting"} /\ ~restarting
    /\ \/ check_recovery_conf = "restart"
       \/ version > 11 /\ Reads /\ \E f \in Files \ {"process"} : ~fresh[f]
    /\ params' = target /\ known' = IF version = 11 THEN known ELSE target
    /\ signal' = TRUE
    /\ restarting' = TRUE
    /\ IF version = 11 THEN Write(target) /\ fresh' = Unread(fresh)
       ELSE UNCHANGED <<conninfo, auto, pass, fresh>>
    /\ UNCHANGED <<version, target, server, outdated>>

Stop ==
    /\ restarting /\ postmaster /= "down"
    /\ postmaster' = "down" /\ receiver' = NoHost /\ hup' = FALSE
    /\ UNCHANGED <<version, target, conn, live, memory>>

\* start_standby: the file is written with the parameters in memory.
start_standby ==
    /\ restarting /\ postmaster = "down"
    /\ IF version = 11 THEN UNCHANGED <<conninfo, auto, pass>> /\ live' = conninfo /\ fresh' = [fresh EXCEPT !.process = FALSE]
       ELSE Write(params) /\ live' = params /\ fresh' = [Unread(fresh) EXCEPT !.process = FALSE]
    /\ postmaster' = "starting" /\ restarting' = FALSE
    /\ UNCHANGED <<version, target, signal, receiver, hup, known, params, outdated>>

check_for_startup ==
    /\ postmaster = "starting"
    /\ postmaster' = "running"
    /\ UNCHANGED <<version, target, conn, live, receiver, hup, memory>>

\* A standby found dead, or a primary to demote, is started to follow the target.
Recover ==
    /\ postmaster \in {"down", "primary"} /\ ~restarting
    /\ params' = target /\ known' = IF version = 11 THEN known ELSE target
    /\ signal' = TRUE /\ restarting' = TRUE
    /\ IF version = 11 THEN Write(target) /\ fresh' = Unread(fresh)
       ELSE UNCHANGED <<conninfo, auto, pass, fresh>>
    /\ postmaster' = "down" /\ receiver' = NoHost
    /\ UNCHANGED <<version, target, live, hup, outdated>>

\* reload_config for a parameter that has nothing to do with it.
reload_config ==
    /\ version > 11 /\ postmaster = "running" /\ ~restarting
    /\ conninfo' = (IF params = NoHost THEN conninfo ELSE params) /\ auto' = NoHost
    /\ pass' = IF params = NoHost THEN pass ELSE params
    /\ fresh' = IF params = NoHost THEN [fresh EXCEPT !.conf = FALSE, !.auto = FALSE] ELSE Unread(fresh)
    /\ hup' = TRUE
    /\ UNCHANGED <<version, target, signal, postmaster, live, receiver, known, params, restarting, outdated>>

\* promote, then remove_recovery_conf.
remove_recovery_conf ==
    /\ postmaster = "running" /\ ~restarting
    /\ postmaster' = "primary" /\ receiver' = NoHost /\ hup' = FALSE
    /\ signal' = FALSE
    /\ params' = NoHost /\ known' = NoHost
    /\ UNCHANGED <<version, target, conninfo, auto, pass, live, fresh, restarting, outdated>>

-----------------------------------------------------------------------------
(* The environment.                                                         *)

Retarget ==
    /\ target' \in Host \ {target}
    /\ UNCHANGED <<version, conn, server, memory>>

\* The postmaster reads its files; before 13 a new primary_conninfo is only noted.
Sighup ==
    /\ hup /\ postmaster = "running"
    /\ hup' = FALSE
    /\ live' = IF version >= 13 THEN Effective ELSE live
    /\ receiver' = IF live' = live THEN receiver ELSE NoHost
    /\ outdated' = (outdated \/ (live' /= live /\ Unchanged))
    /\ UNCHANGED <<version, target, conn, postmaster, known, params, fresh, restarting>>

\* ALTER SYSTEM, and pg_reload_conf() whenever the operator likes.
AlterSystem ==
    /\ version > 11 /\ postmaster = "running"
    /\ \E h \in Host : auto' = h
    /\ fresh' = [fresh EXCEPT !.auto = FALSE]
    /\ UNCHANGED <<version, target, conninfo, signal, pass, server, known, params, restarting, outdated>>
pg_reload_conf ==
    /\ postmaster = "running" /\ ~hup
    /\ hup' = TRUE
    /\ UNCHANGED <<version, target, conn, postmaster, live, receiver, memory>>

\* pg_basebackup and pg_rewind have the same passfile.
write_pgpass ==
    /\ \E h \in Host \ {pass} : pass' = h
    /\ fresh' = [fresh EXCEPT !.pass = FALSE]
    /\ UNCHANGED <<version, target, conninfo, auto, signal, server, known, params, restarting, outdated>>

\* Somebody restarts Postgres with pg_ctl.
OperatorRestart ==
    /\ postmaster = "running" /\ signal /\ ~restarting
    /\ live' = Effective /\ receiver' = NoHost /\ hup' = FALSE
    /\ fresh' = [fresh EXCEPT !.process = FALSE]
    /\ UNCHANGED <<version, target, conn, postmaster, known, params, restarting, outdated>>

RemoveSignal ==
    /\ signal /\ postmaster = "running"
    /\ signal' = FALSE
    /\ UNCHANGED <<version, target, conninfo, auto, pass, server, memory>>

WalReceiver ==
    /\ postmaster = "running"
    /\ IF receiver = NoHost THEN pass = live /\ receiver' = live ELSE receiver' = NoHost
    /\ UNCHANGED <<version, target, conn, postmaster, live, hup, memory>>

StandbyDies ==
    /\ postmaster \in {"running", "starting"} /\ ~restarting
    /\ postmaster' = "down" /\ receiver' = NoHost /\ hup' = FALSE
    /\ UNCHANGED <<version, target, conn, live, memory>>

RecoveryNext ==
    \/ CheckNothing \/ FollowReload \/ FollowRestart \/ Stop \/ start_standby \/ check_for_startup
    \/ Recover \/ reload_config \/ remove_recovery_conf
    \/ Retarget \/ Sighup \/ AlterSystem \/ pg_reload_conf \/ write_pgpass \/ OperatorRestart \/ RemoveSignal \/ WalReceiver \/ StandbyDies

RecoverySpec == RecoveryInit /\ [][RecoveryNext]_recoveryVars

-----------------------------------------------------------------------------
(* What check_recovery_conf has to see. *)

\* Types; there is a receiver only in a running standby, for a host it was told.
RecoveryTypeOK ==
    /\ {target, conninfo, pass, live} \subseteq Host /\ {auto, receiver, known, params} \subseteq Host \cup {NoHost}
    /\ {signal, hup, restarting, outdated} \subseteq BOOLEAN
    /\ postmaster \in {"running", "starting", "down", "primary"}
    /\ fresh \in [Files -> BOOLEAN]
    /\ receiver /= NoHost => postmaster = "running" /\ receiver = live

\* If check_recovery_conf finds nothing to do in a running standby, then the
\* standby is set to stream from the node to follow, though Patroni asks Postgres
\* only if it has to, whatever was written, read, reloaded and restarted before.
\* Not so if Postgres has read its files again after it was asked; version 11 is
\* compared with recovery.conf, which may be newer than Postgres ("TODO:
\* recovery.conf could be stale, would be nice to detect that").
FindsWrongHost ==
    postmaster = "running" /\ ~restarting /\ ~hup /\ check_recovery_conf = "none" /\ ~outdated
    => (IF version = 11 THEN conninfo ELSE live) = target \/ (version = 11 /\ receiver = target)

\* Then, without a WAL receiver, the passfile that others write as well has the
\* password for that node.
FindsWrongPassfile ==
    postmaster = "running" /\ ~restarting /\ check_recovery_conf = "none" /\ receiver = NoHost => pass = target

\* What check_recovery_conf does not find is not there.
RecoverySafe == RecoveryTypeOK /\ FindsWrongHost /\ FindsWrongPassfile
=============================================================================
