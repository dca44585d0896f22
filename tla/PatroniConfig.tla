------------------------------ MODULE PatroniConfig ------------------------------
(***************************************************************************)
(* The dynamic configuration: one key in the DCS, written by PATCH and PUT *)
(* of the REST API, by patronictl edit-config and, when it was wiped, by   *)
(* the leader; read by every node, adjusted, merged with its local file    *)
(* and cached next to the data.                                            *)
(*                                                                         *)
(* The API thread and the main loop share the Cluster object in memory:    *)
(* PATCH copies the top level of its dictionary only, so that the nested   *)
(* section (postgresql.parameters) is changed in place.  Objects have an   *)
(* identity here, a number.                                                *)
(***************************************************************************)
EXTENDS Naturals, Sequences

CONSTANTS
    Node,
    Times,          \* the settings of loop_wait, retry_timeout and ttl tried
    Request,        \* what requests change: functions from settings to values
    Locals,         \* the local configurations tried
    None,
    MaxWrites,      \* bound: versions of the key
    MaxFaults       \* bound: wipes of the key, restarts, failing writes

VARIABLES
    backend,
    store,          \* the key /config
    written,        \* history: the data of every write
    head,           \* the leader
    heap, dcs, dyn, \* objects of a node; dcs.cluster, _dynamic_configuration (0: none)
    api,            \* a PATCH request in the API thread
    ctl,            \* a patronictl edit-config
    main,           \* where the main loop is: idle, loaded, or wiped
    seen,           \* _modify_version
    eff, global,    \* effective configuration and GlobalConfig
    file,           \* patroni.dynamic.json
    local,          \* the local configuration: a parameter it sets, and one it may not
    raced,          \* history: eff is built from an object that a PATCH has or had in hand
    broken          \* count of faults

node == <<heap, dcs, dyn, main, seen, eff, global, file, raced>>
vars == <<backend, store, written, head, node, api, ctl, local, broken>>

Object == 1 .. 3
Value == {0, 1}
Invalid == 2        \* a value that the validator of a command line option refuses
\* time is at the top, cmd and guc are in postgresql.parameters; cmd is one of
\* CMDLINE_OPTIONS.
BootstrapDcs == [time |-> CHOOSE t \in Times : t.number, cmd |-> 0, guc |-> 0]

-----------------------------------------------------------------------------

Atleast(x, low) == IF x < low THEN low ELSE x

\* number: ttl, which is looked at last, is a number; otherwise int() raises when
\* the others have been adjusted.
_validate_and_adjust_timeouts(t) ==
    LET low == [t EXCEPT !.loop_wait = Atleast(@, 1), !.retry_timeout = Atleast(@, 3)]
        u == [low EXCEPT !.ttl = Atleast(@, 20)]
    IN IF ~t.number THEN low
       ELSE IF 1 + 2 * u.retry_timeout > u.ttl
            THEN [u EXCEPT !.loop_wait = 1, !.retry_timeout = (u.ttl - 1) \div 2]
       ELSE IF u.loop_wait + 2 * u.retry_timeout > u.ttl
            THEN [u EXCEPT !.loop_wait = u.ttl - 2 * u.retry_timeout]
       ELSE u

Adjusted(d) == [d EXCEPT !.time = _validate_and_adjust_timeouts(@)]

\* A refused value of a command line option is replaced by the default.
_process_postgresql_parameters(c) == IF c = Invalid THEN 0 ELSE c

\* Defaults, dynamic and local configuration; command line options come from the
\* dynamic one alone.
_build_effective_configuration(d, l) ==
    [time |-> d.time,
     cmd |-> _process_postgresql_parameters(d.cmd),
     guc |-> IF l.guc = None THEN d.guc ELSE l.guc]

deep_compare(x, y) == x = y

patch_config(d, req) == [f \in DOMAIN d |-> IF f \in DOMAIN req THEN req[f] ELSE d[f]]

-----------------------------------------------------------------------------
(* The key.  A version compares for an update, the place in `written` is    *)
(* the modify_version.  ZooKeeper counts from 0 for every new node, and a   *)
(* version 0 is taken as none (`version or -1`).                            *)

NoConfig == [version |-> None, modified |-> 0]
HasConfig(s) == s.modified > 0

\* Variant: whoever writes last.
Unconditional(version) == TRUE

\* Whether a write under this version (None: any) goes through.
set_config_value(version) ==
    \/ version = None
    \/ HasConfig(store) /\ store.version = version
    \/ backend = "zookeeper" /\ version = 0 /\ HasConfig(store)

Put(d) ==
    /\ Len(written) < MaxWrites
    /\ written' = Append(written, d)
    /\ store' = [modified |-> Len(written'),
                 version |-> IF backend /= "zookeeper" THEN Len(written')
                             ELSE IF HasConfig(store) THEN store.version + 1 ELSE 0]

Fault == broken < MaxFaults /\ broken' = broken + 1

-----------------------------------------------------------------------------
(* Objects of a node.                                                       *)

Busy(n) == {dyn[n]} \cup (IF api[n].pc = "idle" THEN {} ELSE {api[n].object})
New(n) == CHOOSE o \in Object : o \notin Busy(n)
\* get_cluster: a new object in place of dcs.cluster; what nobody refers to is gone.
get_cluster(n, s, o) ==
    /\ dcs' = [dcs EXCEPT ![n] = IF HasConfig(s) THEN o ELSE 0]
    /\ heap' = [heap EXCEPT ![n] = [k \in Object |->
                    IF k = o /\ HasConfig(s) THEN [data |-> written[s.modified], modified |-> s.modified]
                    ELSE IF k \in Busy(n) THEN @[k] ELSE None]]

Boot(d, l) == _build_effective_configuration(Adjusted(d), l)

Init ==
    /\ backend \in {"zookeeper", "other"}
    /\ written = <<BootstrapDcs>>
    /\ store = [modified |-> 1, version |-> IF backend = "zookeeper" THEN 0 ELSE 1]
    /\ head \in Node
    /\ local \in [Node -> Locals]
    /\ heap = [n \in Node |-> [o \in Object |->
                    IF o = 1 THEN [data |-> Adjusted(BootstrapDcs), modified |-> 1] ELSE None]]
    /\ dcs = [n \in Node |-> 1] /\ dyn = dcs
    /\ api = [n \in Node |-> [pc |-> "idle"]] /\ ctl = [pc |-> "idle"]
    /\ main = [n \in Node |-> "idle"] /\ seen = [n \in Node |-> 1]
    /\ eff = [n \in Node |-> Boot(BootstrapDcs, local[n])]
    /\ global = [n \in Node |-> Adjusted(BootstrapDcs)]
    /\ file = [n \in Node |-> Adjusted(BootstrapDcs)]
    /\ raced = [n \in Node |-> FALSE] /\ broken = 0

-----------------------------------------------------------------------------
(* The main loop.                                                           *)

\* load_cluster_from_dcs and global_config.update: a wiped key changes no mode.
Load(n) ==
    /\ main[n] = "idle"
    /\ get_cluster(n, store, New(n))
    /\ global' = [global EXCEPT ![n] = IF HasConfig(store) THEN written[store.modified] ELSE @]
    /\ main' = [main EXCEPT ![n] = IF HasConfig(store) \/ head /= n THEN "loaded" ELSE "wiped"]
    /\ UNCHANGED <<backend, store, written, head, api, ctl, local, dyn, seen, eff, file, raced, broken>>

\* The leader writes back what it has, without a version.
Restore(n) ==
    /\ main[n] = "wiped"
    /\ Put(heap[n][dyn[n]].data)
    /\ LET o == New(n) IN
       /\ dcs' = [dcs EXCEPT ![n] = o]
       /\ heap' = [heap EXCEPT ![n][o] = [data |-> heap[n][dyn[n]].data, modified |-> Len(written')]]
    /\ main' = [main EXCEPT ![n] = "loaded"]
    /\ UNCHANGED <<backend, head, api, ctl, local, dyn, seen, eff, global, file, raced, broken>>

\* set_dynamic_configuration, reload_config and save_cache: dcs.cluster is looked
\* at again, it may be one that the API thread has read.
Apply(n) ==
    /\ main[n] = "loaded"
    /\ main' = [main EXCEPT ![n] = "idle"]
    /\ LET o == dcs[n]
           c == IF o = 0 THEN None ELSE heap[n][o]
           held == IF o = 0 THEN FALSE
                   ELSE \/ api[n].pc /= "idle" /\ api[n].object = o
                        \/ \E f \in {"cmd", "guc"} : c.data[f] /= written[c.modified][f]
       IN IF o = 0 THEN UNCHANGED <<heap, dyn, seen, eff, file, raced>>
          ELSE IF c.modified = seen[n] THEN UNCHANGED <<heap, dyn, seen, eff, file, raced>>
          ELSE
          /\ seen' = [seen EXCEPT ![n] = c.modified]
          /\ IF deep_compare(heap[n][dyn[n]].data, c.data)
             THEN UNCHANGED <<heap, dyn, eff, file, raced>>
             ELSE
             /\ heap' = [heap EXCEPT ![n][o].data = Adjusted(c.data)]
             /\ IF ~c.data.time.number THEN UNCHANGED <<dyn, eff, file, raced>>
                ELSE
                /\ dyn' = [dyn EXCEPT ![n] = o]
                /\ eff' = [eff EXCEPT ![n] = _build_effective_configuration(Adjusted(c.data), local[n])]
                /\ file' = [file EXCEPT ![n] = Adjusted(c.data)]
                /\ raced' = [raced EXCEPT ![n] = held]
    /\ UNCHANGED <<backend, store, written, head, api, ctl, local, dcs, global, broken>>

\* SIGHUP: the local file has changed.
reload_local_configuration(n) ==
    /\ main[n] = "idle"
    /\ \E l \in Locals \ {local[n]} :
        /\ local' = [local EXCEPT ![n] = l]
        /\ eff' = [eff EXCEPT ![n] = _build_effective_configuration(heap[n][dyn[n]].data, l)]
    /\ UNCHANGED <<backend, store, written, head, api, ctl, heap, dcs, dyn, main, seen, global, file, raced, broken>>

\* __init__ with _load_cache, then load_dynamic_configuration: the file has no
\* version; the key, if there is one, comes after it.
Restart(n) ==
    /\ Fault
    /\ LET key == HasConfig(store)
           d == written[store.modified]
           same == deep_compare(file[n], d)
           use == IF key /\ d.time.number THEN d ELSE file[n]
       IN /\ seen' = [seen EXCEPT ![n] = IF key THEN store.modified ELSE 0]
          /\ heap' = [heap EXCEPT ![n] = [o \in Object |->
                        IF o = 1 THEN [data |-> Adjusted(use), modified |-> IF key /\ ~same THEN store.modified ELSE 0]
                        ELSE None]]
          /\ dcs' = [dcs EXCEPT ![n] = IF key THEN 1 ELSE 0]
          /\ dyn' = [dyn EXCEPT ![n] = 1]
          /\ eff' = [eff EXCEPT ![n] = Boot(use, local[n])]
          /\ file' = [file EXCEPT ![n] = Adjusted(use)]
          /\ global' = [global EXCEPT ![n] = IF key THEN d ELSE Adjusted(use)]
    /\ main' = [main EXCEPT ![n] = "idle"]
    /\ api' = [api EXCEPT ![n] = [pc |-> "idle"]]
    /\ raced' = [raced EXCEPT ![n] = FALSE]
    /\ UNCHANGED <<backend, store, written, head, ctl, local>>

-----------------------------------------------------------------------------
(* The writers.                                                             *)

\* do_PATCH_config reads the key (503 if it is wiped) and copies the top level ..
PatchRead(n) ==
    /\ api[n].pc = "idle" /\ Len(written) < MaxWrites
    /\ LET o == New(n) IN
       /\ get_cluster(n, store, o)
       /\ IF ~HasConfig(store) THEN UNCHANGED api
          ELSE \E req \in Request :
            api' = [api EXCEPT ![n] = [pc |-> "read", object |-> o, req |-> req, version |-> store.version,
                                       top |-> written[store.modified].time]]
    /\ UNCHANGED <<backend, store, written, head, ctl, local, dyn, main, seen, eff, global, file, raced, broken>>

PatchData(n) == [heap[n][api[n].object].data EXCEPT !.time = api[n].top]

\* .. applies the request to the copy, whose nested section is that of the object; ..
PatchApply(n) ==
    /\ api[n].pc = "read"
    /\ LET a == api[n]
           d == patch_config(PatchData(n), a.req)
       IN IF d = PatchData(n)
          THEN api' = [api EXCEPT ![n] = [pc |-> "idle"]] /\ UNCHANGED heap
          ELSE /\ api' = [api EXCEPT ![n].pc = "patched", ![n].top = d.time]
               /\ heap' = [heap EXCEPT ![n][a.object].data.cmd = d.cmd, ![n][a.object].data.guc = d.guc]
    /\ UNCHANGED <<backend, store, written, head, ctl, local, dcs, dyn, main, seen, eff, global, file, raced, broken>>

\* .. and writes it under the version read: 200, 409 for a conflict, or a failure.
PatchWrite(n) ==
    /\ api[n].pc = "patched"
    /\ api' = [api EXCEPT ![n] = [pc |-> "idle"]]
    /\ \/ set_config_value(api[n].version) /\ Put(PatchData(n)) /\ UNCHANGED broken
       \/ ~set_config_value(api[n].version) /\ UNCHANGED <<store, written, broken>>
       \/ Fault /\ UNCHANGED <<store, written>>
    /\ UNCHANGED <<backend, head, ctl, local, node>>

\* do_PUT_config replaces the whole, whatever the version.
do_PUT_config(n) ==
    /\ api[n].pc = "idle"
    /\ get_cluster(n, store, New(n))
    /\ \E req \in Request :
        LET d == patch_config(BootstrapDcs, req) IN
        /\ ~(IF HasConfig(store) THEN deep_compare(d, written[store.modified]) ELSE FALSE)
        /\ Put(d)
    /\ UNCHANGED <<backend, head, api, ctl, local, dyn, main, seen, eff, global, file, raced, broken>>

\* patronictl edit-config: a deep copy.
edit_config ==
    /\ ctl.pc = "idle" /\ HasConfig(store) /\ Len(written) < MaxWrites
    /\ \E req \in Request :
        LET d == patch_config(written[store.modified], req) IN
        /\ d /= written[store.modified]
        /\ ctl' = [pc |-> "edit", version |-> store.version, data |-> d, req |-> req]
    /\ UNCHANGED <<backend, store, written, head, node, api, local, broken>>

EditWrite ==
    /\ ctl.pc = "edit"
    /\ ctl' = [pc |-> "idle"]
    /\ IF set_config_value(ctl.version) THEN Put(ctl.data) ELSE UNCHANGED <<store, written>>
    /\ UNCHANGED <<backend, head, node, api, local, broken>>

-----------------------------------------------------------------------------
(* The environment.                                                         *)

Wipe ==
    /\ HasConfig(store) /\ Fault
    /\ store' = NoConfig
    /\ UNCHANGED <<backend, written, head, node, api, ctl, local>>

Failover ==
    /\ \E n \in Node \ {head} : head' = n
    /\ UNCHANGED <<backend, store, written, node, api, ctl, local, broken>>

Next ==
    \/ edit_config \/ EditWrite \/ Wipe \/ Failover
    \/ \E n \in Node :
        \/ Load(n) \/ Restore(n) \/ Apply(n) \/ reload_local_configuration(n) \/ Restart(n)
        \/ PatchRead(n) \/ PatchApply(n) \/ PatchWrite(n) \/ do_PUT_config(n)

Spec == Init /\ [][Next]_vars

-----------------------------------------------------------------------------
(* What the configuration of PatroniConfig has to satisfy. *)

\* The rule that the leader key's ttl rests on, and its minima.
Sound(t) ==
    /\ t.loop_wait >= 1 /\ t.retry_timeout >= 3 /\ t.ttl >= 20
    /\ t.loop_wait + 2 * t.retry_timeout <= t.ttl

\* Types; no node ever runs with timeouts that break the rule, and adjusting
\* them again changes nothing.
ConfigTypeOK ==
    /\ HasConfig(store) => store.modified \in 1 .. Len(written)
    /\ head \in Node /\ broken \in 0 .. MaxFaults
    /\ \A n \in Node :
        /\ dyn[n] \in Object /\ heap[n][dyn[n]] /= None
        /\ dcs[n] /= 0 => heap[n][dcs[n]] /= None
        /\ api[n].pc \in {"idle", "read", "patched"} /\ main[n] \in {"idle", "loaded", "wiped"}
        /\ seen[n] \in 0 .. Len(written)
        /\ eff[n].cmd \in Value /\ eff[n].guc \in Value
        /\ Sound(eff[n].time) /\ _validate_and_adjust_timeouts(eff[n].time) = eff[n].time

\* A node that has seen a version runs with it, adjusted: command line options
\* as the key says, whatever its own file says, other parameters as the file
\* says.  Not so if the version could not be applied (it is not tried again),
\* and if the main loop met an object that a PATCH handler had changed, or
\* changes later: the request may have failed.
RunsWhatItHasSeen == \A n \in Node :
    seen[n] > 0 /\ ~raced[n] /\ written[seen[n]].time.number
    => LET d == written[seen[n]]
       IN /\ eff[n].time = _validate_and_adjust_timeouts(d.time)
          /\ eff[n].cmd = IF d.cmd = Invalid THEN 0 ELSE d.cmd
          /\ eff[n].guc = IF local[n].guc = None THEN d.guc ELSE local[n].guc

\* A PATCH or an edit-config that is acknowledged changes what was asked for and
\* nothing that somebody else has written since it read the key.  Not so in
\* ZooKeeper for the first version of a key, and for a key that was wiped and
\* written again: its versions come again.
Untouched(new, old, req) == \A f \in DOMAIN old \ (DOMAIN req \cup {"time"}) : new[f] = old[f]
Repeats(version) == backend = "zookeeper" /\ (version = 0 \/ broken > 0)
UndoesNothing ==
    /\ \A n \in Node :
        api[n].pc = "patched" /\ api'[n].pc = "idle" /\ written' /= written /\ ~Repeats(api[n].version)
        => HasConfig(store) /\ Untouched(written'[Len(written')], written[store.modified], api[n].req)
    /\ ctl.pc = "edit" /\ ctl'.pc = "idle" /\ written' /= written /\ ~Repeats(ctl.version)
        => HasConfig(store) /\ Untouched(written'[Len(written')], written[store.modified], ctl.req)
NothingUndone == [][UndoesNothing]_vars

\* What is in the key is what nodes run with.
ConfigInv == ConfigTypeOK /\ RunsWhatItHasSeen
ConfigSafe == []ConfigInv /\ NothingUndone
=============================================================================
