----------------------------- MODULE MCPatroniCluster -----------------------------
(***************************************************************************)
(* One run for the parts of Patroni whose instances come to an end.  They   *)
(* share no state: `part` says which of them a behaviour is about.          *)
(* PatroniSync, PatroniPostmaster, PatroniCallbacks, PatroniWatch and       *)
(* PatroniSlots have their own variables; x1, x2 ... are those of the other *)
(* parts, in the order in which each declares them.                        *)
(***************************************************************************)
EXTENDS Integers, TLC, PatroniSync, PatroniPostmaster, PatroniCallbacks, PatroniWatch, PatroniSlots

CONSTANTS n1, na, nb, ma, mb, s1, s2, s3, s4
VARIABLES part, x1, x2, x3, x4, x5, x6, x7, x8, x9, x10, x11, x12, x13, x14, x15, x16, x17, x18, x19

Defaults == [loop_wait |-> 10, retry_timeout |-> 10, ttl |-> 30, number |-> TRUE]
TooLong == [loop_wait |-> 0, retry_timeout |-> 12, ttl |-> 10, number |-> TRUE]
NoNumber == [loop_wait |-> 10, retry_timeout |-> 10, ttl |-> 30, number |-> FALSE]

Config == INSTANCE PatroniConfig
    WITH None <- Unset, Node <- {n1}, MaxWrites <- 3, MaxFaults <- 1,
         Times <- {Defaults, TooLong, NoNumber}, Request <- [time : {TooLong, NoNumber}] \cup [cmd : {2}] \cup [guc : {1}],
         Locals <- {[cmd |-> Unset, guc |-> Unset], [cmd |-> 1, guc |-> 1]},
         backend <- x1, store <- x2, written <- x3, head <- x4, heap <- x5, dcs <- x6, dyn <- x7, api <- x8,
         ctl <- x9, main <- x10, seen <- x11, eff <- x12, global <- x13, file <- x14, local <- x15,
         raced <- x16, broken <- x17
\* In tenths of a second, with delays of 0.1, 0.2, 0.4, 0.8, 1 s, each 0.8 s longer, and a
\* read timeout of 3 s: less than a second for each of four servers.
Client == INSTANCE PatroniClient
    WITH Server <- {s1, s2, s3, s4}, Hosts <- {s1}, Clusters <- {{s1}, {s2}, {s1, s2}, {s1, s2, s3}, {s1, s2, s3, s4}},
         Second <- 10, Read <- 30, Delays <- <<1, 2, 4, 8, 10>>, Jitter <- {8}, MaxFaults <- <<3, 2, 1, 0>>,
         cond <- x1, members <- x2, machines <- x3, base <- x4, reload <- x5, old <- x6, pc <- x7,
         known <- x8, list <- x9, total <- x10, after <- x11, failed <- x12, retry <- x13, delay <- x14,
         clock <- x15, refreshing <- x16, leaderless <- x17, reach <- x18, faults <- x19

\* x1 ... x17 and x18, x19 stand for nothing in a part.
NoneTo17 == /\ x1 = 0 /\ x2 = 0 /\ x3 = 0 /\ x4 = 0 /\ x5 = 0 /\ x6 = 0 /\ x7 = 0 /\ x8 = 0 /\ x9 = 0 /\ x10 = 0
            /\ x11 = 0 /\ x12 = 0 /\ x13 = 0 /\ x14 = 0 /\ x15 = 0 /\ x16 = 0 /\ x17 = 0
NoneFrom18 == x18 = 0 /\ x19 = 0

\* The parts with variables of their own are in an initial state all the time that
\* another part is looked at.
ClusterInit ==
    /\ \/ part \in {"sync", "postmaster", "callbacks", "watch", "slots"} /\ NoneTo17 /\ NoneFrom18
       \/ part = "config" /\ Config!Init /\ NoneFrom18
       \/ part = "client" /\ Client!Init
    /\ Init /\ key = n1 /\ PostmasterInit /\ CallbacksInit /\ WatchInit /\ SlotsInit /\ leader = ma
    /\ part /= "callbacks" => standby
    /\ part /= "watch" => backend = "etcd3"
partVars == <<x1, x2, x3, x4, x5, x6, x7, x8, x9, x10, x11, x12, x13, x14, x15, x16, x17, x18, x19>>
PartNext ==
    \/ part = "config" /\ Config!Next /\ UNCHANGED <<x18, x19>>
    \/ part = "client" /\ Client!Next
ClusterNext ==
    /\ UNCHANGED part
    /\ \/ part = "sync" /\ Next /\ UNCHANGED <<partVars, postmasterVars, callbacksVars, watchVars, slotsVars>>
       \/ part = "postmaster" /\ PostmasterNext /\ UNCHANGED <<partVars, vars, callbacksVars, watchVars, slotsVars>>
       \/ part = "callbacks" /\ CallbacksNext /\ UNCHANGED <<partVars, vars, postmasterVars, watchVars, slotsVars>>
       \/ part = "watch" /\ WatchNext /\ UNCHANGED <<partVars, vars, postmasterVars, callbacksVars, slotsVars>>
       \/ part = "slots" /\ SlotsNext /\ UNCHANGED <<partVars, vars, postmasterVars, callbacksVars, watchVars>>
       \/ PartNext /\ UNCHANGED <<vars, postmasterVars, callbacksVars, watchVars, slotsVars>>
clusterVars == <<part, partVars, vars, postmasterVars, callbacksVars, watchVars, slotsVars>>

ASSUME SyncAssumption == PatroniSyncAssumption
ClusterSpec == ClusterInit /\ [][ClusterNext]_clusterVars
\* The nodes of PatroniSync but its first primary are alike, and so are the backends
\* of PatroniPostmaster.
Symmetry == Permutations({na, nb})

-----------------------------------------------------------------------------
\* A node runs with what it has read of /config, adjusted to the rule for ttl, and an
\* acknowledged change undoes no other one (PATCH /config, edit-config, reload).
ConfigSafe == /\ [](part = "config" => Config!ConfigInv)
              /\ [][part = "config" => Config!UndoesNothing]_clusterVars

\* A call to etcd fails only if no known server can answer, and takes no longer than
\* the number of servers and retry_timeout allow for.
ClientSafe == part = "client" => Client!ClientSafe
=============================================================================
