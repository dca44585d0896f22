----------------------------- MODULE MCPatroniServer -----------------------------
(***************************************************************************)
(* One run for the parts of a Patroni node that go on for ever.  They share *)
(* no state: `part` says which of them a behaviour is about, and the others *)
(* rest in an initial state.  x1, x2, x3 and x4 are the variables of       *)
(* PatroniTopology, or of PatroniUnits.                                    *)
(***************************************************************************)
EXTENDS Integers, TLC, PatroniHa, PatroniHealth, PatroniParameters, PatroniRecovery, PatroniCitus

CONSTANTS n1, n2, n3, n4, c1, a, b, h1, h2
VARIABLES part, x1, x2, x3, x4

\* Two of the names share a slot.  Four tags make a chain of three members below the leader, two not to be promoted.
Topology == INSTANCE PatroniTopology
    WITH None <- Unset, Name <- {n1, n2, n3, n4}, SlotName <- [n \in {n1, n2, n3, n4} |-> IF n = n3 THEN n2 ELSE n], MaxTags <- 4,
         members <- x1, leader <- x2, tags <- x3, logical <- x4
\* A coordinator and one group of workers.
OneGroup == [g \in CitusGroup |-> IF g = 0 THEN {c1} ELSE {a, b}]
\* Every unit, with fractions that come out even and others; a kB has 16 B and a second 10 ms.
Units == INSTANCE PatroniUnits
    WITH None <- Unset, Kilo <- 16, Milli <- 10, Sixty <- 6,
         Texts <- [num : {-1, 1, 3, 16, 25}, den : {1, 2, 10},
                   unit : {Unset, "TB", "GB", "MB", "kB", "B", "h", "min", "s", "ms", "us"}],
         Params <- {[vartype |-> v, mult |-> u[1], unit |-> u[2], low |-> 3, high |-> 40] :
                       v \in {"integer", "real"}, u \in {<<2, "kB">>, <<1, "MB">>, <<1, "ms">>, <<1, "min">>}},
         Blocks <- {<<16, 16>>, <<256, 16>>, <<300, 32>>, <<640, 16>>, <<640, 32>>},
         param <- x1, text <- x2, setting <- x3

partVars == <<x1, x2, x3, x4>>
\* PatroniHealth before any node has the key, which is how it rests in the other parts.
Leaderless ==
    /\ paused = FALSE /\ overdue = FALSE /\ owner = Nobody /\ ttl = 0
    /\ expiry = [n \in Member |-> 0] /\ next_run = expiry
    /\ view = [n \in Member |-> Nobody] /\ postgres = [n \in Member |-> "replica"]
    /\ ha_loop = [n \in Member |-> "sleep"]
    /\ renewed = [n \in Member |-> FALSE] /\ slow = renewed
\* PatroniCitus with no leader of the workers, likewise.
NoWorkers ==
    /\ db = Bootstrapped /\ tx = Nothing /\ serving = "primary" /\ group_leader = [g \in CitusGroup |-> c1]
    /\ cache = [g \in CitusGroup |-> Nothing] /\ tasks = <<>> /\ in_flight = Nothing /\ load = FALSE
    /\ stage = "wait" /\ hand = Nothing /\ idx = 0 /\ changed = Nothing
    /\ orphaned = FALSE /\ synced = {} /\ faults = 0
ServerInit ==
    /\ \/ part \in {"ha", "health", "parameters", "recovery", "citus"} /\ x1 = 0 /\ x2 = 0 /\ x3 = 0 /\ x4 = 0
       \/ part = "topology" /\ Topology!Init
       \/ part = "units" /\ Units!Init /\ x4 = 0
    /\ Init /\ ParametersInit /\ RecoveryInit
    /\ IF part = "health" THEN HealthInit ELSE Leaderless
    /\ IF part = "citus" THEN CitusInit ELSE NoWorkers
    /\ part /= "parameters" => goal = 1 /\ role = "primary"
    /\ part /= "recovery" => version = 14 /\ target = h1 /\ conninfo = h1
ServerNext ==
    /\ part' = part
    /\ \/ part = "ha" /\ Next /\ UNCHANGED <<partVars, healthVars, parametersVars, recoveryVars, citusVars>>
       \/ part = "health" /\ HealthNext /\ UNCHANGED <<partVars, vars, parametersVars, recoveryVars, citusVars>>
       \/ part = "parameters" /\ ParametersNext /\ UNCHANGED <<partVars, vars, healthVars, recoveryVars, citusVars>>
       \/ part = "recovery" /\ RecoveryNext /\ UNCHANGED <<partVars, vars, healthVars, parametersVars, citusVars>>
       \/ part = "citus" /\ CitusNext /\ UNCHANGED <<partVars, vars, healthVars, parametersVars, recoveryVars>>
       \/ /\ \/ part = "topology" /\ Topology!Next
             \/ part = "units" /\ Units!Next /\ UNCHANGED x4
          /\ UNCHANGED <<vars, healthVars, parametersVars, recoveryVars, citusVars>>
serverVars == <<part, partVars, vars, healthVars, parametersVars, recoveryVars, citusVars>>
ServerSpec == ServerInit /\ [][ServerNext]_serverVars

\* The workers of PatroniCitus are alike, and so are the nodes of PatroniHealth and of PatroniHa.
Symmetry == Permutations({a, b})

-----------------------------------------------------------------------------
\* A member streams from a node that keeps its slot, feedback reaches the leader, and
\* the slot a member is known by on the leader is there (get_replication_slots,
\* _get_node_to_follow, get_slot_name_on_primary).
TopologySafe == part = "topology" => Topology!TopologySafe

\* A value that Patroni wrote is not different when Postgres shows it, is in its range,
\* and is shown as it is meant.
UnitsSafe == part = "units" => Units!UnitsSafe
=============================================================================
