------------------------------ MODULE MCPatroniLead ------------------------------
(***************************************************************************)
(* One run for the bootstrap of a cluster and for the leader of one that    *)
(* exists.  The two share no state: `part` says which of them a behaviour   *)
(* is about.  PatroniBootstrap has its own variables; x1, x2 ... are those  *)
(* of PatroniHa in the order in which it declares them.                    *)
(***************************************************************************)
EXTENDS PatroniBootstrap

CONSTANTS n1, n2
VARIABLES part, x1, x2, x3, x4, x5, x6, x7, x8, x9, x10, x11, x12

Ha == INSTANCE PatroniHa
    WITH Ttl <- 2, Timeout <- 1, Failsafe <- TRUE,
         leader <- x1, age <- x2, pc <- x3, cluster <- x4, pg <- x5, promoting <- x6, watchdog <- x7,
         pinged <- x8, asked <- x9, late <- x10, unheeded <- x11, contested <- x12
haVars == <<x1, x2, x3, x4, x5, x6, x7, x8, x9, x10, x11, x12>>

\* The variables of the other part stand still: those of PatroniHa in its initial
\* state, those of PatroniBootstrap in one with the data of one cluster.
\* Both nodes race, or one of them may not lead; without data of their own also one
\* or both that only restore backups.  Those of the other part race.
Kind(n) == <<n \in nofailover, n \in configured, n \in backups>>
Racer == <<FALSE, TRUE, FALSE>>
Restorer == <<FALSE, FALSE, TRUE>>
MayNotLead == <<TRUE, TRUE, TRUE>>
Kinds == {<<Racer, Racer>>, <<Racer, MayNotLead>>} \cup
         IF own = {} THEN {<<Racer, Restorer>>, <<Restorer, Restorer>>} ELSE {}
LeadInit ==
    /\ Init /\ Ha!Init
    /\ <<Kind(n1), Kind(n2)>> \in Kinds
    /\ part \in {"bootstrap", "ha"}
    /\ part = "ha" => /\ sysid = [n \in Node |-> 1] /\ pg = [n \in Node |-> "down"]
                      /\ Kind(n1) = Racer /\ Kind(n2) = Racer
LeadNext ==
    \/ part = "bootstrap" /\ Next /\ UNCHANGED <<part, haVars>>
    \/ part = "ha" /\ Ha!Next /\ UNCHANGED <<part, vars>>

\* The fairness of each part.
all == <<vars, part, haVars>>
Goes(n) == \/ part = "bootstrap" /\ NodeStep(n) /\ UNCHANGED <<part, haVars>>
           \/ part = "ha" /\ Ha!Cycle(n) /\ UNCHANGED <<part, vars>>
Promotes(n) == part = "ha" /\ Ha!promote(n) /\ UNCHANGED <<part, vars>>
Expires == part = "bootstrap" /\ LostExpires /\ UNCHANGED <<part, haVars>>
LeadSpec == /\ LeadInit /\ [][LeadNext]_all
            /\ \A n \in Node : WF_all(Goes(n)) /\ WF_all(Promotes(n))
            /\ WF_all(Expires)

-----------------------------------------------------------------------------
\* Of two primaries the one without the leader key demotes itself
\* (process_healthy_cluster, follow, _handle_dcs_error).
SplitBrain == Ha!SplitBrain(n1, n2) \/ Ha!SplitBrain(n2, n1)
SplitBrainEnds == SplitBrain ~> ~SplitBrain
=============================================================================
