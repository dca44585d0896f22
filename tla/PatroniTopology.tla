----------------------------- MODULE PatroniTopology -----------------------------
(***************************************************************************)
(* Who follows whom, which replication slots a node keeps for that, and    *)
(* which nodes must send hot_standby_feedback: functions of the cluster as *)
(* a node reads it (members, leader, tags), evaluated by every node on its *)
(* own.  The cluster changes under them: members join and leave, operators *)
(* change tags, the leader changes.                                        *)
(***************************************************************************)
EXTENDS Naturals, FiniteSets

CONSTANTS
    Name,           \* all nodes that may be members
    SlotName,       \* slot_name_from_member_name; names may share a slot name
    MaxTags,        \* bound: tags set on all members
    None

VARIABLES
    members,
    leader,
    tags,           \* replicatefrom, nostream and nofailover of every node
    logical         \* a permanent logical slot is configured

vars == <<members, leader, tags, logical>>

NoTags == [replicatefrom |-> None, nostream |-> FALSE, nofailover |-> FALSE]
Tags == [replicatefrom : Name \cup {None}, nostream : BOOLEAN, nofailover : BOOLEAN]
Permanent == "logical slot"

Init ==
    /\ members = Name /\ leader \in Name
    /\ tags = [n \in Name |-> NoTags]
    /\ logical = FALSE

-----------------------------------------------------------------------------

\* A member, or the leader in its place.
get_member(m) == IF m \in members THEN m ELSE leader

_get_node_to_follow(n) ==
    LET from == tags[n].replicatefrom
        target == IF from /= None /\ from /= n THEN get_member(from) ELSE leader
    IN IF tags[n].nostream \/ target = n THEN None ELSE target

\* The leader also keeps slots for those whose source is not there; another
\* node for those that name it, except for the leader.
_get_members_slots(n) ==
    LET Streaming == {m \in members \ {n} : ~tags[m].nostream}
        From(m) == tags[m].replicatefrom
        Mine == IF n = leader THEN {m \in Streaming : From(m) \in {None, n} \/ From(m) \notin members}
                ELSE {m \in Streaming : From(m) = n /\ m /= leader}
    IN {SlotName[m] : m \in Mine}

\* The walk along replicatefrom, from the name n and the tags of m: the last node
\* of it, None for a node that does not stream or a circle.
Walk[n \in Name, m \in Name, seen \in SUBSET Name] ==
    LET from == tags[m].replicatefrom
    IN IF tags[m].nostream THEN None
       ELSE IF from = None \/ from = n \/ from \notin members THEN n
       ELSE IF from \in seen THEN None
       ELSE Walk[from, from, seen \cup {from}]

\* Variant: the slot of the node itself, whoever is in between.
OwnSlot(n, m) == SlotName[n]

get_slot_name_on_primary(n, m) ==
    LET last == Walk[n, m, {n}] IN IF last = None THEN None ELSE SlotName[last]

\* What node n computes for m, itself or another member.  No permanent slots for
\* a member that may not be promoted, no logical ones for one that sends no
\* feedback: but the walk starts at the name of n, whoever m is, and ends there
\* if m replicates from n through somebody else.
_get_permanent_slots(n, m) ==
    IF logical /\ ~tags[m].nofailover /\ get_slot_name_on_primary(n, m) /= None THEN {Permanent} ELSE {}

\* Slots of members come before permanent ones of the same name.
get_replication_slots(n, m) == _get_members_slots(m) \cup _get_permanent_slots(n, m)
_has_permanent_logical_slots(n, m) == Permanent \in get_replication_slots(n, m)

\* The member m, or one that replicates from it, has logical slots, as n sees it.
Enforces[n \in Name, m \in Name, depth \in 0 .. Cardinality(Name)] ==
    \/ _has_permanent_logical_slots(n, m)
    \/ /\ depth > 0 /\ get_slot_name_on_primary(m, m) /= None
       /\ \E k \in members : k /= leader /\ tags[k].replicatefrom = m
            /\ (IF depth > 0 THEN Enforces[n, k, depth - 1] ELSE FALSE)
should_enforce_hot_standby_feedback(n) == Enforces[n, n, Cardinality(Name)]

-----------------------------------------------------------------------------
(* The environment.                                                         *)

Retag(n) ==
    /\ n \in members
    /\ \/ \E m \in Name \cup {None} : tags' = [tags EXCEPT ![n].replicatefrom = m]
       \/ tags' = [tags EXCEPT ![n].nostream = ~@]
       \/ tags' = [tags EXCEPT ![n].nofailover = ~@]
    /\ Cardinality({m \in Name : tags'[m].replicatefrom /= None}) + Cardinality({m \in Name : tags'[m].nostream})
        + Cardinality({m \in Name : tags'[m].nofailover}) <= MaxTags
    /\ UNCHANGED <<members, leader, logical>>

\* The tags of a node that is no member mean nothing: those of its file come next.
Leave(n) ==
    /\ n /= leader /\ n \in members
    /\ members' = members \ {n} /\ tags' = [tags EXCEPT ![n] = NoTags]
    /\ UNCHANGED <<leader, logical>>

Join(n) ==
    /\ n \notin members
    /\ members' = members \cup {n} /\ UNCHANGED <<leader, tags, logical>>

Failover(n) ==
    /\ n \in members \ {leader}
    /\ leader' = n
    /\ UNCHANGED <<members, tags, logical>>

Configure == logical' = ~logical /\ UNCHANGED <<members, leader, tags>>

Next == Configure \/ \E n \in Name : Retag(n) \/ Leave(n) \/ Join(n) \/ Failover(n)

Spec == Init /\ [][Next]_vars

-----------------------------------------------------------------------------
(* What the functions of PatroniTopology have to agree on. *)

\* Types; a member streams from a member.
TopologyTypeOK ==
    /\ members \subseteq Name /\ leader \in members
    /\ tags \in [Name -> Tags]
    /\ logical \in BOOLEAN
    /\ \A n \in members : _get_node_to_follow(n) \in members \cup {None}

\* _get_node_to_follow and _get_members_slots are evaluated by different nodes
\* on different tags: the node that a member follows has to keep its slot,
\* whoever is the leader and whoever is gone.  Not so for a member that names
\* itself, which follows the leader.
SlotWhereItStreams == \A n \in members \ {leader} :
    _get_node_to_follow(n) /= None /\ tags[n].replicatefrom /= n
    => SlotName[n] \in get_replication_slots(_get_node_to_follow(n), _get_node_to_follow(n))

\* A node with a logical slot, and every node through which its feedback goes
\* to the leader, has hot_standby_feedback on.  Not so for a node that may not be
\* promoted if the one below it may not either: it does not see the slot beyond.
Follows[n \in Name, depth \in 0 .. Cardinality(Name)] ==
    IF depth = 0 THEN {} ELSE
    LET next == _get_node_to_follow(n)
    IN IF n = leader \/ next = None THEN {n} ELSE {n} \cup Follows[next, depth - 1]
Way(n) == Follows[n, Cardinality(Name)]
Hidden(m, n) == /\ m /= n /\ tags[m].nofailover
                /\ \E k \in Way(n) \ {n} : _get_node_to_follow(k) = m /\ tags[k].nofailover
FeedbackGoesUp == \A n \in members :
    _has_permanent_logical_slots(n, n) /\ leader \in Way(n)
    => \A m \in Way(n) \ {leader} : should_enforce_hot_standby_feedback(m) \/ Hidden(m, n)

\* get_slot_name_on_primary: "the slot name on the primary that is in use for
\* physical replication on this node" is the name of a slot that the primary
\* keeps, wherever the walk ends.  Not so if the last node names the leader, or
\* itself: then the walk goes on to the leader, which keeps no slot for itself.
NamesLeader(n) == tags[n].replicatefrom \in {leader, n}
SlotIsOnPrimary == \A n \in members \ {leader} :
    get_slot_name_on_primary(n, n) /= None /\ ~(\E m \in Way(n) \ {leader} : NamesLeader(m))
    => get_slot_name_on_primary(n, n) \in get_replication_slots(leader, leader)

\* The rules of one node and those of another fit together.
TopologySafe == TopologyTypeOK /\ SlotWhereItStreams /\ FeedbackGoesUp /\ SlotIsOnPrimary
=============================================================================
