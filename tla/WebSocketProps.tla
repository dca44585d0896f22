---------------------------- MODULE WebSocketProps ----------------------------
(***************************************************************************)
(* What the delivery over WebSocket connections guarantees.                *)
(***************************************************************************)
EXTENDS WebSocket

Events == 1..MaxEvents

\* Types: who has aged or is looked at by the watchdog is a peer of the map.
TypeOK ==
    /\ conn \in [Conn -> ConnState]
    /\ handler \in [Conn -> {"none", "declare", "bind", "consume", "done"}]
    /\ peers \subseteq {c \in Conn : conn[c] /= "none"}
    /\ old \subseteq peers
    /\ lock \in {"free", "watchdog"} \union Conn
    /\ watchdog \in {Asleep} \union [pc : {"scan"}, todo : SUBSET peers, gone : SUBSET peers]
                             \union [pc : {"remove"}, gone : SUBSET peers]
    /\ queue \in [User -> {"absent", "declared", "bound"}]
    /\ msgs \in [User -> Seq(Events)]
    /\ unacked \in [User -> Seq(Events)]
    /\ tag \in [User -> Conn \union {None}]
    /\ task \in [Conn -> TaskState]
    /\ buffer \in [Conn -> Seq(Events)]
    /\ feedConsumer \in BOOLEAN
    /\ published \in [User -> 0..MaxEvents]
    /\ received \in [Conn -> Seq(Events)]
    /\ due \subseteq Conn \X Events
    /\ torn \subseteq User /\ midway \in BOOLEAN

\* A client gets no event twice and none out of order, through cancelled
\* consumers, deleted queues and redeliveries.
OnceInOrder ==
    \A c \in Conn : \A i, j \in DOMAIN received[c] : i < j => received[c][i] < received[c][j]

\* The connections share the channel with the FeedConsumer and take it away
\* only when a queue is deleted between two calls of one handle_connection.
FeedConsumerStays == feedConsumer \/ midway

\* What is published while a client is connected reaches it, unless it goes
\* away, another connection of the user takes over the consumer tag, or the
\* watchdog deletes the queue of the user for another connection of his.
Served ==
    \A c \in Conn, e \in Events :
        <<c, e>> \in due ~>
            \/ e \in Range(received[c])
            \/ conn[c] /= "open"
            \/ tag[UserOf[c]] \notin {c, None}
            \/ UserOf[c] \in torn
            \/ midway

\* "A task removes the information on disconnected connections" (line 179).
Cleaned == \A c \in Conn : conn[c] = "closed" ~> c \notin peers

\* Nothing is delivered twice or out of order, and the other consumer of the channel stays.
DeliverySafe == TypeOK /\ OnceInOrder /\ FeedConsumerStays
==============================================================================
