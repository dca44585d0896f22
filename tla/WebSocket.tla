------------------------------- MODULE WebSocket -------------------------------
(***************************************************************************)
(* The delivery of feed events over WebSocket connections: the map of      *)
(* peers, one RabbitMQ queue and one consumer tag per user, and the        *)
(* watchdog that removes broken connections and their queues.              *)
(*                                                                         *)
(*   handle_connection   one task per connection                           *)
(*   WSConsumer          one task per registered consumer                  *)
(*   watchdog            remove_disconnected_peers_and_queues, in a loop   *)
(*                                                                         *)
(* All of them, and the FeedConsumer, share one channel.  A method the     *)
(* broker refuses closes it and every consumer on it is gone; the next use *)
(* opens another one.  The tasks use the channel under a lock they hold    *)
(* for the whole operation, so each operation is one step.                 *)
(***************************************************************************)
EXTENDS Naturals, Sequences, Functions

CONSTANTS
    User,
    Conn,           \* connections, each with an address of its own
    UserOf,         \* the user_id a connection sends first
    Slow,           \* may registering a connection take longer than 5 seconds?
    MaxEvents       \* bound: events published for one user

None == "none"

ASSUME WebSocketAssumption ==
    /\ UserOf \in [Conn -> User]
    /\ Slow \in BOOLEAN
    /\ MaxEvents \in Nat
    /\ {None, "free", "watchdog"} \intersect Conn = {}

VARIABLES
    conn,           \* the TCP connection, as the process may use it
    handler,        \* where handle_connection is
    peers,          \* WS_STATE, the map of peers: who is in it
    old,            \* those of them that were inserted 5 seconds ago
    lock,           \* who holds the lock of the map
    watchdog,
    queue,          \* the queue of each user
    msgs,           \* what is in it and not delivered
    unacked,        \* delivered and not acknowledged
    tag,            \* the connection whose consumer has the tag of the user
    task,           \* the WSConsumer of a connection
    buffer,         \* what it has got and not handled
    feedConsumer,   \* is the FeedConsumer registered on the channel?
    published,      \* history: number of events published for each user
    received,       \* history: what each client has got
    due,            \* history: events published while the client was connected
    torn,           \* history: users who lost their queue while connected
    midway          \* history: was a queue deleted while a handler was about to use it?

broker == <<queue, msgs, unacked, tag, feedConsumer>>
tasks == <<task, buffer>>
log == <<published, received, due>>
history == <<log, torn, midway>>
vars == <<conn, handler, peers, old, lock, watchdog, broker, tasks, history>>

\* "closed": the client has gone; the next send still succeeds and is answered
\* by a reset, after which sending fails ("reset").
ConnState == {"none", "open", "closed", "reset"}

\* "stale": its channel is closed, so its next acknowledgement panics.
TaskState == {"none", "live", "acking", "stale", "dead"}

Asleep == [pc |-> "sleep"]

Init ==
    /\ conn = [c \in Conn |-> "none"] /\ handler = [c \in Conn |-> "none"]
    /\ peers = {} /\ old = {} /\ lock = "free" /\ watchdog = Asleep
    /\ queue = [u \in User |-> "absent"]
    /\ msgs = [u \in User |-> <<>>] /\ unacked = [u \in User |-> <<>>]
    /\ tag = [u \in User |-> None]
    /\ task = [c \in Conn |-> "none"] /\ buffer = [c \in Conn |-> <<>>]
    /\ feedConsumer = TRUE
    /\ published = [u \in User |-> 0]
    /\ received = [c \in Conn |-> <<>>] /\ due = {} /\ torn = {} /\ midway = FALSE

-----------------------------------------------------------------------------
(* Clients.                                                                 *)

Close(c) ==
    /\ conn[c] = "open"
    /\ conn' = [conn EXCEPT ![c] = "closed"]
    /\ UNCHANGED <<handler, peers, old, lock, watchdog, broker, tasks, history>>

\* For each follower of an author publish_message sends the event to the
\* exchange with the routing key of the follower; unbound, it is dropped.
publish_message(u) ==
    /\ published[u] < MaxEvents
    /\ published' = [published EXCEPT ![u] = @ + 1]
    /\ msgs' = IF queue[u] = "bound" THEN [msgs EXCEPT ![u] = Append(@, published'[u])]
               ELSE msgs
    /\ due' = due \union {<<c, published'[u]>> :
                c \in {c \in Conn : UserOf[c] = u /\ conn[c] = "open" /\ handler[c] = "done"}}
    /\ UNCHANGED <<conn, handler, peers, old, lock, watchdog,
                   queue, unacked, tag, feedConsumer, tasks, received, torn, midway>>

-----------------------------------------------------------------------------
(* handle_connection.                                                       *)

\* The handshake and the first message of the client are behind it.
InsertPeer(c) ==
    /\ conn[c] = "none" /\ lock = "free"
    /\ conn' = [conn EXCEPT ![c] = "open"]
    /\ peers' = peers \union {c}
    /\ handler' = [handler EXCEPT ![c] = "declare"]
    /\ UNCHANGED <<old, lock, watchdog, broker, tasks, history>>

create_queue(c) ==
    /\ handler[c] = "declare"
    /\ queue' = [queue EXCEPT ![UserOf[c]] = IF @ = "absent" THEN "declared" ELSE @]
    /\ handler' = [handler EXCEPT ![c] = "bind"]
    /\ UNCHANGED <<conn, peers, old, lock, watchdog, msgs, unacked, tag, feedConsumer,
                   tasks, history>>

\* The broker closes the channel and puts back what was not acknowledged.
ChannelCloses ==
    /\ tag' = [u \in User |-> None]
    /\ msgs' = [u \in User |-> unacked[u] \o msgs[u]]
    /\ unacked' = [u \in User |-> <<>>]
    /\ feedConsumer' = FALSE
    /\ task' = [c \in Conn |-> CASE task[c] = "live" -> "stale"
                                 [] task[c] = "acking" -> "dead"
                                 [] OTHER -> task[c]]

\* Binding, or consuming from, a queue that is not there is an error of the
\* channel; the handler logs it and goes on.
bind_queue(c) ==
    /\ handler[c] = "bind"
    /\ handler' = [handler EXCEPT ![c] = "consume"]
    /\ \/ /\ queue[UserOf[c]] /= "absent"
          /\ queue' = [queue EXCEPT ![UserOf[c]] = "bound"]
          /\ UNCHANGED <<msgs, unacked, tag, feedConsumer, task>>
       \/ /\ queue[UserOf[c]] = "absent"
          /\ ChannelCloses
          /\ UNCHANGED queue
    /\ UNCHANGED <<conn, peers, old, lock, watchdog, buffer, history>>

\* Mutant: the tag is cancelled after the registration, not before it.
ConsumeThenCancel(c) ==
    /\ handler[c] = "consume"
    /\ handler' = [handler EXCEPT ![c] = "done"]
    /\ \/ /\ queue[UserOf[c]] /= "absent"
          /\ tag' = [tag EXCEPT ![UserOf[c]] = None]
          /\ task' = [task EXCEPT ![c] = "live"]
          /\ UNCHANGED <<msgs, unacked, feedConsumer>>
       \/ /\ queue[UserOf[c]] = "absent"
          /\ ChannelCloses
    /\ UNCHANGED <<conn, peers, old, lock, watchdog, queue, buffer, history>>

\* remove_consumer cancels whoever has the tag of the user.
add_consumer(c) ==
    /\ handler[c] = "consume"
    /\ handler' = [handler EXCEPT ![c] = "done"]
    /\ \/ /\ queue[UserOf[c]] /= "absent"
          /\ tag' = [tag EXCEPT ![UserOf[c]] = c]
          /\ task' = [task EXCEPT ![c] = "live"]
          /\ UNCHANGED <<msgs, unacked, feedConsumer>>
       \/ /\ queue[UserOf[c]] = "absent"
          /\ ChannelCloses
    /\ UNCHANGED <<conn, peers, old, lock, watchdog, queue, buffer, history>>

-----------------------------------------------------------------------------
(* WSConsumer.                                                              *)

\* The broker delivers at once to a registered consumer (no prefetch limit).
Deliver(u) ==
    /\ tag[u] /= None
    /\ msgs[u] /= <<>>
    /\ buffer' = [buffer EXCEPT ![tag[u]] = Append(@, Head(msgs[u]))]
    /\ unacked' = [unacked EXCEPT ![u] = Append(@, Head(msgs[u]))]
    /\ msgs' = [msgs EXCEPT ![u] = Tail(@)]
    /\ UNCHANGED <<conn, handler, peers, old, lock, watchdog, queue, tag, feedConsumer, task, history>>

\* A peer that is no longer in the map is unwrapped all the same.
LockPeer(c) ==
    /\ task[c] \in {"live", "stale"}
    /\ buffer[c] /= <<>>
    /\ lock = "free"
    /\ \/ c \in peers /\ lock' = c /\ UNCHANGED task
       \/ c \notin peers /\ task' = [task EXCEPT ![c] = "dead"] /\ UNCHANGED lock
    /\ UNCHANGED <<conn, handler, peers, old, watchdog, broker, buffer, history>>

\* A send that fails is logged, and then the flush is unwrapped.
post_event_message(c) ==
    /\ lock = c
    /\ lock' = "free"
    /\ received' = IF conn[c] = "open" THEN [received EXCEPT ![c] = Append(@, Head(buffer[c]))]
                   ELSE received
    /\ conn' = [conn EXCEPT ![c] = IF @ = "closed" THEN "reset" ELSE @]
    /\ task' = [task EXCEPT ![c] = IF conn[c] /= "reset" /\ @ = "live" THEN "acking" ELSE "dead"]
    /\ UNCHANGED <<handler, peers, old, watchdog, broker, buffer, published, due, torn, midway>>

\* s without the delivery of e, if that is still in it.
Without(s, e) ==
    IF \E i \in DOMAIN s : s[i] = e
    THEN LET i == CHOOSE i \in DOMAIN s : s[i] = e
         IN  [k \in 1..(Len(s) - 1) |-> IF k < i THEN s[k] ELSE s[k + 1]]
    ELSE s

\* Mutant: a negative acknowledgement, which puts the event back.
basic_nack(c) ==
    /\ task[c] = "acking"
    /\ LET u == UserOf[c] IN
        /\ unacked' = [unacked EXCEPT ![u] = Without(@, Head(buffer[c]))]
        /\ msgs' = [msgs EXCEPT ![u] = <<Head(buffer[c])>> \o @]
    /\ buffer' = [buffer EXCEPT ![c] = Tail(@)]
    /\ task' = [task EXCEPT ![c] = "live"]
    /\ UNCHANGED <<conn, handler, peers, old, lock, watchdog, queue, tag, feedConsumer, history>>

basic_ack(c) ==
    /\ task[c] = "acking"
    /\ unacked' = [unacked EXCEPT ![UserOf[c]] = Without(@, Head(buffer[c]))]
    /\ buffer' = [buffer EXCEPT ![c] = Tail(@)]
    /\ task' = [task EXCEPT ![c] = "live"]
    /\ UNCHANGED <<conn, handler, peers, old, lock, watchdog, queue, msgs, tag, feedConsumer, history>>

-----------------------------------------------------------------------------
(* The watchdog.  It holds the lock of the map for a whole scan and takes   *)
(* it again to remove what it has found.                                    *)

Ages(c) ==
    /\ c \in peers \ old
    /\ handler[c] = "done" \/ Slow
    /\ old' = old \union {c}
    /\ UNCHANGED <<conn, handler, peers, lock, watchdog, broker, tasks, history>>

StartScan ==
    /\ watchdog = Asleep
    /\ lock = "free"
    /\ lock' = "watchdog"
    /\ watchdog' = [pc |-> "scan", todo |-> peers, gone |-> {}]
    /\ UNCHANGED <<conn, handler, peers, old, broker, tasks, history>>

\* The messages and the consumer of a deleted queue go with it.
delete_queue(u) ==
    /\ queue' = [queue EXCEPT ![u] = "absent"]
    /\ msgs' = [msgs EXCEPT ![u] = <<>>]
    /\ unacked' = [unacked EXCEPT ![u] = <<>>]
    /\ tag' = [tag EXCEPT ![u] = None]
    /\ torn' = torn \union {v \in {u} : \E c \in peers : UserOf[c] = v /\ conn[c] = "open"}
    /\ midway' = (midway \/ \E c \in Conn : UserOf[c] = u /\ handler[c] \in {"bind", "consume"})
    /\ UNCHANGED feedConsumer

\* Mutant: the queue of a broken peer is deleted, the peer is not noted.
CheckForgetsPeer(c) ==
    /\ watchdog.pc = "scan" /\ c \in watchdog.todo
    /\ \/ /\ c \notin old \/ conn[c] /= "reset"
          /\ conn' = [conn EXCEPT ![c] = IF c \in old /\ @ = "closed" THEN "reset" ELSE @]
          /\ UNCHANGED <<broker, torn, midway>>
       \/ c \in old /\ conn[c] = "reset" /\ delete_queue(UserOf[c]) /\ UNCHANGED conn
    /\ watchdog' = [watchdog EXCEPT !.todo = @ \ {c}]
    /\ UNCHANGED <<handler, peers, old, lock, tasks, log>>

\* The queue deleted is the queue of the user, whoever consumes from it now.
CheckPeer(c) ==
    /\ watchdog.pc = "scan" /\ c \in watchdog.todo
    /\ \/ /\ c \notin old
          /\ watchdog' = [watchdog EXCEPT !.todo = @ \ {c}]
          /\ UNCHANGED <<conn, broker, torn, midway>>
       \/ /\ c \in old /\ conn[c] /= "reset"
          /\ conn' = [conn EXCEPT ![c] = IF @ = "closed" THEN "reset" ELSE @]
          /\ watchdog' = [watchdog EXCEPT !.todo = @ \ {c}]
          /\ UNCHANGED <<broker, torn, midway>>
       \/ /\ c \in old /\ conn[c] = "reset"
          /\ delete_queue(UserOf[c])
          /\ watchdog' = [watchdog EXCEPT !.todo = @ \ {c}, !.gone = @ \union {c}]
          /\ UNCHANGED conn
    /\ UNCHANGED <<handler, peers, old, lock, tasks, log>>

EndScan ==
    /\ watchdog.pc = "scan" /\ watchdog.todo = {}
    /\ lock' = "free"
    /\ watchdog' = [pc |-> "remove", gone |-> watchdog.gone]
    /\ UNCHANGED <<conn, handler, peers, old, broker, tasks, history>>

RemovePeers ==
    /\ watchdog.pc = "remove" /\ lock = "free"
    /\ peers' = peers \ watchdog.gone
    /\ old' = old \ watchdog.gone
    /\ watchdog' = Asleep
    /\ UNCHANGED <<conn, handler, lock, broker, tasks, history>>

-----------------------------------------------------------------------------

HandlerStep(c) == create_queue(c) \/ bind_queue(c) \/ add_consumer(c)

TaskStep(c) == LockPeer(c) \/ post_event_message(c) \/ basic_ack(c)

WatchdogStep == StartScan \/ (\E c \in Conn : CheckPeer(c)) \/ EndScan \/ RemovePeers

Next ==
    \/ \E c \in Conn :
        InsertPeer(c) \/ Close(c) \/ Ages(c) \/ HandlerStep(c) \/ TaskStep(c)
    \/ \E u \in User : publish_message(u) \/ Deliver(u)
    \/ WatchdogStep

Spec == Init /\ [][Next]_vars

\* Tasks are polled, time passes, the broker delivers; the lock of the map is
\* fair (futures::lock::Mutex wakes its waiters in turn), so a task that
\* waits for it while others come and go gets it.
Fairness ==
    /\ \A c \in Conn :
        /\ WF_vars(HandlerStep(c)) /\ WF_vars(Ages(c))
        /\ SF_vars(TaskStep(c))
    /\ \A u \in User : WF_vars(Deliver(u))
    /\ SF_vars(WatchdogStep)

FairSpec == Spec /\ Fairness
==============================================================================
