---------------------------- MODULE WebSocketProofs ----------------------------
(***************************************************************************)
(* The delivery to any number of users and connections, of any number of   *)
(* events.                                                                 *)
(***************************************************************************)
EXTENDS WebSocketProps, SequenceTheorems, TLAPS

USE WebSocketAssumption

Increasing(s) == \A i, j \in DOMAIN s : i < j => s[i] < s[j]

Below(s, t) == \A i \in DOMAIN s, j \in DOMAIN t : s[i] < t[j]

UpTo(s, n) == \A i \in DOMAIN s : s[i] <= n

-----------------------------------------------------------------------------
(* Sequences of events.                                                     *)

LEMMA EventsAreInt == \A e \in Events : e \in Int
  BY DEF Events

LEMMA Elements ==
  ASSUME NEW s \in Seq(Events)
  PROVE  /\ Len(s) \in Nat /\ DOMAIN s = 1..Len(s)
         /\ \A i \in DOMAIN s : s[i] \in Events /\ s[i] \in Int /\ i \in Int
  BY LenProperties, ElementOfSeq, EventsAreInt

LEMMA Empty == DOMAIN <<>> = {} /\ <<>> \in Seq(Events)
  OBVIOUS

LEMMA AppendFacts ==
  ASSUME NEW s \in Seq(Events), NEW e \in Events
  PROVE  /\ Append(s, e) \in Seq(Events) /\ Append(s, e) # <<>>
         /\ \A i \in DOMAIN Append(s, e) :
                (i \in DOMAIN s /\ Append(s, e)[i] = s[i]) \/ Append(s, e)[i] = e
         /\ s # <<>> => \A i \in DOMAIN Append(s, e) : i \notin DOMAIN s => i # 1
         /\ Increasing(s) /\ (\A i \in DOMAIN s : s[i] < e) => Increasing(Append(s, e))
  <1>1. /\ Append(s, e) \in Seq(Events) /\ Append(s, e) # <<>> /\ Len(Append(s, e)) = Len(s) + 1
        /\ \A i \in 1..Len(s) : Append(s, e)[i] = s[i]
        /\ Append(s, e)[Len(s) + 1] = e
    BY AppendProperties
  <1>2. /\ Len(s) \in Nat /\ DOMAIN s = 1..Len(s) /\ DOMAIN Append(s, e) = 1..(Len(s) + 1)
    BY <1>1, LenProperties
  <1> DEFINE t == Append(s, e)
  <1> HIDE DEF t
  <1>3. \A i \in DOMAIN t : (i \in DOMAIN s /\ t[i] = s[i]) \/ (i = Len(s) + 1 /\ t[i] = e)
    BY <1>1, <1>2 DEF t
  <1>4. s # <<>> => Len(s) # 0
    BY EmptySeq
  <1>5. ASSUME Increasing(s), \A i \in DOMAIN s : s[i] < e
        PROVE  Increasing(t)
    <2> SUFFICES ASSUME NEW i \in DOMAIN t, NEW j \in DOMAIN t, i < j
                 PROVE  t[i] < t[j]
      BY DEF Increasing
    <2>1. i \in DOMAIN s /\ t[i] = s[i]
      BY <1>2, <1>3 DEF t
    <2> QED BY <1>3, <1>5, <2>1 DEF Increasing
  <1> QED BY <1>1, <1>2, <1>3, <1>4, <1>5 DEF t

LEMMA TailFacts ==
  ASSUME NEW s \in Seq(Events), s # <<>>
  PROVE  /\ 1 \in DOMAIN s /\ Head(s) = s[1] /\ Head(s) \in Events /\ Tail(s) \in Seq(Events)
         /\ \A i \in DOMAIN Tail(s) : i + 1 \in DOMAIN s /\ i + 1 # 1 /\ Tail(s)[i] = s[i + 1]
         /\ Increasing(s) => Increasing(Tail(s)) /\ \A i \in DOMAIN Tail(s) : Head(s) < Tail(s)[i]
  <1>1. Len(s) \in Nat \ {0} /\ DOMAIN s = 1..Len(s)
    BY EmptySeq, LenProperties
  <1>2. /\ Head(s) \in Events /\ Tail(s) \in Seq(Events) /\ Len(Tail(s)) = Len(s) - 1
        /\ \A i \in 1..Len(Tail(s)) : Tail(s)[i] = s[i + 1]
    BY HeadTailProperties
  <1>3. Head(s) = s[1]
    OBVIOUS
  <1>4. DOMAIN Tail(s) = 1..(Len(s) - 1)
    BY <1>2, LenProperties
  <1>5. \A i \in DOMAIN Tail(s) : i \in Nat \ {0} /\ i + 1 \in DOMAIN s /\ i + 1 # 1 /\ Tail(s)[i] = s[i + 1]
    BY <1>1, <1>2, <1>4
  <1>6. ASSUME Increasing(s)
        PROVE  Increasing(Tail(s)) /\ \A i \in DOMAIN Tail(s) : Head(s) < Tail(s)[i]
    <2>1. ASSUME NEW i \in DOMAIN Tail(s), NEW j \in DOMAIN Tail(s), i < j
          PROVE  Tail(s)[i] < Tail(s)[j]
      <3>1. i + 1 < j + 1
        BY <1>5, <2>1
      <3> QED BY <1>5, <1>6, <3>1 DEF Increasing
    <2>2. ASSUME NEW i \in DOMAIN Tail(s)
          PROVE  Head(s) < Tail(s)[i]
      <3>1. 1 < i + 1 /\ 1 \in DOMAIN s
        BY <1>1, <1>5
      <3> QED BY <1>3, <1>5, <1>6, <3>1 DEF Increasing
    <2> QED BY <2>1, <2>2 DEF Increasing
  <1> QED BY <1>1, <1>2, <1>3, <1>5, <1>6

LEMMA ConcatFacts ==
  ASSUME NEW s \in Seq(Events), NEW t \in Seq(Events)
  PROVE  /\ s \o t \in Seq(Events)
         /\ \A k \in DOMAIN (s \o t) : \/ \E i \in DOMAIN s : (s \o t)[k] = s[i]
                                       \/ \E j \in DOMAIN t : (s \o t)[k] = t[j]
         /\ Increasing(s) /\ Increasing(t) /\ Below(s, t) => Increasing(s \o t)
  <1> DEFINE c == s \o t
  <1>1. /\ c \in Seq(Events) /\ Len(c) = Len(s) + Len(t)
        /\ \A i \in 1..(Len(s) + Len(t)) : c[i] = IF i <= Len(s) THEN s[i] ELSE t[i - Len(s)]
    BY ConcatProperties
  <1> HIDE DEF c
  <1>2. /\ Len(s) \in Nat /\ Len(t) \in Nat /\ DOMAIN s = 1..Len(s) /\ DOMAIN t = 1..Len(t)
        /\ DOMAIN c = 1..(Len(s) + Len(t))
    BY <1>1, LenProperties
  <1>3. \A k \in DOMAIN c : \/ k <= Len(s) /\ k \in DOMAIN s /\ c[k] = s[k]
                            \/ k > Len(s) /\ k - Len(s) \in DOMAIN t /\ c[k] = t[k - Len(s)]
    BY <1>1, <1>2
  <1>4. ASSUME Increasing(s), Increasing(t), Below(s, t), NEW i \in DOMAIN c, NEW j \in DOMAIN c, i < j
        PROVE  c[i] < c[j]
    <2>0. i \in Int /\ j \in Int
      BY <1>2
    <2>1. CASE j <= Len(s)
      <3>1. i <= Len(s)
        BY <1>2, <1>4, <2>0, <2>1
      <3> QED BY <1>2, <1>3, <1>4, <2>0, <2>1, <3>1 DEF Increasing
    <2>2. CASE i > Len(s)
      <3>1. j > Len(s) /\ i - Len(s) < j - Len(s)
        BY <1>2, <1>4, <2>0, <2>2
      <3> QED BY <1>2, <1>3, <1>4, <2>0, <2>2, <3>1 DEF Increasing
    <2>3. CASE i <= Len(s) /\ j > Len(s)
      BY <1>2, <1>3, <1>4, <2>0, <2>3 DEF Below
    <2> QED BY <1>2, <2>0, <2>1, <2>2, <2>3
  <1> QED BY <1>1, <1>3, <1>4 DEF c, Increasing

LEMMA WithoutFacts ==
  ASSUME NEW s \in Seq(Events), NEW e
  PROVE  /\ Without(s, e) \in Seq(Events)
         /\ \A k \in DOMAIN Without(s, e) : \E i \in DOMAIN s : Without(s, e)[k] = s[i]
         /\ Increasing(s) => Increasing(Without(s, e))
  <1>1. CASE ~\E i \in DOMAIN s : s[i] = e
    BY <1>1 DEF Without
  <1>2. CASE \E i \in DOMAIN s : s[i] = e
    <2> DEFINE i == CHOOSE i \in DOMAIN s : s[i] = e
               At(k) == IF k < i THEN k ELSE k + 1
               t == [k \in 1..(Len(s) - 1) |-> IF k < i THEN s[k] ELSE s[k + 1]]
    <2>1. Without(s, e) = t
      BY <1>2 DEF Without
    <2>2. i \in DOMAIN s
      BY <1>2
    <2> HIDE DEF i
    <2>3. Len(s) \in Nat \ {0} /\ DOMAIN s = 1..Len(s) /\ \A m \in DOMAIN s : s[m] \in Events
      BY <2>2, Elements
    <2>4. \A k \in 1..(Len(s) - 1) : At(k) \in DOMAIN s /\ t[k] = s[At(k)]
      BY <2>2, <2>3
    <2>5. \A k, m \in 1..(Len(s) - 1) : k < m => At(k) < At(m)
      BY <2>2, <2>3
    <2> HIDE DEF At
    <2>6. t \in [1..(Len(s) - 1) -> Events] /\ Len(s) - 1 \in Nat
      BY <2>3, <2>4
    <2> HIDE DEF t
    <2>7. t \in Seq(Events) /\ DOMAIN t = 1..(Len(s) - 1)
      BY <2>6, SeqDef
    <2>8. Increasing(s) => Increasing(t)
      BY <2>4, <2>5, <2>7 DEF Increasing
    <2> QED BY <2>1, <2>4, <2>7, <2>8
  <1> QED BY <1>1, <1>2

-----------------------------------------------------------------------------
(* The inductive invariant.                                                 *)

\* What the broker has of a queue is in the order of publication: first what it has
\* delivered, then what it has not.
Broker ==
    \A u \in User :
        /\ Increasing(unacked[u]) /\ Increasing(msgs[u]) /\ Below(unacked[u], msgs[u])
        /\ UpTo(unacked[u], published[u]) /\ UpTo(msgs[u], published[u])

\* A connection registers once: before that nothing has been delivered to it.
Connections ==
    \A c \in Conn :
        /\ handler[c] /= "none" => conn[c] /= "none"
        /\ handler[c] /= "done" => task[c] = "none" /\ buffer[c] = <<>> /\ received[c] = <<>>

\* The consumer with the tag of a user is one of his, and its channel is open.
Tags ==
    \A u \in User : tag[u] /= None =>
        /\ UserOf[tag[u]] = u /\ handler[tag[u]] = "done"
        /\ task[tag[u]] \in {"live", "acking", "dead"}

\* A task that has the lock, or acknowledges, has the event it is about.
Working ==
    \A c \in Conn :
        /\ lock = c => task[c] \in {"live", "stale"} /\ buffer[c] /= <<>>
        /\ task[c] = "acking" => buffer[c] /= <<>>

\* What a client has got comes before what its task has still to send, of which an
\* event being acknowledged is no part; what the broker has not delivered comes after
\* all that if it is to be delivered to this task.
Ordered(c) ==
    LET u == UserOf[c] IN
        /\ Increasing(received[c])
        /\ task[c] /= "dead" =>
            /\ Increasing(buffer[c])
            /\ \A i \in DOMAIN received[c], j \in DOMAIN buffer[c] :
                    (task[c] = "acking" => j /= 1) => received[c][i] < buffer[c][j]
        /\ UpTo(received[c], published[u]) /\ UpTo(buffer[c], published[u])
        /\ tag[u] = c /\ task[c] \in {"live", "acking"} =>
                Below(received[c], msgs[u]) /\ Below(buffer[c], msgs[u])

Order == \A c \in Conn : Ordered(c)

\* A handler that is about to use its queue has it, or the watchdog has deleted it.
Channel ==
    /\ \A c \in Conn :
        handler[c] \in {"bind", "consume"} /\ queue[UserOf[c]] = "absent" => midway
    /\ FeedConsumerStays

IInv == TypeOK /\ Broker /\ Connections /\ Tags /\ Working /\ Order /\ Channel

LEMMA IInvPrime ==
  ASSUME TypeOK', Broker', Connections', Tags', Working', Order', Channel'
  PROVE  IInv'
  BY DEF IInv

LEMMA Names == "free" \notin Conn /\ "watchdog" \notin Conn /\ None \notin Conn
  OBVIOUS

-----------------------------------------------------------------------------
(* Clients, registration and the watchdog, where no event moves.            *)

LEMMA CalmKeeps ==
  ASSUME IInv, TypeOK', UNCHANGED <<queue, msgs, unacked, tag, feedConsumer, task, buffer,
                                    published, received, midway>>,
         lock' \in {lock, "free", "watchdog"},
         \A c \in Conn :
            /\ handler'[c] = "done" <=> handler[c] = "done"
            /\ handler'[c] \in {"bind", "consume"} => handler[c] \in {"bind", "consume"}
            /\ handler'[c] /= "none" => conn'[c] /= "none"
  PROVE  IInv'
  <1>1. TypeOK /\ Broker /\ Connections /\ Tags /\ Working /\ Order /\ Channel
    BY DEF IInv
  <1>2. Broker'
    BY <1>1 DEF Broker, Increasing, Below, UpTo
  <1>3. Connections'
    BY <1>1 DEF Connections
  <1>4. Tags'
    <2>1. \A u \in User : tag[u] /= None => tag[u] \in Conn
      BY <1>1 DEF TypeOK
    <2> QED BY <1>1, <2>1 DEF Tags, None
  <1>5. Working'
    BY <1>1, Names DEF Working
  <1>6. Order'
    BY <1>1 DEF Order, Ordered, Increasing, Below, UpTo
  <1>7. Channel'
    BY <1>1 DEF Channel, FeedConsumerStays
  <1> QED BY <1>2, <1>3, <1>4, <1>5, <1>6, <1>7, IInvPrime

LEMMA CloseKeeps == IInv /\ (\E c \in Conn : Close(c)) => IInv'
  <1> SUFFICES ASSUME IInv, NEW c \in Conn, Close(c)
               PROVE  IInv'
    OBVIOUS
  <1>1. TypeOK /\ Connections
    BY DEF IInv
  <1>2. conn[c] = "open" /\ conn' = [conn EXCEPT ![c] = "closed"]
    BY DEF Close
  <1>3. UNCHANGED <<handler, peers, old, lock, watchdog, broker, tasks, history>>
    BY DEF Close
  <1>4. \A d \in Conn : conn'[d] = "none" <=> conn[d] = "none"
    BY <1>1, <1>2 DEF TypeOK
  <1>5. TypeOK'
    <2>1. conn' \in [Conn -> ConnState] /\ peers' \subseteq {d \in Conn : conn'[d] /= "none"}
      BY <1>1, <1>2, <1>3, <1>4 DEF TypeOK, ConnState
    <2> QED BY <1>1, <1>3, <2>1 DEF TypeOK, broker, tasks, history, log
  <1> QED BY <1>1, <1>3, <1>4, <1>5, CalmKeeps DEF Connections, broker, tasks, history, log

ScanState == [pc : {"scan"}, todo : SUBSET peers, gone : SUBSET peers]
RemoveState == [pc : {"remove"}, gone : SUBSET peers]

LEMMA InsertKeeps == IInv /\ (\E c \in Conn : InsertPeer(c)) => IInv'
  <1> SUFFICES ASSUME IInv, NEW c \in Conn, InsertPeer(c)
               PROVE  IInv'
    OBVIOUS
  <1>1. TypeOK /\ Connections
    BY DEF IInv
  <1>2. /\ conn[c] = "none" /\ conn' = [conn EXCEPT ![c] = "open"] /\ peers' = peers \union {c}
        /\ handler' = [handler EXCEPT ![c] = "declare"]
    BY DEF InsertPeer
  <1>3. UNCHANGED <<old, lock, watchdog, broker, tasks, history>>
    BY DEF InsertPeer
  <1>4. handler[c] = "none"
    BY <1>1, <1>2 DEF Connections
  <1>5. conn'[c] = "open" /\ \A d \in Conn \ {c} : conn'[d] = conn[d]
    BY <1>1, <1>2 DEF TypeOK
  <1>6. handler'[c] = "declare" /\ \A d \in Conn \ {c} : handler'[d] = handler[d]
    BY <1>1, <1>2 DEF TypeOK
  <1>7. TypeOK'
    <2>1. conn' \in [Conn -> ConnState] /\ peers' \subseteq {d \in Conn : conn'[d] /= "none"}
      BY <1>1, <1>2, <1>5 DEF TypeOK, ConnState
    <2>2. handler' \in [Conn -> {"none", "declare", "bind", "consume", "done"}]
      BY <1>1, <1>2 DEF TypeOK
    <2>3. watchdog' \in {Asleep} \union ScanState' \union RemoveState'
      <3>1. ScanState \subseteq ScanState' /\ RemoveState \subseteq RemoveState'
        BY <1>2 DEF ScanState, RemoveState
      <3>2. watchdog \in {Asleep} \union ScanState \union RemoveState
        BY <1>1 DEF TypeOK, ScanState, RemoveState
      <3> QED BY <1>3, <3>1, <3>2
    <2>4. old' \subseteq peers'
      BY <1>1, <1>2, <1>3 DEF TypeOK
    <2> QED BY <1>1, <1>3, <2>1, <2>2, <2>3, <2>4
            DEF TypeOK, ScanState, RemoveState, broker, tasks, history, log
  <1>8. ASSUME NEW d \in Conn
        PROVE  /\ handler'[d] = "done" <=> handler[d] = "done"
               /\ handler'[d] \in {"bind", "consume"} => handler[d] \in {"bind", "consume"}
               /\ handler'[d] /= "none" => conn'[d] /= "none"
    BY <1>1, <1>4, <1>5, <1>6 DEF Connections
  <1> QED BY <1>3, <1>7, <1>8, CalmKeeps DEF broker, tasks, history, log

LEMMA WatchdogKeeps == IInv /\ ((\E c \in Conn : Ages(c)) \/ StartScan \/ EndScan \/ RemovePeers) => IInv'
  <1> SUFFICES ASSUME IInv, (\E c \in Conn : Ages(c)) \/ StartScan \/ EndScan \/ RemovePeers
               PROVE  IInv'
    OBVIOUS
  <1>1. TypeOK /\ Connections
    BY DEF IInv
  <1>2. UNCHANGED <<conn, handler, broker, tasks, history>>
    BY DEF Ages, StartScan, EndScan, RemovePeers
  <1>3. lock' \in {lock, "free", "watchdog"}
    BY DEF Ages, StartScan, EndScan, RemovePeers
  <1>4. watchdog \in {Asleep} \union ScanState \union RemoveState
    BY <1>1 DEF TypeOK, ScanState, RemoveState
  <1>5. /\ peers' \subseteq peers /\ old' \subseteq peers'
        /\ watchdog' \in {Asleep} \union ScanState' \union RemoveState'
    <2>1. CASE \E c \in Conn : Ages(c)
      <3>1. peers' = peers /\ old' \subseteq peers' /\ watchdog' = watchdog
        BY <1>1, <2>1 DEF Ages, TypeOK
      <3> QED BY <1>4, <3>1 DEF ScanState, RemoveState
    <2>2. CASE StartScan
      <3>1. peers' = peers /\ old' = old /\ watchdog' = [pc |-> "scan", todo |-> peers, gone |-> {}]
        BY <2>2 DEF StartScan
      <3> QED BY <1>1, <3>1 DEF ScanState, TypeOK
    <2>3. CASE EndScan
      <3>1. watchdog.pc = "scan" /\ watchdog' = [pc |-> "remove", gone |-> watchdog.gone]
        BY <2>3 DEF EndScan
      <3>2. peers' = peers /\ old' = old
        BY <2>3 DEF EndScan
      <3>3. watchdog.gone \subseteq peers
        BY <1>4, <3>1 DEF ScanState, RemoveState, Asleep
      <3> QED BY <1>1, <3>1, <3>2, <3>3 DEF RemoveState, TypeOK
    <2>4. CASE RemovePeers
      BY <1>1, <2>4 DEF RemovePeers, TypeOK
    <2> QED BY <2>1, <2>2, <2>3, <2>4
  <1>6. TypeOK'
    <2>1. peers' \subseteq {d \in Conn : conn'[d] /= "none"}
      BY <1>1, <1>2, <1>5 DEF TypeOK
    <2>2. lock' \in {"free", "watchdog"} \union Conn
      BY <1>1, <1>3 DEF TypeOK
    <2> QED BY <1>1, <1>2, <1>5, <2>1, <2>2 DEF TypeOK, ScanState, RemoveState, broker, tasks, history, log
  <1> QED BY <1>1, <1>2, <1>3, <1>6, CalmKeeps DEF Connections, broker, tasks, history, log

-----------------------------------------------------------------------------
(* handle_connection.                                                       *)

LEMMA CreateKeeps == IInv /\ (\E c \in Conn : create_queue(c)) => IInv'
  <1> SUFFICES ASSUME IInv, NEW c \in Conn, create_queue(c)
               PROVE  IInv'
    OBVIOUS
  <1>1. TypeOK /\ Broker /\ Connections /\ Tags /\ Working /\ Order /\ Channel
    BY DEF IInv
  <1> DEFINE u == UserOf[c]
  <1>2. /\ handler[c] = "declare" /\ handler' = [handler EXCEPT ![c] = "bind"]
        /\ queue' = [queue EXCEPT ![u] = IF queue[u] = "absent" THEN "declared" ELSE queue[u]]
        /\ UNCHANGED <<conn, peers, old, lock, watchdog, msgs, unacked, tag, feedConsumer,
                       tasks, history>>
    BY DEF create_queue
  <1>3. u \in User
    OBVIOUS
  <1>4. handler'[c] = "bind" /\ \A d \in Conn \ {c} : handler'[d] = handler[d]
    BY <1>1, <1>2 DEF TypeOK
  <1>5. queue'[u] /= "absent" /\ \A v \in User \ {u} : queue'[v] = queue[v]
    BY <1>1, <1>2, <1>3 DEF TypeOK
  <1>6. TypeOK'
    <2>1. handler' \in [Conn -> {"none", "declare", "bind", "consume", "done"}]
      BY <1>1, <1>2 DEF TypeOK
    <2>2. queue' \in [User -> {"absent", "declared", "bound"}]
      BY <1>1, <1>2, <1>3 DEF TypeOK
    <2> QED BY <1>1, <1>2, <2>1, <2>2 DEF TypeOK, tasks, history, log
  <1> HIDE DEF u
  <1>7. Broker' /\ Order'
    BY <1>1, <1>2 DEF Broker, Order, Ordered, Increasing, Below, UpTo, tasks, history, log
  <1>8. Connections'
    BY <1>1, <1>2, <1>4 DEF Connections, tasks, history, log
  <1>9. Tags'
    <2>1. \A v \in User : tag[v] /= None => tag[v] \in Conn
      BY <1>1 DEF TypeOK
    <2> QED BY <1>1, <1>2, <1>4, <2>1 DEF Tags, tasks
  <1>10. Working'
    BY <1>1, <1>2 DEF Working, tasks
  <1>11. Channel'
    <2>1. ASSUME NEW d \in Conn, handler'[d] \in {"bind", "consume"}, queue'[UserOf[d]] = "absent"
          PROVE  midway'
      <3>1. d # c /\ UserOf[d] # u
        BY <1>5, <2>1 DEF u
      <3>2. UserOf[d] \in User
        OBVIOUS
      <3> QED BY <1>1, <1>2, <1>4, <1>5, <2>1, <3>1, <3>2 DEF Channel, history
    <2> QED BY <1>1, <1>2, <2>1 DEF Channel, FeedConsumerStays, history
  <1> QED BY <1>6, <1>7, <1>8, <1>9, <1>10, <1>11, IInvPrime

\* The channel closes: what was delivered is first in the queues again, and no task is
\* to get it.
LEMMA ClosingKeeps ==
  ASSUME IInv, ChannelCloses, NEW c \in Conn,
         handler[c] \in {"bind", "consume"}, queue[UserOf[c]] = "absent",
         handler' \in [Conn -> {"none", "declare", "bind", "consume", "done"}],
         \A d \in Conn \ {c} : handler'[d] = handler[d],
         UNCHANGED <<conn, peers, old, lock, watchdog, queue, buffer, history>>
  PROVE  IInv'
  <1>1. TypeOK /\ Broker /\ Connections /\ Tags /\ Working /\ Order /\ Channel
    BY DEF IInv
  <1>2. /\ tag' = [u \in User |-> None] /\ msgs' = [u \in User |-> unacked[u] \o msgs[u]]
        /\ unacked' = [u \in User |-> <<>>]
        /\ feedConsumer' = FALSE
        /\ task' = [d \in Conn |-> CASE task[d] = "live" -> "stale"
                                     [] task[d] = "acking" -> "dead"
                                     [] OTHER -> task[d]]
    BY DEF ChannelCloses
  <1>3. midway /\ midway'
    BY <1>1 DEF Channel, history
  <1>4. ASSUME NEW d \in Conn
        PROVE  /\ task'[d] \in TaskState \ {"acking"}
               /\ task[d] = "none" => task'[d] = "none"
               /\ task[d] \in {"live", "stale"} => task'[d] = "stale"
               /\ task'[d] # "dead" => task[d] \notin {"dead", "acking"}
    <2>1. task[d] \in TaskState
      BY <1>1 DEF TypeOK
    <2>2. task'[d] = CASE task[d] = "live" -> "stale"
                       [] task[d] = "acking" -> "dead"
                       [] OTHER -> task[d]
      BY <1>2
    <2>3. CASE task[d] = "live"
      BY <2>2, <2>3 DEF TaskState
    <2>4. CASE task[d] = "acking"
      BY <2>2, <2>4 DEF TaskState
    <2>5. CASE task[d] \notin {"live", "acking"}
      BY <2>1, <2>2, <2>5 DEF TaskState
    <2> QED BY <2>3, <2>4, <2>5
  <1>5. task' \in [Conn -> TaskState]
    <2>1. task' = [d \in Conn |-> task'[d]]
      BY <1>2
    <2> QED BY <1>4, <2>1
  <1>6. ASSUME NEW u \in User
        PROVE  /\ msgs'[u] \in Seq(Events) /\ Increasing(msgs'[u]) /\ UpTo(msgs'[u], published[u])
               /\ unacked'[u] = <<>> /\ tag'[u] = None
    <2>1. unacked[u] \in Seq(Events) /\ msgs[u] \in Seq(Events) /\ msgs'[u] = unacked[u] \o msgs[u]
      BY <1>1, <1>2 DEF TypeOK
    <2>2. /\ Increasing(unacked[u]) /\ Increasing(msgs[u]) /\ Below(unacked[u], msgs[u])
          /\ UpTo(unacked[u], published[u]) /\ UpTo(msgs[u], published[u])
      BY <1>1 DEF Broker
    <2>3. UpTo(unacked[u] \o msgs[u], published[u])
      <3>1. \A k \in DOMAIN (unacked[u] \o msgs[u]) :
                \/ \E i \in DOMAIN unacked[u] : (unacked[u] \o msgs[u])[k] = unacked[u][i]
                \/ \E j \in DOMAIN msgs[u] : (unacked[u] \o msgs[u])[k] = msgs[u][j]
        BY <2>1, ConcatFacts
      <3> QED BY <2>2, <3>1 DEF UpTo
    <2> QED BY <1>2, <2>1, <2>2, <2>3, ConcatFacts
  <1>7. TypeOK'
    <2>1. msgs' \in [User -> Seq(Events)]
      <3>1. msgs' = [u \in User |-> msgs'[u]]
        BY <1>2
      <3> QED BY <1>6, <3>1
    <2>2. unacked' \in [User -> Seq(Events)] /\ tag' \in [User -> Conn \union {None}]
      BY <1>2, Empty
    <2> QED BY <1>1, <1>2, <1>5, <2>1, <2>2 DEF TypeOK, history, log
  <1>8. Broker'
    <2> SUFFICES ASSUME NEW u \in User
                 PROVE  /\ Increasing(unacked'[u]) /\ Increasing(msgs'[u]) /\ Below(unacked'[u], msgs'[u])
                        /\ UpTo(unacked'[u], published'[u]) /\ UpTo(msgs'[u], published'[u])
      BY DEF Broker, Increasing, Below, UpTo
    <2>1. DOMAIN unacked'[u] = {} /\ published' = published
      BY <1>6, Empty DEF history, log
    <2> QED BY <1>6, <2>1 DEF Increasing, Below, UpTo
  <1>9. Connections'
    <2>1. handler[c] # "none" /\ handler[c] # "done"
      OBVIOUS
    <2> QED BY <1>1, <1>4, <2>1 DEF Connections, history, log
  <1>10. Tags'
    BY <1>6 DEF Tags
  <1>11. Working'
    BY <1>1, <1>4 DEF Working
  <1>12. Order'
    <2> SUFFICES ASSUME NEW d \in Conn
                 PROVE  Ordered(d)'
      BY DEF Order
    <2>1. Ordered(d) /\ UserOf[d] \in User
      BY <1>1 DEF Order
    <2>2. tag'[UserOf[d]] # d
      BY <1>6, <2>1, Names
    <2>3. buffer' = buffer /\ received' = received /\ published' = published
      BY DEF history, log
    <2> QED BY <1>4, <2>1, <2>2, <2>3 DEF Ordered, Increasing, Below, UpTo
  <1>13. Channel'
    BY <1>3 DEF Channel, FeedConsumerStays
  <1> QED BY <1>7, <1>8, <1>9, <1>10, <1>11, <1>12, <1>13, IInvPrime

LEMMA BindKeeps == IInv /\ (\E c \in Conn : bind_queue(c)) => IInv'
  <1> SUFFICES ASSUME IInv, NEW c \in Conn, bind_queue(c)
               PROVE  IInv'
    OBVIOUS
  <1>1. TypeOK /\ Broker /\ Connections /\ Tags /\ Working /\ Order /\ Channel
    BY DEF IInv
  <1> DEFINE u == UserOf[c]
  <1>2. /\ handler[c] = "bind" /\ handler' = [handler EXCEPT ![c] = "consume"]
        /\ UNCHANGED <<conn, peers, old, lock, watchdog, buffer, history>>
    BY DEF bind_queue
  <1>3. u \in User
    OBVIOUS
  <1>4. handler'[c] = "consume" /\ \A d \in Conn \ {c} : handler'[d] = handler[d]
    BY <1>1, <1>2 DEF TypeOK
  <1>5. handler' \in [Conn -> {"none", "declare", "bind", "consume", "done"}]
    BY <1>1, <1>2 DEF TypeOK
  <1>6. CASE queue[u] = "absent" /\ ChannelCloses /\ UNCHANGED queue
    BY <1>2, <1>4, <1>5, <1>6, ClosingKeeps
  <1>7. CASE queue[u] # "absent" /\ queue' = [queue EXCEPT ![u] = "bound"]
             /\ UNCHANGED <<msgs, unacked, tag, feedConsumer, task>>
    <2>1. queue'[u] = "bound" /\ \A v \in User \ {u} : queue'[v] = queue[v]
      BY <1>1, <1>3, <1>7 DEF TypeOK
    <2>2. queue' \in [User -> {"absent", "declared", "bound"}]
      BY <1>1, <1>3, <1>7 DEF TypeOK
    <2> HIDE DEF u
    <2>3. TypeOK'
      BY <1>1, <1>2, <1>5, <1>7, <2>2 DEF TypeOK, history, log
    <2>4. Broker' /\ Order'
      BY <1>1, <1>2, <1>7 DEF Broker, Order, Ordered, Increasing, Below, UpTo, history, log
    <2>5. Connections'
      BY <1>1, <1>2, <1>4, <1>7 DEF Connections, history, log
    <2>6. Tags'
      <3>1. \A v \in User : tag[v] /= None => tag[v] \in Conn
        BY <1>1 DEF TypeOK
      <3> QED BY <1>1, <1>2, <1>4, <1>7, <3>1 DEF Tags
    <2>7. Working'
      BY <1>1, <1>2, <1>7 DEF Working
    <2>8. Channel'
      <3>1. ASSUME NEW d \in Conn, handler'[d] \in {"bind", "consume"}, queue'[UserOf[d]] = "absent"
            PROVE  midway'
        <4>1. d # c /\ UserOf[d] # u
          BY <2>1, <3>1 DEF u
        <4>2. UserOf[d] \in User
          OBVIOUS
        <4> QED BY <1>1, <1>2, <1>4, <2>1, <3>1, <4>1, <4>2 DEF Channel, history
      <3> QED BY <1>1, <1>2, <1>7, <3>1 DEF Channel, FeedConsumerStays, history
    <2> QED BY <2>3, <2>4, <2>5, <2>6, <2>7, <2>8, IInvPrime
  <1> QED BY <1>6, <1>7 DEF bind_queue

\* The new consumer has got nothing yet, so all that the queue has comes later.
LEMMA ConsumeKeeps == IInv /\ (\E c \in Conn : add_consumer(c)) => IInv'
  <1> SUFFICES ASSUME IInv, NEW c \in Conn, add_consumer(c)
               PROVE  IInv'
    OBVIOUS
  <1>1. TypeOK /\ Broker /\ Connections /\ Tags /\ Working /\ Order /\ Channel
    BY DEF IInv
  <1> DEFINE u == UserOf[c]
  <1>2. /\ handler[c] = "consume" /\ handler' = [handler EXCEPT ![c] = "done"]
        /\ UNCHANGED <<conn, peers, old, lock, watchdog, queue, buffer, history>>
    BY DEF add_consumer
  <1>3. u \in User
    OBVIOUS
  <1>4. handler'[c] = "done" /\ \A d \in Conn \ {c} : handler'[d] = handler[d]
    BY <1>1, <1>2 DEF TypeOK
  <1>5. handler' \in [Conn -> {"none", "declare", "bind", "consume", "done"}]
    BY <1>1, <1>2 DEF TypeOK
  <1>6. CASE queue[u] = "absent" /\ ChannelCloses
    BY <1>2, <1>4, <1>5, <1>6, ClosingKeeps
  <1>7. CASE queue[u] # "absent" /\ tag' = [tag EXCEPT ![u] = c] /\ task' = [task EXCEPT ![c] = "live"]
             /\ UNCHANGED <<msgs, unacked, feedConsumer>>
    <2>1. tag'[u] = c /\ \A v \in User \ {u} : tag'[v] = tag[v]
      BY <1>1, <1>3, <1>7 DEF TypeOK
    <2>2. task'[c] = "live" /\ \A d \in Conn \ {c} : task'[d] = task[d]
      BY <1>1, <1>7 DEF TypeOK
    <2>3. task[c] = "none" /\ buffer[c] = <<>> /\ received[c] = <<>>
      BY <1>1, <1>2 DEF Connections
    <2>4. TypeOK'
      <3>1. tag' \in [User -> Conn \union {None}]
        BY <1>1, <1>3, <1>7 DEF TypeOK
      <3>2. task' \in [Conn -> TaskState]
        BY <1>1, <1>7 DEF TypeOK, TaskState
      <3> QED BY <1>1, <1>2, <1>5, <1>7, <3>1, <3>2 DEF TypeOK, history, log
    <2>5. UserOf[c] = u
      OBVIOUS
    <2> HIDE DEF u
    <2>6. Broker'
      BY <1>1, <1>2, <1>7 DEF Broker, Increasing, Below, UpTo, history, log
    <2>7. Connections'
      BY <1>1, <1>2, <1>4, <1>7, <2>2 DEF Connections, history, log
    <2>8. Tags'
      <3> SUFFICES ASSUME NEW v \in User, tag'[v] /= None
                   PROVE  /\ UserOf[tag'[v]] = v /\ handler'[tag'[v]] = "done"
                          /\ task'[tag'[v]] \in {"live", "acking", "dead"}
        BY DEF Tags
      <3>1. CASE v = u
        BY <1>4, <2>1, <2>2, <2>5, <3>1
      <3>2. CASE v # u
        <4>1. tag'[v] = tag[v] /\ tag[v] \in Conn
          BY <1>1, <2>1, <3>2 DEF TypeOK
        <4>2. UserOf[tag[v]] = v /\ tag[v] # c
          BY <1>1, <2>5, <3>2, <4>1 DEF Tags
        <4> QED BY <1>1, <1>4, <2>2, <4>1, <4>2 DEF Tags
      <3> QED BY <3>1, <3>2
    <2>9. Working'
      BY <1>1, <1>2, <1>7, <2>2, <2>3 DEF Working
    <2>10. Order'
      <3> SUFFICES ASSUME NEW d \in Conn
                   PROVE  Ordered(d)'
        BY DEF Order
      <3>1. Ordered(d) /\ UserOf[d] \in User
        BY <1>1 DEF Order
      <3>2. buffer' = buffer /\ received' = received /\ published' = published /\ msgs' = msgs
        BY <1>2, <1>7 DEF history, log
      <3>3. CASE d = c
        BY <2>2, <2>3, <3>1, <3>2, <3>3, Empty DEF Ordered, Increasing, Below, UpTo
      <3>4. CASE d # c
        <4>1. task'[d] = task[d]
          BY <2>2, <3>4
        <4>2. tag'[UserOf[d]] = d => tag[UserOf[d]] = d
          BY <2>1, <3>1, <3>4
        <4> QED BY <3>1, <3>2, <4>1, <4>2 DEF Ordered, Increasing, Below, UpTo
      <3> QED BY <3>3, <3>4
    <2>11. Channel'
      BY <1>1, <1>2, <1>4, <1>7 DEF Channel, FeedConsumerStays, history
    <2> QED BY <2>4, <2>6, <2>7, <2>8, <2>9, <2>10, <2>11, IInvPrime
  <1> QED BY <1>6, <1>7 DEF add_consumer

-----------------------------------------------------------------------------
(* The events.                                                              *)

\* A new event is later than all others.
LEMMA PublishKeeps == IInv /\ (\E u \in User : publish_message(u)) => IInv'
  <1> SUFFICES ASSUME IInv, NEW u \in User, publish_message(u)
               PROVE  IInv'
    OBVIOUS
  <1>1. TypeOK /\ Broker /\ Connections /\ Tags /\ Working /\ Order /\ Channel
    BY DEF IInv
  <1> DEFINE e == published[u] + 1
  <1>2. /\ published[u] < MaxEvents /\ published' = [published EXCEPT ![u] = published[u] + 1]
        /\ msgs' = IF queue[u] = "bound" THEN [msgs EXCEPT ![u] = Append(msgs[u], published'[u])] ELSE msgs
        /\ due' = due \union {<<c, published'[u]>> :
                    c \in {c \in Conn : UserOf[c] = u /\ conn[c] = "open" /\ handler[c] = "done"}}
        /\ UNCHANGED <<conn, handler, peers, old, lock, watchdog,
                       queue, unacked, tag, feedConsumer, tasks, received, torn, midway>>
    BY DEF publish_message
  <1>3. published[u] \in Nat /\ published[u] < e /\ e \in Events
    BY <1>1, <1>2 DEF TypeOK, Events
  <1>4. /\ published' \in [User -> 0..MaxEvents]
        /\ published'[u] = e /\ \A v \in User \ {u} : published'[v] = published[v]
    BY <1>1, <1>2, <1>3 DEF TypeOK, Events
  <1> HIDE DEF e
  <1>5. \A v \in User : published[v] \in Int /\ published'[v] \in Int /\ published[v] <= published'[v]
    <2>1. e \in Int
      BY <1>3, EventsAreInt
    <2>2. \A v \in User : published[v] \in Int
      BY <1>1 DEF TypeOK
    <2>3. published[u] <= e
      BY <1>3, <2>1
    <2>4. \A v \in User : published'[v] = (IF v = u THEN e ELSE published[v])
      BY <1>4
    <2> QED BY <2>1, <2>2, <2>3, <2>4
  <1>6. ASSUME NEW s \in Seq(Events), NEW v \in User, UpTo(s, published[v])
        PROVE  UpTo(s, published'[v]) /\ (v = u => \A i \in DOMAIN s : s[i] < e)
    <2> SUFFICES ASSUME NEW i \in DOMAIN s
                 PROVE  s[i] <= published'[v] /\ (v = u => s[i] < e)
      BY DEF UpTo
    <2>1. s[i] \in Int /\ s[i] <= published[v]
      BY <1>6, Elements DEF UpTo
    <2>2. e \in Int
      BY <1>3, EventsAreInt
    <2> QED BY <1>3, <1>5, <2>1, <2>2
  <1>7. ASSUME NEW v \in User
        PROVE  \/ msgs'[v] = msgs[v]
               \/ v = u /\ msgs'[v] = Append(msgs[v], e)
    BY <1>1, <1>2, <1>4 DEF TypeOK
  <1>8. ASSUME NEW v \in User
        PROVE  /\ msgs'[v] \in Seq(Events) /\ Increasing(msgs'[v]) /\ UpTo(msgs'[v], published'[v])
               /\ \A i \in DOMAIN msgs'[v] :
                    (i \in DOMAIN msgs[v] /\ msgs'[v][i] = msgs[v][i]) \/ (v = u /\ msgs'[v][i] = e)
    <2>1. msgs[v] \in Seq(Events) /\ Increasing(msgs[v]) /\ UpTo(msgs[v], published[v])
      BY <1>1 DEF TypeOK, Broker
    <2>2. UpTo(msgs[v], published'[v])
      BY <1>6, <2>1
    <2>3. CASE msgs'[v] = msgs[v]
      BY <2>1, <2>2, <2>3
    <2>4. CASE v = u /\ msgs'[v] = Append(msgs[v], e)
      <3>1. \A i \in DOMAIN msgs[v] : msgs[v][i] < e
        BY <1>6, <2>1, <2>4
      <3>2. /\ msgs'[v] \in Seq(Events) /\ Increasing(msgs'[v])
            /\ \A i \in DOMAIN msgs'[v] :
                (i \in DOMAIN msgs[v] /\ msgs'[v][i] = msgs[v][i]) \/ msgs'[v][i] = e
        BY <1>3, <2>1, <2>4, <3>1, AppendFacts
      <3>3. e <= published'[v]
        BY <1>4, <1>5, <2>4
      <3> QED BY <2>2, <2>4, <3>2, <3>3 DEF UpTo
    <2> QED BY <1>7, <2>3, <2>4
  <1>9. ASSUME NEW v \in User, NEW s \in Seq(Events), UpTo(s, published[v]), Below(s, msgs[v])
        PROVE  Below(s, msgs'[v])
    <2> SUFFICES ASSUME NEW i \in DOMAIN s, NEW j \in DOMAIN msgs'[v]
                 PROVE  s[i] < msgs'[v][j]
      BY DEF Below
    <2>1. v = u => s[i] < e
      BY <1>6, <1>9
    <2> QED BY <1>8, <1>9, <2>1 DEF Below
  <1>10. TypeOK'
    <2>1. msgs' \in [User -> Seq(Events)]
      <3>1. msgs' = [v \in User |-> msgs'[v]]
        BY <1>1, <1>2 DEF TypeOK
      <3> QED BY <1>8, <3>1
    <2>2. due' \subseteq Conn \X Events
      BY <1>1, <1>2, <1>3, <1>4 DEF TypeOK
    <2> QED BY <1>1, <1>2, <1>4, <2>1, <2>2 DEF TypeOK, tasks
  <1>11. Broker'
    <2> SUFFICES ASSUME NEW v \in User
                 PROVE  /\ Increasing(unacked'[v]) /\ Increasing(msgs'[v]) /\ Below(unacked'[v], msgs'[v])
                        /\ UpTo(unacked'[v], published'[v]) /\ UpTo(msgs'[v], published'[v])
      BY DEF Broker, Increasing, Below, UpTo
    <2>1. unacked'[v] = unacked[v] /\ unacked[v] \in Seq(Events)
      BY <1>1, <1>2 DEF TypeOK
    <2>2. Increasing(unacked[v]) /\ Below(unacked[v], msgs[v]) /\ UpTo(unacked[v], published[v])
      BY <1>1 DEF Broker
    <2> QED BY <1>6, <1>8, <1>9, <2>1, <2>2
  <1>12. Connections' /\ Tags' /\ Working'
    <2>1. \A v \in User : tag[v] /= None => tag[v] \in Conn
      BY <1>1 DEF TypeOK
    <2> QED BY <1>1, <1>2, <2>1 DEF Connections, Tags, Working, tasks
  <1>13. Order'
    <2> SUFFICES ASSUME NEW c \in Conn
                 PROVE  Ordered(c)'
      BY DEF Order
    <2> DEFINE v == UserOf[c]
    <2>1. v \in User /\ received[c] \in Seq(Events) /\ buffer[c] \in Seq(Events)
      BY <1>1 DEF TypeOK
    <2>2. /\ Increasing(received[c])
          /\ task[c] /= "dead" =>
              /\ Increasing(buffer[c])
              /\ \A i \in DOMAIN received[c], j \in DOMAIN buffer[c] :
                    (task[c] = "acking" => j /= 1) => received[c][i] < buffer[c][j]
          /\ UpTo(received[c], published[v]) /\ UpTo(buffer[c], published[v])
          /\ tag[v] = c /\ task[c] \in {"live", "acking"} =>
                Below(received[c], msgs[v]) /\ Below(buffer[c], msgs[v])
      BY <1>1 DEF Order, Ordered
    <2>3. received' = received /\ buffer' = buffer /\ task' = task /\ tag' = tag
      BY <1>2 DEF tasks
    <2> HIDE DEF v
    <2>4. UpTo(received[c], published'[v]) /\ UpTo(buffer[c], published'[v])
      BY <1>6, <2>1, <2>2
    <2>5. tag[v] = c /\ task[c] \in {"live", "acking"} =>
                Below(received[c], msgs'[v]) /\ Below(buffer[c], msgs'[v])
      BY <1>9, <2>1, <2>2
    <2> QED BY <2>2, <2>3, <2>4, <2>5 DEF v, Ordered, Increasing, Below, UpTo
  <1>14. Channel'
    BY <1>1, <1>2 DEF Channel, FeedConsumerStays
  <1> QED BY <1>10, <1>11, <1>12, <1>13, <1>14, IInvPrime

\* What the broker delivers comes after all it has delivered to the task.
LEMMA DeliverKeeps == IInv /\ (\E u \in User : Deliver(u)) => IInv'
  <1> SUFFICES ASSUME IInv, NEW u \in User, Deliver(u)
               PROVE  IInv'
    OBVIOUS
  <1>1. TypeOK /\ Broker /\ Connections /\ Tags /\ Working /\ Order /\ Channel
    BY DEF IInv
  <1> DEFINE d == tag[u]
             e == Head(msgs[u])
  <1>2. /\ tag[u] /= None /\ msgs[u] /= <<>>
        /\ buffer' = [buffer EXCEPT ![d] = Append(buffer[d], e)]
        /\ unacked' = [unacked EXCEPT ![u] = Append(unacked[u], e)]
        /\ msgs' = [msgs EXCEPT ![u] = Tail(msgs[u])]
        /\ UNCHANGED <<conn, handler, peers, old, lock, watchdog, queue, tag, feedConsumer, task, history>>
    BY DEF Deliver
  <1>3. /\ d \in Conn /\ UserOf[d] = u /\ handler[d] = "done" /\ task[d] \in {"live", "acking", "dead"}
        /\ tag[u] = d
    <2>1. d \in Conn
      BY <1>1, <1>2 DEF TypeOK
    <2> QED BY <1>1, <1>2, <2>1 DEF Tags
  <1>4. msgs[u] \in Seq(Events) /\ unacked[u] \in Seq(Events) /\ buffer[d] \in Seq(Events)
    BY <1>1, <1>3 DEF TypeOK
  <1>5. /\ 1 \in DOMAIN msgs[u] /\ e = msgs[u][1] /\ e \in Events /\ Tail(msgs[u]) \in Seq(Events)
        /\ \A i \in DOMAIN Tail(msgs[u]) : i + 1 \in DOMAIN msgs[u] /\ Tail(msgs[u])[i] = msgs[u][i + 1]
        /\ Increasing(Tail(msgs[u])) /\ \A i \in DOMAIN Tail(msgs[u]) : e < Tail(msgs[u])[i]
    BY <1>1, <1>2, <1>4, TailFacts DEF Broker
  <1>6. \A i \in DOMAIN unacked[u] : unacked[u][i] < e
    BY <1>1, <1>5 DEF Broker, Below
  <1>7. /\ Append(unacked[u], e) \in Seq(Events) /\ Increasing(Append(unacked[u], e))
        /\ \A i \in DOMAIN Append(unacked[u], e) :
                (i \in DOMAIN unacked[u] /\ Append(unacked[u], e)[i] = unacked[u][i]) \/ Append(unacked[u], e)[i] = e
    BY <1>1, <1>4, <1>5, <1>6, AppendFacts DEF Broker
  <1>8. /\ Append(buffer[d], e) \in Seq(Events) /\ Append(buffer[d], e) # <<>>
        /\ \A i \in DOMAIN Append(buffer[d], e) :
                (i \in DOMAIN buffer[d] /\ Append(buffer[d], e)[i] = buffer[d][i]) \/ Append(buffer[d], e)[i] = e
        /\ buffer[d] # <<>> => \A i \in DOMAIN Append(buffer[d], e) : i \notin DOMAIN buffer[d] => i # 1
        /\ Increasing(buffer[d]) /\ (\A i \in DOMAIN buffer[d] : buffer[d][i] < e) => Increasing(Append(buffer[d], e))
    BY <1>4, <1>5, AppendFacts
  <1> HIDE DEF d, e
  <1>9. buffer'[d] = Append(buffer[d], e) /\ \A c \in Conn \ {d} : buffer'[c] = buffer[c]
    BY <1>1, <1>2, <1>3 DEF TypeOK
  <1>10. unacked'[u] = Append(unacked[u], e) /\ \A v \in User \ {u} : unacked'[v] = unacked[v]
    BY <1>1, <1>2 DEF TypeOK
  <1>11. msgs'[u] = Tail(msgs[u]) /\ \A v \in User \ {u} : msgs'[v] = msgs[v]
    BY <1>1, <1>2 DEF TypeOK
  <1>12. TypeOK'
    <2>1. buffer' \in [Conn -> Seq(Events)]
      BY <1>1, <1>2, <1>8 DEF TypeOK
    <2>2. unacked' \in [User -> Seq(Events)]
      BY <1>1, <1>2, <1>7 DEF TypeOK
    <2>3. msgs' \in [User -> Seq(Events)]
      BY <1>1, <1>2, <1>5 DEF TypeOK
    <2> QED BY <1>1, <1>2, <2>1, <2>2, <2>3 DEF TypeOK, history, log
  <1>13. published' = published /\ received' = received
    BY <1>2 DEF history, log
  <1>14. e <= published[u] /\ \A i \in DOMAIN Tail(msgs[u]) : Tail(msgs[u])[i] <= published[u]
    BY <1>1, <1>5 DEF Broker, UpTo
  <1>15. Broker'
    <2> SUFFICES ASSUME NEW v \in User
                 PROVE  /\ Increasing(unacked'[v]) /\ Increasing(msgs'[v]) /\ Below(unacked'[v], msgs'[v])
                        /\ UpTo(unacked'[v], published'[v]) /\ UpTo(msgs'[v], published'[v])
      BY DEF Broker, Increasing, Below, UpTo
    <2>1. CASE v = u
      <3>1. Below(Append(unacked[u], e), Tail(msgs[u]))
        <4> SUFFICES ASSUME NEW i \in DOMAIN Append(unacked[u], e), NEW j \in DOMAIN Tail(msgs[u])
                     PROVE  Append(unacked[u], e)[i] < Tail(msgs[u])[j]
          BY DEF Below
        <4>1. CASE Append(unacked[u], e)[i] = e
          BY <1>5, <4>1
        <4>2. CASE i \in DOMAIN unacked[u] /\ Append(unacked[u], e)[i] = unacked[u][i]
          <5>1. Below(unacked[u], msgs[u])
            BY <1>1 DEF Broker
          <5> QED BY <1>5, <4>2, <5>1 DEF Below
        <4> QED BY <1>7, <4>1, <4>2
      <3>2. UpTo(Append(unacked[u], e), published[u])
        <4>1. UpTo(unacked[u], published[u])
          BY <1>1 DEF Broker
        <4> QED BY <1>7, <1>14, <4>1 DEF UpTo
      <3> QED BY <1>5, <1>7, <1>10, <1>11, <1>13, <1>14, <2>1, <3>1, <3>2 DEF UpTo
    <2>2. CASE v # u
      BY <1>1, <1>10, <1>11, <1>13, <2>2 DEF Broker
    <2> QED BY <2>1, <2>2
  <1>16. Connections'
    <2>1. handler'[d] = "done"
      BY <1>2, <1>3
    <2> QED BY <1>1, <1>2, <1>9, <1>13, <2>1 DEF Connections
  <1>17. Tags'
    <2>1. \A v \in User : tag[v] /= None => tag[v] \in Conn
      BY <1>1 DEF TypeOK
    <2> QED BY <1>1, <1>2, <2>1 DEF Tags
  <1>18. Working'
    BY <1>1, <1>2, <1>8, <1>9 DEF Working
  <1>19. Order'
    <2> SUFFICES ASSUME NEW c \in Conn
                 PROVE  Ordered(c)'
      BY DEF Order
    <2>1. Ordered(c) /\ UserOf[c] \in User /\ task' = task /\ tag' = tag
      BY <1>1, <1>2 DEF Order
    <2>2. CASE c = d
      <3>1. /\ Increasing(received[d])
            /\ task[d] /= "dead" =>
                /\ Increasing(buffer[d])
                /\ \A i \in DOMAIN received[d], j \in DOMAIN buffer[d] :
                        (task[d] = "acking" => j /= 1) => received[d][i] < buffer[d][j]
            /\ UpTo(received[d], published[u]) /\ UpTo(buffer[d], published[u])
            /\ task[d] \in {"live", "acking"} => Below(received[d], msgs[u]) /\ Below(buffer[d], msgs[u])
        BY <1>3, <2>1, <2>2 DEF Ordered
      <3> DEFINE b == Append(buffer[d], e)
                 t == Tail(msgs[u])
      <3>2. \A i \in DOMAIN b : (i \in DOMAIN buffer[d] /\ b[i] = buffer[d][i]) \/ b[i] = e
        BY <1>8
      <3>3. \A i \in DOMAIN t : i + 1 \in DOMAIN msgs[u] /\ t[i] = msgs[u][i + 1] /\ e < t[i]
        BY <1>5
      <3>4. UpTo(b, published[u])
        BY <1>14, <3>1, <3>2 DEF UpTo
      <3>5. ASSUME task[d] /= "dead"
            PROVE  /\ Increasing(b)
                   /\ \A i \in DOMAIN received[d], j \in DOMAIN b :
                        (task[d] = "acking" => j /= 1) => received[d][i] < b[j]
                   /\ Below(received[d], t) /\ Below(b, t)
        <4>1. task[d] \in {"live", "acking"}
          BY <1>3, <3>5
        <4>2. Below(received[d], msgs[u]) /\ Below(buffer[d], msgs[u])
          BY <3>1, <4>1
        <4>3. /\ \A i \in DOMAIN buffer[d] : buffer[d][i] < e
              /\ \A i \in DOMAIN received[d] : received[d][i] < e
          BY <1>5, <4>2 DEF Below
        <4>4. Increasing(b)
          BY <1>8, <3>1, <3>5, <4>3
        <4> HIDE DEF b, t
        <4>5. ASSUME NEW i \in DOMAIN received[d], NEW j \in DOMAIN b, task[d] = "acking" => j /= 1
              PROVE  received[d][i] < b[j]
          <5>1. CASE b[j] = e
            BY <4>3, <5>1
          <5>2. CASE j \in DOMAIN buffer[d] /\ b[j] = buffer[d][j]
            BY <3>1, <3>5, <4>5, <5>2
          <5> QED BY <3>2, <5>1, <5>2
        <4>6. Below(received[d], t)
          BY <3>3, <4>2 DEF Below
        <4>7. Below(b, t)
          <5> SUFFICES ASSUME NEW i \in DOMAIN b, NEW j \in DOMAIN t
                       PROVE  b[i] < t[j]
            BY DEF Below
          <5>1. CASE b[i] = e
            BY <3>3, <5>1
          <5>2. CASE i \in DOMAIN buffer[d] /\ b[i] = buffer[d][i]
            BY <3>3, <4>2, <5>2 DEF Below
          <5> QED BY <3>2, <5>1, <5>2
        <4> QED BY <4>4, <4>5, <4>6, <4>7
      <3>6. buffer'[c] = b /\ msgs'[u] = t /\ UserOf[c] = u
        BY <1>3, <1>9, <1>11, <2>2
      <3> HIDE DEF b, t
      <3>7. task[d] \in {"live", "acking"} => task[d] # "dead"
        OBVIOUS
      <3> QED BY <1>13, <2>1, <2>2, <3>1, <3>4, <3>5, <3>6, <3>7 DEF Ordered, Increasing, Below, UpTo
    <2>3. CASE c # d
      <3>1. buffer'[c] = buffer[c]
        BY <1>9, <2>3
      <3>2. tag[UserOf[c]] = c => msgs'[UserOf[c]] = msgs[UserOf[c]]
        BY <1>3, <1>11, <2>1, <2>3
      <3> QED BY <1>13, <2>1, <3>1, <3>2 DEF Ordered, Increasing, Below, UpTo
    <2> QED BY <2>2, <2>3
  <1>20. Channel'
    BY <1>1, <1>2 DEF Channel, FeedConsumerStays, history
  <1> QED BY <1>12, <1>15, <1>16, <1>17, <1>18, <1>19, <1>20, IInvPrime

\* The task of c works: only its part of the invariant has to be shown.
LEMMA TaskKeeps ==
  ASSUME IInv, TypeOK', NEW c \in Conn, task[c] /= "none",
         UNCHANGED <<handler, queue, msgs, tag, feedConsumer, published, midway>>,
         \A d \in Conn : conn'[d] = "none" <=> conn[d] = "none",
         \A d \in Conn \ {c} :
            /\ task'[d] = task[d] /\ buffer'[d] = buffer[d] /\ received'[d] = received[d]
            /\ lock' = d => lock = d,
         task'[c] \in {"live", "acking", "stale", "dead"}, task'[c] = "stale" => task[c] = "stale",
         Broker', Ordered(c)',
         lock' = c => task'[c] \in {"live", "stale"} /\ buffer'[c] /= <<>>,
         task'[c] = "acking" => buffer'[c] /= <<>>
  PROVE  IInv'
  <1>1. TypeOK /\ Broker /\ Connections /\ Tags /\ Working /\ Order /\ Channel
    BY DEF IInv
  <1>2. Connections'
    BY <1>1 DEF Connections
  <1>3. Tags'
    <2> SUFFICES ASSUME NEW u \in User, tag[u] /= None
                 PROVE  /\ UserOf[tag[u]] = u /\ handler[tag[u]] = "done"
                        /\ task'[tag[u]] \in {"live", "acking", "dead"}
      BY DEF Tags
    <2>1. tag[u] \in Conn
      BY <1>1 DEF TypeOK
    <2>2. /\ UserOf[tag[u]] = u /\ handler[tag[u]] = "done"
          /\ task[tag[u]] \in {"live", "acking", "dead"}
      BY <1>1 DEF Tags
    <2>3. CASE tag[u] = c
      BY <2>2, <2>3
    <2>4. CASE tag[u] # c
      BY <2>1, <2>2, <2>4
    <2> QED BY <2>3, <2>4
  <1>4. Working'
    BY <1>1 DEF Working
  <1>5. Order'
    <2> SUFFICES ASSUME NEW d \in Conn \ {c}
                 PROVE  Ordered(d)'
      BY DEF Order
    <2>1. Ordered(d)
      BY <1>1 DEF Order
    <2> QED BY <2>1 DEF Ordered, Increasing, Below, UpTo
  <1>6. Channel'
    BY <1>1 DEF Channel, FeedConsumerStays
  <1> QED BY <1>2, <1>3, <1>4, <1>5, <1>6, IInvPrime

LEMMA LockKeeps == IInv /\ (\E c \in Conn : LockPeer(c)) => IInv'
  <1> SUFFICES ASSUME IInv, NEW c \in Conn, LockPeer(c)
               PROVE  IInv'
    OBVIOUS
  <1>1. TypeOK /\ Broker /\ Order
    BY DEF IInv
  <1>2. /\ task[c] \in {"live", "stale"} /\ buffer[c] /= <<>> /\ lock = "free"
        /\ UNCHANGED <<conn, handler, peers, old, watchdog, broker, buffer, history>>
    BY DEF LockPeer
  <1>3. \/ lock' = c /\ task' = task
        \/ task' = [task EXCEPT ![c] = "dead"] /\ lock' = lock
    BY DEF LockPeer
  <1>4. /\ task' \in [Conn -> TaskState] /\ \A d \in Conn \ {c} : task'[d] = task[d]
        /\ task'[c] \in {task[c], "dead"} /\ (lock' = c => task'[c] = task[c])
        /\ lock' \in {"free", c}
    <2>1. CASE lock' = c /\ task' = task
      BY <1>1, <2>1 DEF TypeOK
    <2>2. CASE task' = [task EXCEPT ![c] = "dead"] /\ lock' = lock
      BY <1>1, <1>2, <2>2, Names DEF TypeOK, TaskState
    <2> QED BY <1>3, <2>1, <2>2
  <1>5. TypeOK'
    BY <1>1, <1>2, <1>4 DEF TypeOK, broker, history, log
  <1>6. Broker'
    BY <1>1, <1>2 DEF Broker, Increasing, Below, UpTo, broker, history, log
  <1>7. Ordered(c)'
    <2>1. Ordered(c)
      BY <1>1 DEF Order
    <2> QED BY <1>2, <1>4, <2>1 DEF Ordered, Increasing, Below, UpTo, broker, history, log
  <1>8. \A d \in Conn \ {c} : lock' = d => lock = d
    BY <1>4, Names
  <1> QED BY <1>2, <1>4, <1>5, <1>6, <1>7, <1>8, TaskKeeps DEF broker, history, log

\* What the task sends comes after what its client has got and before the rest.
LEMMA SendKeeps == IInv /\ (\E c \in Conn : post_event_message(c)) => IInv'
  <1> SUFFICES ASSUME IInv, NEW c \in Conn, post_event_message(c)
               PROVE  IInv'
    OBVIOUS
  <1> DEFINE b == buffer[c]
             e == Head(b)
             r == received[c]
             u == UserOf[c]
  <1>1. TypeOK /\ Broker /\ Working /\ Order
    BY DEF IInv
  <1>2. /\ lock = c /\ lock' = "free"
        /\ received' = IF conn[c] = "open" THEN [received EXCEPT ![c] = Append(r, e)] ELSE received
        /\ conn' = [conn EXCEPT ![c] = IF conn[c] = "closed" THEN "reset" ELSE conn[c]]
        /\ task' = [task EXCEPT ![c] = IF conn[c] /= "reset" /\ task[c] = "live" THEN "acking" ELSE "dead"]
        /\ UNCHANGED <<handler, peers, old, watchdog, broker, buffer, published, due, torn, midway>>
    BY DEF post_event_message
  <1>3. task[c] \in {"live", "stale"} /\ b # <<>> /\ b \in Seq(Events) /\ r \in Seq(Events) /\ u \in User
    BY <1>1, <1>2 DEF Working, TypeOK
  <1>4. /\ Increasing(r) /\ Increasing(b)
        /\ \A i \in DOMAIN r, j \in DOMAIN b : r[i] < b[j]
        /\ UpTo(r, published[u]) /\ UpTo(b, published[u])
        /\ tag[u] = c /\ task[c] = "live" => Below(r, msgs[u]) /\ Below(b, msgs[u])
    BY <1>1, <1>3 DEF Order, Ordered
  <1>5. 1 \in DOMAIN b /\ e = b[1] /\ e \in Events
    BY <1>3, TailFacts
  <1> HIDE DEF b, e, r
  <1>6. /\ Append(r, e) \in Seq(Events) /\ Increasing(Append(r, e))
        /\ \A i \in DOMAIN Append(r, e) :
                (i \in DOMAIN r /\ Append(r, e)[i] = r[i]) \/ Append(r, e)[i] = e
    BY <1>3, <1>4, <1>5, AppendFacts
  <1>7. /\ received' \in [Conn -> Seq(Events)]
        /\ received'[c] = r \/ received'[c] = Append(r, e)
        /\ \A d \in Conn \ {c} : received'[d] = received[d]
    <2>1. CASE conn[c] = "open"
      BY <1>1, <1>2, <1>6, <2>1 DEF TypeOK
    <2>2. CASE conn[c] # "open"
      BY <1>1, <1>2, <2>2 DEF TypeOK, r
    <2> QED BY <2>1, <2>2
  <1>8. /\ task' \in [Conn -> TaskState] /\ \A d \in Conn \ {c} : task'[d] = task[d]
        /\ task'[c] \in {"acking", "dead"} /\ (task'[c] = "acking" => task[c] = "live")
    BY <1>1, <1>2 DEF TypeOK, TaskState
  <1>9. conn' \in [Conn -> ConnState] /\ \A d \in Conn : conn'[d] = "none" <=> conn[d] = "none"
    BY <1>1, <1>2 DEF TypeOK, ConnState
  <1>10. TypeOK'
    <2>1. peers' \subseteq {d \in Conn : conn'[d] /= "none"}
      BY <1>1, <1>2, <1>9 DEF TypeOK
    <2> QED BY <1>1, <1>2, <1>7, <1>8, <1>9, <2>1 DEF TypeOK, broker
  <1>11. Broker'
    BY <1>1, <1>2 DEF Broker, Increasing, Below, UpTo, broker
  <1>12. Ordered(c)'
    <2> DEFINE s == received'[c]
    <2>1. /\ Increasing(s)
          /\ \A i \in DOMAIN s : (i \in DOMAIN r /\ s[i] = r[i]) \/ s[i] = e
      BY <1>4, <1>6, <1>7
    <2> HIDE DEF s
    <2>2. UpTo(s, published[u])
      BY <1>4, <1>5, <2>1 DEF UpTo
    <2>3. \A j \in DOMAIN b : j # 1 => e < b[j]
      <3>1. \A j \in DOMAIN b : j \in Nat \ {0}
        BY <1>3, LenProperties
      <3> QED BY <1>4, <1>5, <3>1 DEF Increasing
    <2>4. \A i \in DOMAIN s, j \in DOMAIN b : j # 1 => s[i] < b[j]
      BY <1>4, <2>1, <2>3
    <2>5. tag[u] = c /\ task[c] = "live" => Below(s, msgs[u])
      BY <1>4, <1>5, <2>1 DEF Below
    <2>6. /\ buffer'[c] = b /\ received'[c] = s /\ tag' = tag /\ msgs' = msgs /\ published' = published
      BY <1>2 DEF b, s, broker
    <2> QED BY <1>4, <1>8, <2>1, <2>2, <2>4, <2>5, <2>6 DEF Ordered, Increasing, Below, UpTo
  <1>13. \A d \in Conn : lock' # d
    BY <1>2, Names
  <1>14. buffer'[c] /= <<>>
    BY <1>2, <1>3 DEF b
  <1> QED BY <1>2, <1>3, <1>7, <1>8, <1>9, <1>10, <1>11, <1>12, <1>13, <1>14, TaskKeeps DEF broker

LEMMA AckKeeps == IInv /\ (\E c \in Conn : basic_ack(c)) => IInv'
  <1> SUFFICES ASSUME IInv, NEW c \in Conn, basic_ack(c)
               PROVE  IInv'
    OBVIOUS
  <1> DEFINE b == buffer[c]
             u == UserOf[c]
             w == Without(unacked[u], Head(b))
  <1>1. TypeOK /\ Broker /\ Working /\ Order
    BY DEF IInv
  <1>2. /\ task[c] = "acking" /\ unacked' = [unacked EXCEPT ![u] = w]
        /\ buffer' = [buffer EXCEPT ![c] = Tail(b)] /\ task' = [task EXCEPT ![c] = "live"]
        /\ UNCHANGED <<conn, handler, peers, old, lock, watchdog, queue, msgs, tag, feedConsumer, history>>
    BY DEF basic_ack
  <1>3. b # <<>> /\ b \in Seq(Events) /\ u \in User /\ unacked[u] \in Seq(Events)
    BY <1>1, <1>2 DEF Working, TypeOK
  <1>4. /\ Increasing(unacked[u]) /\ Below(unacked[u], msgs[u]) /\ UpTo(unacked[u], published[u])
    BY <1>1, <1>3 DEF Broker
  <1>5. /\ w \in Seq(Events) /\ Increasing(w)
        /\ \A k \in DOMAIN w : \E i \in DOMAIN unacked[u] : w[k] = unacked[u][i]
    BY <1>3, <1>4, WithoutFacts
  <1>6. /\ Tail(b) \in Seq(Events)
        /\ \A i \in DOMAIN Tail(b) : i + 1 \in DOMAIN b /\ i + 1 # 1 /\ Tail(b)[i] = b[i + 1]
        /\ Increasing(b) => Increasing(Tail(b))
    BY <1>3, TailFacts
  <1> HIDE DEF w, b, u
  <1>7. unacked' \in [User -> Seq(Events)] /\ unacked'[u] = w /\ \A v \in User \ {u} : unacked'[v] = unacked[v]
    BY <1>1, <1>2, <1>3, <1>5 DEF TypeOK
  <1>8. buffer' \in [Conn -> Seq(Events)] /\ buffer'[c] = Tail(b) /\ \A d \in Conn \ {c} : buffer'[d] = buffer[d]
    BY <1>1, <1>2, <1>6 DEF TypeOK
  <1>9. task' \in [Conn -> TaskState] /\ task'[c] = "live" /\ \A d \in Conn \ {c} : task'[d] = task[d]
    BY <1>1, <1>2 DEF TypeOK, TaskState
  <1>10. TypeOK'
    BY <1>1, <1>2, <1>7, <1>8, <1>9 DEF TypeOK, history, log
  <1>11. published' = published /\ received' = received
    BY <1>2 DEF history, log
  <1>12. Broker'
    <2> SUFFICES ASSUME NEW v \in User
                 PROVE  /\ Increasing(unacked'[v]) /\ Increasing(msgs'[v]) /\ Below(unacked'[v], msgs'[v])
                        /\ UpTo(unacked'[v], published'[v]) /\ UpTo(msgs'[v], published'[v])
      BY DEF Broker, Increasing, Below, UpTo
    <2>1. CASE v = u
      <3>1. Below(w, msgs[u]) /\ UpTo(w, published[u])
        BY <1>4, <1>5 DEF Below, UpTo
      <3> QED BY <1>1, <1>2, <1>5, <1>7, <1>11, <2>1, <3>1 DEF Broker
    <2>2. CASE v # u
      BY <1>1, <1>2, <1>7, <1>11, <2>2 DEF Broker
    <2> QED BY <2>1, <2>2
  <1>13. Ordered(c)'
    <2>1. /\ Increasing(received[c]) /\ Increasing(b)
          /\ \A i \in DOMAIN received[c], j \in DOMAIN b : j /= 1 => received[c][i] < b[j]
          /\ UpTo(received[c], published[u]) /\ UpTo(b, published[u])
          /\ tag[u] = c => Below(received[c], msgs[u]) /\ Below(b, msgs[u])
      BY <1>1, <1>2 DEF Order, Ordered, b, u
    <2> DEFINE t == Tail(b)
    <2>2. \A j \in DOMAIN t : j + 1 \in DOMAIN b /\ j + 1 # 1 /\ t[j] = b[j + 1]
      BY <1>6
    <2>3. Increasing(t)
      BY <1>6, <2>1
    <2> HIDE DEF t
    <2>4. \A i \in DOMAIN received[c], j \in DOMAIN t : received[c][i] < t[j]
      BY <2>1, <2>2
    <2>5. UpTo(t, published[u]) /\ (tag[u] = c => Below(t, msgs[u]))
      BY <2>1, <2>2 DEF UpTo, Below
    <2>6. buffer'[c] = t
      BY <1>8 DEF t
    <2> QED BY <1>2, <1>9, <1>11, <2>1, <2>3, <2>4, <2>5, <2>6 DEF u, Ordered, Increasing, Below, UpTo
  <1>14. lock # c
    BY <1>1, <1>2 DEF Working
  <1> QED BY <1>2, <1>8, <1>9, <1>10, <1>11, <1>12, <1>13, <1>14, TaskKeeps DEF history

-----------------------------------------------------------------------------
(* The watchdog deletes a queue.                                            *)

LEMMA DeleteKeeps ==
  ASSUME IInv, TypeOK', NEW u \in User, delete_queue(u),
         UNCHANGED <<conn, handler, lock, task, buffer, published, received>>
  PROVE  IInv'
  <1>1. TypeOK /\ Broker /\ Connections /\ Tags /\ Working /\ Order /\ Channel
    BY DEF IInv
  <1>2. /\ queue' = [queue EXCEPT ![u] = "absent"] /\ msgs' = [msgs EXCEPT ![u] = <<>>]
        /\ unacked' = [unacked EXCEPT ![u] = <<>>] /\ tag' = [tag EXCEPT ![u] = None]
        /\ feedConsumer' = feedConsumer
    BY DEF delete_queue
  <1>3. midway' = (midway \/ \E c \in Conn : UserOf[c] = u /\ handler[c] \in {"bind", "consume"})
    BY DEF delete_queue
  <1>4. /\ msgs'[u] = <<>> /\ unacked'[u] = <<>> /\ tag'[u] = None
        /\ \A v \in User \ {u} : msgs'[v] = msgs[v] /\ unacked'[v] = unacked[v] /\ tag'[v] = tag[v]
                                 /\ queue'[v] = queue[v]
    BY <1>1, <1>2 DEF TypeOK
  <1>5. Broker'
    <2> SUFFICES ASSUME NEW v \in User
                 PROVE  /\ Increasing(unacked'[v]) /\ Increasing(msgs'[v]) /\ Below(unacked'[v], msgs'[v])
                        /\ UpTo(unacked'[v], published'[v]) /\ UpTo(msgs'[v], published'[v])
      BY DEF Broker, Increasing, Below, UpTo
    <2>1. CASE v = u
      BY <1>4, <2>1, Empty DEF Increasing, Below, UpTo
    <2>2. CASE v # u
      BY <1>1, <1>4, <2>2 DEF Broker
    <2> QED BY <2>1, <2>2
  <1>6. Connections'
    BY <1>1 DEF Connections
  <1>7. Tags'
    <2> SUFFICES ASSUME NEW v \in User, tag'[v] /= None
                 PROVE  /\ UserOf[tag'[v]] = v /\ handler[tag'[v]] = "done"
                        /\ task[tag'[v]] \in {"live", "acking", "dead"}
      <3>1. TypeOK'
        OBVIOUS
      <3> QED BY <3>1 DEF Tags, TypeOK
    <2>1. v # u /\ tag'[v] = tag[v]
      BY <1>4
    <2> QED BY <1>1, <2>1 DEF Tags
  <1>8. Working'
    BY <1>1 DEF Working
  <1>9. Order'
    <2> SUFFICES ASSUME NEW c \in Conn
                 PROVE  Ordered(c)'
      BY DEF Order
    <2>1. Ordered(c) /\ UserOf[c] \in User
      BY <1>1 DEF Order
    <2>2. tag'[UserOf[c]] = c => tag[UserOf[c]] = c /\ msgs'[UserOf[c]] = msgs[UserOf[c]]
      BY <1>4, <2>1, Names
    <2> QED BY <2>1, <2>2 DEF Ordered, Increasing, Below, UpTo
  <1>10. Channel'
    <2>1. midway => midway'
      BY <1>3
    <2>2. ASSUME NEW c \in Conn, handler[c] \in {"bind", "consume"}, queue'[UserOf[c]] = "absent"
          PROVE  midway'
      <3>1. CASE UserOf[c] = u
        BY <1>3, <2>2, <3>1
      <3>2. CASE UserOf[c] # u
        <4>1. queue[UserOf[c]] = "absent"
          BY <1>4, <2>2, <3>2
        <4> QED BY <1>1, <2>1, <2>2, <4>1 DEF Channel
      <3> QED BY <3>1, <3>2
    <2> QED BY <1>1, <1>2, <2>1, <2>2 DEF Channel, FeedConsumerStays
  <1> QED BY <1>5, <1>6, <1>7, <1>8, <1>9, <1>10, IInvPrime

LEMMA CheckKeeps == IInv /\ (\E c \in Conn : CheckPeer(c)) => IInv'
  <1> SUFFICES ASSUME IInv, NEW c \in Conn, CheckPeer(c)
               PROVE  IInv'
    OBVIOUS
  <1>1. TypeOK /\ Connections
    BY DEF IInv
  <1>2. /\ watchdog.pc = "scan" /\ c \in watchdog.todo
        /\ UNCHANGED <<handler, peers, old, lock, tasks, log>>
    BY DEF CheckPeer
  <1>3. watchdog \in ScanState /\ watchdog.gone \subseteq peers /\ watchdog.todo \subseteq peers
    BY <1>1, <1>2 DEF TypeOK, ScanState, Asleep
  <1>4. watchdog' \in ScanState'
    <2>1. watchdog' = [watchdog EXCEPT !.todo = @ \ {c}]
          \/ watchdog' = [watchdog EXCEPT !.todo = @ \ {c}, !.gone = @ \union {c}]
      BY DEF CheckPeer
    <2>2. c \in peers
      BY <1>2, <1>3
    <2>3. peers' = peers
      BY <1>2
    <2>4. CASE watchdog' = [watchdog EXCEPT !.todo = @ \ {c}]
      BY <1>3, <2>3, <2>4 DEF ScanState
    <2>5. CASE watchdog' = [watchdog EXCEPT !.todo = @ \ {c}, !.gone = @ \union {c}]
      BY <1>3, <2>2, <2>3, <2>5 DEF ScanState
    <2> QED BY <2>1, <2>4, <2>5
  <1>5. CASE /\ conn' \in {conn, [conn EXCEPT ![c] = IF conn[c] = "closed" THEN "reset" ELSE conn[c]]}
             /\ UNCHANGED <<broker, torn, midway>>
    <2>1. conn' \in [Conn -> ConnState] /\ \A d \in Conn : conn'[d] = "none" <=> conn[d] = "none"
      BY <1>1, <1>5 DEF TypeOK, ConnState
    <2>2. TypeOK'
      <3>1. peers' \subseteq {d \in Conn : conn'[d] /= "none"}
        BY <1>1, <1>2, <2>1 DEF TypeOK
      <3> QED BY <1>1, <1>2, <1>4, <1>5, <2>1, <3>1 DEF TypeOK, ScanState, broker, tasks, log
    <2> QED BY <1>1, <1>2, <1>5, <2>1, <2>2, CalmKeeps DEF Connections, broker, tasks, log
  <1>6. CASE delete_queue(UserOf[c]) /\ UNCHANGED conn
    <2>1. UserOf[c] \in User
      OBVIOUS
    <2>2. TypeOK'
      <3> DEFINE u == UserOf[c]
      <3>1. /\ queue' = [queue EXCEPT ![u] = "absent"] /\ msgs' = [msgs EXCEPT ![u] = <<>>]
            /\ unacked' = [unacked EXCEPT ![u] = <<>>] /\ tag' = [tag EXCEPT ![u] = None]
            /\ feedConsumer' = feedConsumer
        BY <1>6 DEF delete_queue
      <3>2. torn' \subseteq User
        BY <1>1, <1>6, <2>1 DEF delete_queue, TypeOK
      <3>3. midway' \in BOOLEAN
        BY <1>6 DEF delete_queue
      <3>4. /\ queue' \in [User -> {"absent", "declared", "bound"}] /\ msgs' \in [User -> Seq(Events)]
            /\ unacked' \in [User -> Seq(Events)] /\ tag' \in [User -> Conn \union {None}]
        BY <1>1, <3>1, Empty DEF TypeOK
      <3> QED BY <1>1, <1>2, <1>4, <1>6, <3>1, <3>2, <3>3, <3>4 DEF TypeOK, ScanState, tasks, log
    <2> QED BY <1>2, <1>6, <2>1, <2>2, DeleteKeeps DEF tasks, log
  <1> QED BY <1>5, <1>6 DEF CheckPeer

-----------------------------------------------------------------------------
(* The theorems.                                                            *)

LEMMA InitIInv == Init => IInv
  <1> SUFFICES ASSUME Init
               PROVE  IInv
    OBVIOUS
  <1>1. \A u \in User : msgs[u] = <<>> /\ unacked[u] = <<>> /\ tag[u] = None /\ published[u] = 0
    BY DEF Init
  <1>2. \A c \in Conn : /\ handler[c] = "none" /\ task[c] = "none" /\ buffer[c] = <<>> /\ received[c] = <<>>
                        /\ lock # c /\ UserOf[c] \in User
    BY Names DEF Init
  <1>3. TypeOK
    <2>1. /\ conn \in [Conn -> ConnState] /\ handler \in [Conn -> {"none", "declare", "bind", "consume", "done"}]
          /\ peers \subseteq {c \in Conn : conn[c] /= "none"} /\ old \subseteq peers
          /\ lock \in {"free", "watchdog"} \union Conn /\ watchdog = Asleep
      BY DEF Init, ConnState
    <2>2. /\ queue \in [User -> {"absent", "declared", "bound"}]
          /\ msgs \in [User -> Seq(Events)] /\ unacked \in [User -> Seq(Events)]
          /\ tag \in [User -> Conn \union {None}]
          /\ task \in [Conn -> TaskState] /\ buffer \in [Conn -> Seq(Events)]
      BY Empty DEF Init, TaskState
    <2>3. /\ feedConsumer \in BOOLEAN /\ received \in [Conn -> Seq(Events)]
          /\ due \subseteq Conn \X Events /\ torn \subseteq User /\ midway \in BOOLEAN
      BY Empty DEF Init
    <2>4. published \in [User -> 0..MaxEvents]
      BY DEF Init
    <2> QED BY <2>1, <2>2, <2>3, <2>4 DEF TypeOK
  <1>4. Broker
    BY <1>1, Empty DEF Broker, Increasing, Below, UpTo
  <1>5. Connections /\ Tags /\ Working
    BY <1>1, <1>2 DEF Connections, Tags, Working
  <1>6. Order
    BY <1>1, <1>2, Empty DEF Order, Ordered, Increasing, Below, UpTo
  <1>7. Channel
    BY <1>2 DEF Init, Channel, FeedConsumerStays
  <1> QED BY <1>3, <1>4, <1>5, <1>6, <1>7 DEF IInv

LEMMA NextKeeps == IInv /\ [Next]_vars => IInv'
  <1> SUFFICES ASSUME IInv, [Next]_vars
               PROVE  IInv'
    OBVIOUS
  <1>1. CASE \E c \in Conn : InsertPeer(c) \/ Close(c)
    BY <1>1, InsertKeeps, CloseKeeps
  <1>2. CASE \E c \in Conn : HandlerStep(c)
    BY <1>2, CreateKeeps, BindKeeps, ConsumeKeeps DEF HandlerStep
  <1>3. CASE \E c \in Conn : TaskStep(c)
    BY <1>3, LockKeeps, SendKeeps, AckKeeps DEF TaskStep
  <1>4. CASE \E u \in User : publish_message(u) \/ Deliver(u)
    BY <1>4, PublishKeeps, DeliverKeeps
  <1>5. CASE WatchdogStep \/ \E c \in Conn : Ages(c)
    BY <1>5, WatchdogKeeps, CheckKeeps DEF WatchdogStep
  <1>6. CASE UNCHANGED vars
    <2>1. TypeOK /\ Connections
      BY DEF IInv
    <2>2. TypeOK'
      BY <1>6, <2>1 DEF vars, TypeOK, broker, tasks, history, log
    <2> QED BY <1>6, <2>1, <2>2, CalmKeeps DEF vars, Connections, broker, tasks, history, log
  <1> QED BY <1>1, <1>2, <1>3, <1>4, <1>5, <1>6 DEF Next

LEMMA IInvInvariant == Spec => []IInv
  BY InitIInv, NextKeeps, PTL DEF Spec

\* Whoever connects, goes away or takes over the tag of a user, whatever the watchdog
\* deletes and however often the channel of add_consumer and post_event_message closes:
\* no client gets an event twice or out of order, and the FeedConsumer keeps the channel
\* unless a queue is deleted under a handler that is about to bind or consume from it.
THEOREM DeliveryIsSafe == Spec => []DeliverySafe
  <1>1. IInv => OnceInOrder
    BY DEF IInv, Order, Ordered, Increasing, OnceInOrder
  <1>2. IInv => DeliverySafe
    BY <1>1 DEF IInv, Channel, DeliverySafe
  <1> QED BY <1>2, IInvInvariant, PTL
=============================================================================
