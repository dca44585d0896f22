--------------------------------- MODULE Feed ---------------------------------
(***************************************************************************)
(* The post feed of the backend: posts in Postgres, one Redis list per     *)
(* reader of the feed, and RabbitMQ events between them.                   *)
(*                                                                         *)
(*   Writer    post_create, post_update, post_delete: a statement on the   *)
(*             master, then one event on the fanout exchange               *)
(*   consumer  FeedConsumer: pushes a created post onto the list of every  *)
(*             follower; an update or a deletion deletes the lists         *)
(*   Reader    get_feed: if the list is absent, fills it from a replica    *)
(*                                                                         *)
(* Each statement, Redis command and publication is one step.  A hit of    *)
(* get_feed changes nothing and is left out.  An empty Redis list is an    *)
(* absent key.  The friends of a user do not change here.                  *)
(***************************************************************************)
EXTENDS Naturals, Sequences, FiniteSets, Functions

CONSTANTS
    User,
    Post,               \* the rows table posts may get
    Author,             \* their user_id
    Follows,            \* <<u, f>>: f is a friend of u, so u reads f's posts
    Writer,             \* post handlers that may run concurrently
    Reader,             \* calls of get_feed that may run concurrently
    FeedLength,         \* FEED_LENGTH
    MaxVersion,         \* bound: versions of one post
    MaxFeed,            \* bound: no restart while a list is longer
    OnePostPerUser,     \* POSTS_FEED_ONE_POST_PER_USER
    FriendsInPostgres,  \* is PostgresFriendStorage the active friend storage?
    Lag,                \* do the replicas apply a commit later than the master?
    Fault               \* the faults that may happen

FaultKind ==
    { "pool",           \* the consumer gets no connection and returns
      "publish",        \* a publication panics
      "channel",        \* the channel of the consumer closes
      "restart" }       \* the backend process restarts

ASSUME FeedAssumption ==
    /\ Author \in [Post -> User]
    /\ Follows \subseteq User \X User
    /\ FeedLength \in Nat \ {0}
    /\ MaxVersion \in Nat \ {0}
    /\ MaxFeed \in Nat
    /\ {OnePostPerUser, FriendsInPostgres, Lag} \subseteq BOOLEAN
    /\ Fault \subseteq FaultKind

VARIABLES
    posts,      \* table posts on the master, by time_updated, latest first
    used,       \* rows ever inserted (uuid_generate_v4 never repeats an id)
    wal,        \* commits the replicas have not applied, oldest first
    replica,    \* table posts on the replicas
    feed,       \* the Redis list of each user
    queue,      \* feed.amqprs.post
    unacked,    \* delivered and never acknowledged
    consumer,   \* the FeedConsumer
    writer,     \* the post handlers
    reader,     \* the calls of get_feed
    lost        \* history: posts of which an event was never published

vars == <<posts, used, wal, replica, feed, queue, unacked, consumer, writer, reader, lost>>

\* A row in one of its versions: an update writes new content.
Row == [post : Post, ver : 1..MaxVersion]

\* post_update and post_delete publish the row they have read; what
\* post_create publishes carries the id Post::new drew, not the row's.
Id == {"row", "new"} \X Post

\* An element of a list; history: was it the row's content when it was pushed?
Entry == [id : Id, ver : 1..MaxVersion, current : BOOLEAN]

Event == [kind : {"CREATED", "UPDATED", "DELETED"}, post : Post]

Idle == [pc |-> "idle"]

Init ==
    /\ posts = <<>> /\ used = {} /\ wal = <<>> /\ replica = <<>>
    /\ feed = [u \in User |-> <<>>]
    /\ queue = <<>> /\ unacked = <<>>
    /\ consumer = Idle
    /\ writer = [w \in Writer |-> Idle]
    /\ reader = [r \in Reader |-> Idle]
    /\ lost = {}

-----------------------------------------------------------------------------
(* Table posts.                                                             *)

\* The elements of s at the indices in chosen, in their order: what a statement with
\* a WHERE leaves of a table.
Selected(s, chosen) ==
    [k \in 1..Cardinality(chosen) |->
        s[CHOOSE i \in chosen : Cardinality({j \in chosen : j <= i}) = k]]

Rows == Range(posts)

IsCurrent(p, v) == [post |-> p, ver |-> v] \in Rows

Others(p) == Selected(posts, {i \in DOMAIN posts : posts[i].post /= p})

Commit(table) ==
    /\ posts' = table
    /\ IF Lag THEN wal' = Append(wal, table) /\ UNCHANGED replica
              ELSE replica' = table /\ UNCHANGED wal

Replicate ==
    /\ wal /= <<>>
    /\ replica' = Head(wal)
    /\ wal' = Tail(wal)
    /\ UNCHANGED <<posts, used, feed, queue, unacked, consumer, writer, reader, lost>>

-----------------------------------------------------------------------------
(* The post handlers.                                                       *)

Publishing(kind, p) == [pc |-> "publish", event |-> [kind |-> kind, post |-> p]]

post_create(w, p) ==
    /\ writer[w] = Idle
    /\ p \notin used
    /\ used' = used \union {p}
    /\ Commit(<<[post |-> p, ver |-> 1]>> \o posts)
    /\ writer' = [writer EXCEPT ![w] = Publishing("CREATED", p)]
    /\ UNCHANGED <<feed, queue, unacked, consumer, reader, lost>>

\* get_by_id and the check that the caller owns the post.
ReadPost(w, p, pc) ==
    /\ writer[w] = Idle
    /\ \E row \in Rows : row.post = p
    /\ writer' = [writer EXCEPT ![w] = [pc |-> pc, post |-> p]]
    /\ UNCHANGED <<posts, used, wal, replica, feed, queue, unacked, consumer, reader, lost>>

\* Mutant: the updated row is added, the old one stays.
UpdateKeepsOldRow(w) ==
    /\ writer[w].pc = "update"
    /\ \E row \in Rows :
        /\ row.post = writer[w].post /\ row.ver < MaxVersion
        /\ Commit(<<[row EXCEPT !.ver = @ + 1]>> \o posts)
    /\ writer' = [writer EXCEPT ![w] = Publishing("UPDATED", writer[w].post)]
    /\ UNCHANGED <<used, feed, queue, unacked, consumer, reader, lost>>

\* Without the row the statement changes nothing; the event goes out all the
\* same.
post_update(w) ==
    /\ writer[w].pc = "update"
    /\ LET p == writer[w].post
           current == {row \in Rows : row.post = p}
       IN  /\ \A row \in current : row.ver < MaxVersion
           /\ \/ /\ current = {}
                 /\ UNCHANGED <<posts, wal, replica>>
              \/ \E row \in current :
                    Commit(<<[row EXCEPT !.ver = @ + 1]>> \o Others(p))
           /\ writer' = [writer EXCEPT ![w] = Publishing("UPDATED", p)]
    /\ UNCHANGED <<used, feed, queue, unacked, consumer, reader, lost>>

post_delete(w) ==
    /\ writer[w].pc = "delete"
    /\ Commit(Others(writer[w].post))
    /\ writer' = [writer EXCEPT ![w] = Publishing("DELETED", writer[w].post)]
    /\ UNCHANGED <<used, feed, queue, unacked, consumer, reader, lost>>

publish_message(w) ==
    /\ writer[w].pc = "publish"
    /\ queue' = Append(queue, writer[w].event)
    /\ writer' = [writer EXCEPT ![w] = Idle]
    /\ UNCHANGED <<posts, used, wal, replica, feed, unacked, consumer, reader, lost>>

PublishFails(w) ==
    /\ "publish" \in Fault
    /\ writer[w].pc = "publish"
    /\ writer' = [writer EXCEPT ![w] = Idle]
    /\ lost' = lost \union {writer[w].event.post}
    /\ UNCHANGED <<posts, used, wal, replica, feed, queue, unacked, consumer, reader>>

-----------------------------------------------------------------------------
(* get_feed.                                                                *)

\* Of several consecutive posts of one user, dedup_by keeps the first.
DedupByUser(rows) ==
    Selected(rows, {i \in DOMAIN rows : i = 1 \/ Author[rows[i].post] /= Author[rows[i - 1].post]})

\* The SELECT joins table friends, which only PostgresFriendStorage fills.
FeedQuery(u) ==
    LET friends == IF FriendsInPostgres THEN {f \in User : <<u, f>> \in Follows} ELSE {}
        rows == Selected(replica, {i \in DOMAIN replica : Author[replica[i].post] \in friends})
        latest == SubSeq(rows, 1, IF Len(rows) < FeedLength THEN Len(rows) ELSE FeedLength)
    IN  IF OnePostPerUser THEN DedupByUser(latest) ELSE latest

CacheMiss(r, u) ==
    /\ reader[r] = Idle
    /\ feed[u] = <<>>
    /\ reader' = [reader EXCEPT ![r] = [pc |-> "select", user |-> u]]
    /\ UNCHANGED <<posts, used, wal, replica, feed, queue, unacked, consumer, writer, lost>>

SelectFeed(r) ==
    /\ reader[r].pc = "select"
    /\ reader' = [reader EXCEPT ![r] =
                    [pc |-> "push", user |-> @.user, rows |-> FeedQuery(@.user)]]
    /\ UNCHANGED <<posts, used, wal, replica, feed, queue, unacked, consumer, writer, lost>>

\* The rows are pushed in order, each by a command of its own.
PushRow(r) ==
    /\ reader[r].pc = "push"
    /\ reader[r].rows /= <<>>
    /\ LET row == Head(reader[r].rows) IN
        feed' = [feed EXCEPT ![reader[r].user] = Append(@,
                    [id |-> <<"row", row.post>>, ver |-> row.ver,
                     current |-> IsCurrent(row.post, row.ver)])]
    /\ reader' = [reader EXCEPT ![r].rows = Tail(@)]
    /\ UNCHANGED <<posts, used, wal, replica, queue, unacked, consumer, writer, lost>>

ReturnFeed(r) ==
    /\ reader[r].pc = "push"
    /\ reader[r].rows = <<>>
    /\ reader' = [reader EXCEPT ![r] = Idle]
    /\ UNCHANGED <<posts, used, wal, replica, feed, queue, unacked, consumer, writer, lost>>

-----------------------------------------------------------------------------
(* FeedConsumer::consume.  The event stays at the head of the queue until   *)
(* it is acknowledged.                                                      *)

Followers(f) == {u \in User : <<u, f>> \in Follows}

TakeEvent ==
    /\ consumer = Idle
    /\ queue /= <<>>
    /\ consumer' = [pc |-> "fan", todo |-> Followers(Author[Head(queue).post])]
    /\ UNCHANGED <<posts, used, wal, replica, feed, queue, unacked, writer, reader, lost>>

\* In the mode with one post per user a new post invalidates as well.
Pushes == Head(queue).kind = "CREATED" /\ ~OnePostPerUser

PushCreated(u) ==
    /\ consumer.pc = "fan"
    /\ u \in consumer.todo
    /\ Pushes
    /\ LET event == Head(queue) IN
        feed' = [feed EXCEPT ![u] =
                    <<[id |-> <<"new", event.post>>, ver |-> 1,
                       current |-> IsCurrent(event.post, 1)]>> \o @]
    /\ consumer' = [pc |-> "trim", todo |-> consumer.todo, at |-> u]
    /\ UNCHANGED <<posts, used, wal, replica, queue, unacked, writer, reader, lost>>

\* LTRIM 0 FEED_LENGTH keeps the elements 0..FEED_LENGTH.
TrimFeed ==
    /\ consumer.pc = "trim"
    /\ LET u == consumer.at IN
        /\ feed' = [feed EXCEPT ![u] =
                        SubSeq(@, 1, IF Len(@) < FeedLength + 1 THEN Len(@) ELSE FeedLength + 1)]
        /\ consumer' = [pc |-> "fan", todo |-> consumer.todo \ {u}]
    /\ UNCHANGED <<posts, used, wal, replica, queue, unacked, writer, reader, lost>>

DeleteFeed(u) ==
    /\ consumer.pc = "fan"
    /\ u \in consumer.todo
    /\ ~Pushes
    /\ feed' = [feed EXCEPT ![u] = <<>>]
    /\ consumer' = [consumer EXCEPT !.todo = @ \ {u}]
    /\ UNCHANGED <<posts, used, wal, replica, queue, unacked, writer, reader, lost>>

\* Mutant: the event is acknowledged before the lists are done.
AckEarly ==
    /\ consumer.pc = "fan"
    /\ queue' = Tail(queue)
    /\ consumer' = Idle
    /\ UNCHANGED <<posts, used, wal, replica, feed, unacked, writer, reader, lost>>

AckEvent ==
    /\ consumer.pc = "fan"
    /\ consumer.todo = {}
    /\ queue' = Tail(queue)
    /\ consumer' = Idle
    /\ UNCHANGED <<posts, used, wal, replica, feed, unacked, writer, reader, lost>>

\* The early returns: neither processed nor acknowledged.
SkipEvent ==
    /\ "pool" \in Fault
    /\ consumer = Idle
    /\ queue /= <<>>
    /\ unacked' = Append(unacked, Head(queue))
    /\ queue' = Tail(queue)
    /\ UNCHANGED <<posts, used, wal, replica, feed, consumer, writer, reader, lost>>

\* The broker takes back what was not acknowledged.  get_channel_ref opens a
\* new channel; nothing registers the consumer on it.
\* (A Redis command that fails ends the consumer's task, to the same effect: no
\* event is processed before a restart.)
ChannelCloses ==
    /\ "channel" \in Fault
    /\ consumer.pc /= "gone"
    /\ consumer' = [pc |-> "gone"]
    /\ queue' = unacked \o queue
    /\ unacked' = <<>>
    /\ UNCHANGED <<posts, used, wal, replica, feed, writer, reader, lost>>

\* Every handler ends where it is; main registers the consumer again.  A restart
\* between PushCreated and TrimFeed leaves the list untrimmed and the event is
\* delivered again, so only MaxFeed keeps the lists finite here.
BackendRestarts ==
    /\ "restart" \in Fault
    /\ \A u \in User : Len(feed[u]) <= MaxFeed
    /\ consumer' = Idle
    /\ queue' = unacked \o queue
    /\ unacked' = <<>>
    /\ lost' = lost \union {writer[w].event.post :
                    w \in {w \in Writer : writer[w].pc = "publish"}}
    /\ writer' = [w \in Writer |-> Idle]
    /\ reader' = [r \in Reader |-> Idle]
    /\ UNCHANGED <<posts, used, wal, replica, feed>>

-----------------------------------------------------------------------------

WriterStep(w) == post_update(w) \/ post_delete(w) \/ publish_message(w)

ReaderStep(r) == SelectFeed(r) \/ PushRow(r) \/ ReturnFeed(r)

ConsumerStep ==
    \/ TakeEvent \/ TrimFeed \/ AckEvent
    \/ \E u \in User : PushCreated(u) \/ DeleteFeed(u)

Next ==
    \/ \E w \in Writer :
        \/ \E p \in Post : post_create(w, p) \/ ReadPost(w, p, "update") \/ ReadPost(w, p, "delete")
        \/ WriterStep(w) \/ PublishFails(w)
    \/ \E r \in Reader : ReaderStep(r) \/ \E u \in User : CacheMiss(r, u)
    \/ ConsumerStep
    \/ Replicate
    \/ SkipEvent \/ ChannelCloses \/ BackendRestarts

Spec == Init /\ [][Next]_vars
==============================================================================
