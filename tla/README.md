# Verification of otus-hightload

TLA+ models of the social network in this repository: a Rust gateway
(`backend/`), two message services (`unread/`, `dialogs/`), Postgres, Redis,
RabbitMQ and Tarantool, and the Patroni (`.patroni/`) that keeps their
Postgres highly available. TLC checks the modules on small instances; TLAPS
proves the theorems of the eight `...Proofs` modules for every instance.
`PROJECT.json` maps every definition to the lines it translates and lists the
runs, the mutants that break each property, the hazards, the finding and the
theorems.

To check: `tlc -config X.cfg M` for each run of the table below, and `tlapm` on
each proof module; the longest takes a few minutes.

## The system

| Component | Code | State | Operations |
|---|---|---|---|
| Dialog saga | `backend/src/main.rs` 741-1209, `unread/src`, `dialogs/src` | table `dialog_messages` of each service | `dialog_send`, `dialog_mark_as_read`, `dialog_list`, `dialog_count`, `dialog_get_unread` |
| Post feed | `backend/src/post.rs`, `redis.rs`, `rabbitmq.rs` | table `posts` (master, replicas), Redis list `feed:<user>`, queue `feed.amqprs.post` | `post_create`, `post_update`, `post_delete`, `get_feed`, `FeedConsumer::consume` |
| WebSocket delivery | `backend/src/websocket.rs` | peer map, a queue and a consumer per user | `handle_connection`, `WSConsumer::consume`, `remove_disconnected_peers_and_queues` |
| Friends | `backend/src/friend.rs` and its two storages | space `friends` in Tarantool (or table `friends`) | `friend_set`, `friend_delete`, searches |
| Tarantool client, sessions | `backend/src/tarantool.rs`, `session.rs`, `tarantool_session_storage.rs` | spaces on a leader and its replicas | `get_client`, `get_leader_client`, session create and lookup |
| Users | `backend/src/user.rs` | table `users` | register, login, search |
| Pools, migrations, deployment | `postgres.rs` (three), `.docker`, `.kube` | none | configuration |
| Patroni: decisions | `ha.py`, `watchdog/`, `postgresql/sync.py`, `bootstrap.py`, `rewind.py` | the keys of the DCS as the node has read them, watchdog, what is remembered of the last cycle | one HA cycle, its long actions |
| Patroni: stores | `dcs/*.py` | leader key, session, versions, the watched cache, the list of servers | load, acquire, renew, delete, watch, a call with retries |
| Patroni: threads and Postgres | `async_executor.py`, `postgresql/*.py`, `__main__.py` | the scheduled action, critical task, postmaster, configuration files, slots, callback in hand | start, stop, restart, promote, follow, reload, sync of slots |
| Patroni: requests | `api.py`, `ctl.py`, `config.py` | `/failover`, `/config`, scheduled restart | switchover, restart, reinitialize, PATCH and PUT, health checks |

How they interact. `dialog_mark_as_read` is an orchestrated saga of three HTTP
calls: fetch from the unread service, save in the dialogs service, remove from
the unread service; nginx stands before each service. A post handler commits
on the Postgres master and then publishes one event on a fanout exchange, for
`FeedConsumer`, and one per follower on a direct exchange, for the WebSocket
consumers. `FeedConsumer` pushes onto or deletes Redis lists; `get_feed` fills
an absent list from a Postgres replica; `friend_set` and `friend_delete`
delete lists too. Every handler looks its session up in Tarantool.

Patroni runs next to every Postgres. Its nodes speak to each other through the
keys of a DCS: the owner of the leader key is the primary, everybody else
streams from it. The HA loop reads the cluster, decides, and leaves long
actions to a thread; the REST API and `patronictl` write keys or schedule
actions; the watch of the DCS wakes the loop. The program's masters and
replicas are what Patroni makes of it: what it loses, they lose.

What is hard. No operation over two stores is a transaction: a handler may end
between any two of its steps. Handlers of all requests interleave at every
`await`. Answers of the saga's services come late, or from nginx in their
place, or not at all, and clients retry. Cache fills race invalidations, and
replicas lag. Deliveries that are not acknowledged come back only when the
channel closes, and a reopened channel has no consumers. In Patroni a decision
is taken on a reading of the DCS that may be old, by a process that may be
suspended, while the key it rests on expires; writes are repeated when their
answer is lost; threads of one node schedule, cancel and restart the same
Postgres; and a node may die between any two writes. The `hazards` of
`PROJECT.json` give the line of each.

What would make each component correct:

- Saga: a message sent is in at least one store; it moves from unread to read
  and never back; the answer "ok" means the move is complete; every call ends.
- Feed: after an update or a deletion no list keeps the old content for good;
  a list, if it exists, is the feed a query would return; its length is
  bounded.
- WebSocket: while a user is connected his events reach him, once and in
  order; one connection's end does not disturb another.
- Friends: after a change of the relation no list shows the old one for good.
- Tarantool: a session that login has returned is found; a write reaches the
  leader.
- Listing: the answer is the latest `limit` messages and the handler does not
  panic.
- Patroni: one primary at a time, and if two, not for long; no acknowledged
  transaction lost in synchronous mode; a diverged node heals; one cluster;
  requests end in what they ask for or are refused; a node runs with what the
  configuration says; slots survive a failover.

## Modules

| Module | Content |
|---|---|
| `MessageLifecycle` | abstract specification: the stages of one message, in a strict form (what lesson 29 describes) and a lossy one |
| `DialogSaga` | the saga: both stores, every call of `dialog_mark_as_read` and the handler that serves its batch, seven kinds of fault |
| `DialogSagaProps` | its properties, and the refinement mapping to `MessageLifecycle` |
| `Feed`, `FeedProps` | posts, replicas, lists, events, the consumer, the post handlers and the misses of `get_feed`; its properties |
| `BackendProofs` | the saga and the feed, proved; the two share no name |
| `WebSocket`, `WebSocketProps` | connections, the map of peers, a queue and a consumer per user, the watchdog, the shared channel; its properties |
| `WebSocketProofs` | delivery, proved |
| `PatroniHa` | the lease: leader key, HA loop, promotion thread, watchdog, failsafe mode, the store reachable or not |
| `PatroniHaProofs` | proofs about one node: the causes of two primaries, health checks, parameters, recovery configuration |
| `PatroniBootstrap` | the race for `/initialize`, initdb and post bootstrap, copies, backups restored without a leader, nodes that bring data |
| `PatroniBootstrapProofs` | one cluster, whose data are kept, proved |
| `PatroniSync` | `/sync`, `synchronous_standby_names`, who may race for the key, commits and their acknowledgement |
| `PatroniSwitchover` | `/failover`, the REST API and `patronictl` that write it, the leader that demotes for it, the candidates, pause |
| `PatroniSwitchoverProofs` | one primary, and requests that reach their candidate; what the coordinator of Citus skips: proved |
| `PatroniDcs` | the leader key in etcd, etcd v3, Consul, ZooKeeper, Raft and Kubernetes |
| `PatroniDcsProofs` | true answers and no stolen key, proved |
| `PatroniWatch` | the caches of etcd v3 and Kubernetes that a watch keeps, and the event that wakes the loop |
| `PatroniClient` | which server of etcd a call goes to, for how long, and when the list of servers is read again |
| `PatroniNode` | HA loop, `AsyncExecutor`, critical tasks, API threads, SIGTERM on one node |
| `PatroniNodeProofs` | what is cancelled gives no primary; copies of logical slots: proved |
| `PatroniRewind` | timelines, the check and what `pg_control` lets it see, `pg_rewind` and its failures, crash recovery, the checkpoint after a promotion |
| `PatroniSlots` | permanent logical slots: publication, copies, the advance thread, readiness |
| `PatroniTopology` | tags: whom to follow, which slots to keep, who sends `hot_standby_feedback` |
| `PatroniCitus` | the thread that keeps `pg_dist_node` |
| `PatroniConfig` | `/config`: its writers, its readers, adjusting and merging |
| `PatroniParameters` | a parameter that takes a restart, `pending_restart`, scheduled restarts |
| `PatroniRecovery` | `check_recovery_conf` and the files it looks at |
| `PatroniUnits` | numeric parameters: conversion, comparison, ranges |
| `PatroniHealth` | what the health checks answer while the HA loop is late |
| `PatroniCallbacks` | the scripts and the thread that runs them |
| `PatroniPostmaster` | stopping and starting the postmaster, its pid file, when key and watchdog are let go |
| `PatroniClusterProofs` | proofs about synchronous replication, the postmaster, callbacks and watch caches |
| `MCDialogSaga`, `MCFeed`, `MCWebSocket`, `MCPatroniRewind` | constants and symmetry for TLC |
| `MCPatroniLead`, `MCPatroniServer`, `MCPatroniCluster` | instances of several Patroni modules in one run |

A Patroni module ends, after a dashed line, with its properties and a
conjunction of them (`HaSafe`, `SyncSafe`, ...), which is what the runs name.
Definitions marked "Variant" are forms of the code with a plausible bug, used
by the mutants.

The modules of Patroni share no state: each takes what the others do
(an expired key, a changed leader, a promotion) as an action of its own, at any
time; where it relies on what another module shows, its header says so. The
three composites put several of them side by side: `part` says which module a
behaviour is about, and the others rest in an initial state. A composite extends
the modules whose theorems are proved, so that its run checks their assumptions
and the very definitions the theorems name; the rest are instances, and `x1`, `x2`,
... are their variables in the order in which each declares them.

### DialogSaga

`unread` and `read` are the rows of the two tables, as sets of message ids:
nothing rewrites a message on its way, so its id stands for it. For a call `r`,
`gateway[r]` is the line of `dialog_mark_as_read` it is at, `ids[r]` the
payload, `batch[r]` the fetched messages not saved yet, `service[r]` the
handler of `/send_messages_vec` and `remover[r]` that of `/messages/remove`; both
can outlive the call. `sent` remembers
the ids drawn. Each SQL statement is a step, because each commits on its own
(no handler opens a transaction); the inserts of a batch come in any order,
since the `SELECT` gives none. The faults, each with its actions:

| Fault | What happens in the code |
|---|---|
| `get` | `/messages/get` gives no array of messages; the gateway's `unwrap` ends the handler |
| `refuse` | dialogs answers 400 or 500 before its loop |
| `insert` | an `INSERT` fails in the database: 500, the earlier ones stay. (A second row with the same primary key fails without any fault.) |
| `die` | the dialogs handler or process dies in its loop |
| `proxy` | nginx answers 502 or 504 for `/send_messages_vec` or `/messages/remove`; the handler may go on, and the `DELETE` commit later |
| `remove` | `/messages/remove` answers an error and has deleted nothing |
| `stop` | the gateway handler ends at any `await`, possibly after the `DELETE` |

`Overlapping` says whether two calls in progress may name the same message.
Nothing in the code prevents it: a client may retry, and a user may have two
devices. A client names only ids it has seen, so ids already sent.

What the model takes as given. It calls the unread service's `/send` handler
directly and assumes tables with the columns the statements name. At this
commit the gateway posts to `/send/send` (`main.rs` 796 and 816; in the same
way `/list/list` and `/count/count`), and the migration of the unread service
creates other columns than its statements use, so a deployment from the
repository alone does not get as far as the saga. The routes
`/messages/remove` and `/send_messages_vec` use the replica pool, which must
therefore reach a server that accepts writes. There is no check that the
caller of mark-as-read takes part in the dialog, so ownership is no part of
the state.

### Feed

`posts` is the table on the master, ordered by `time_updated`; `wal` holds the
commits the replicas have not applied to `replica` (with `Lag = FALSE` they
apply them at once). `feed[u]` is the Redis list, `<<>>` when the key is
absent, as in Redis. A row is a post and a version. A list element carries an
`id`, which keeps apart the id of the row and the one `Post::new` draws (what
`post_create` publishes has the latter, while the row gets an id from the
database), and `current`: was it the row's content when it was pushed? The
event being processed stays at the head of `queue` until it is acknowledged;
`unacked` holds deliveries the consumer returned from early. `lost` remembers
posts whose event a handler did not publish.

Post handlers, calls of `get_feed` and the consumer interleave at every
statement and command. Faults: `pool` (an early return of the consumer),
`publish` (a publication panics after the commit), `channel` (the channel
closes; `get_channel_ref` opens another one, on which nothing consumes),
`restart`. One backend process runs, as in `.kube/deploy-backend.yaml`.

What a statement with a `WHERE` leaves of a table is `Selected(rows, P)`, the rows of
the chosen indices in their order. It stands in the place of `SelectSeq`, whose
recursive definition the provers cannot unfold, and `Ranked` and `SelectedFacts`
say what one has to know of it.

`FriendsInPostgres` chooses the friend storage. `main.rs` installs
`TarantoolFriendStorage`; then the query of `get_feed`, which joins table
`friends`, finds nobody and a miss is empty. The run takes the Postgres
storage, which `main.rs` names in a comment and with which the query does what
it is meant to: only with it do fills and invalidations race at all.

`POSTS_FEED_ONE_POST_PER_USER`, which nothing in the repository sets, is the
constant `OnePostPerUser`; the run has it off. A single call then shows what
`dedup_by` does: it compares neighbours, so posts of two friends in turn all
stay.

### WebSocket

`conn[c]` is the TCP connection as the process may use it: after the client has
gone (`closed`) one more send succeeds, and the reset that answers it makes
every later send fail (`reset`). The model simplifies here: the
reset arrives before the next send to that peer, so exactly one send is lost,
where in practice a burst of them may be. `peers` is `WS_STATE`; `old`
are the peers inserted 5 seconds ago, so time is only the action `Ages`, and
`Slow` says whether it may come before the registration is complete. `lock` is
the mutex of the map, which `WSConsumer` and the watchdog hold across their
sends. `queue`, `msgs`, `unacked` and `tag` are the broker's: the queue of a
user, its messages, the deliveries not acknowledged, and the connection whose
consumer has the tag `ws_pub_sub<user>` (`None` without one; the lock may also be
`"free"` or with the `"watchdog"`, which the module assumes to be no connection). `task` and `buffer` are the consumer
task of a connection and what was delivered to it. Every operation on the
channel holds the lock of the channel from beginning to end and is one step.

A bind or a consume that names a queue that is not there is refused with a
closed channel (`ChannelCloses`): all consumers on it are gone, `FeedConsumer`
too, what was not acknowledged goes back to the queues, and a task in the
middle of a message panics at its acknowledgement. `get_channel_ref` opens
another channel, on which only later connections register. `torn` and `midway`
remember the two ways in which a deleted queue hurts somebody else.

### Patroni: the lease

`PatroniHa`. `leader` and `age` are the key and how long ago it was written,
`pc[n]` where the HA cycle of a node is; a cycle awaits the store twice (load,
then update or acquire), and any time may pass in between, since a process may
be suspended or the answer late. `watchdog` counts down from `Timeout` after
each `keepalive`; it is a device, so it resets the node in time. `cluster` is
what the node has read, `promoting` its promotion thread. The store may be
unreachable for one node or for all; with `failsafe_mode` the leader then asks
the members (`check_failsafe_topology`), and a member that accepts does not race
for the key while the call counts (`pinged`).

Three variables only remember. `unheeded[n]` is how long a call of `/failsafe`
counts that `n` has accepted and its present cycle does not know of: the cycle
loaded the cluster before the call came, or `n` has reset `_failsafe` since.
`contested` says that the key was taken by a node in that situation. `late[n]` says
that the watchdog of `n` was activated for a key with less than `Timeout` left, or
for a contested one. `SplitBrainHasCause` has these as the only causes of two
primaries, if the watchdog fires within half of the ttl (`HalfTtl`). That is
`safety_margin: -1`, which `docs/watchdog.rst:20` asks for where the guarantee is
needed; the default, 5 seconds before the ttl, leaves the time between the write
of the key and the `keepalive` out of account. What `docs/dcs_failsafe_mode.rst:59`
says of replicas that have accepted a call is true but for the race that was
under way.

`PatroniDcs` is the key itself, once for each of the six stores (`backend`):
sessions and leases, conditions on a version, answers that are lost although
the write was done, retries, stale reads and expiry. A copy of the key carries
whether its version is the present one; versions are not counted. `NoTheft` lets a
valid key go only with its owner, with the one exception of ZooKeeper's
`_update_leader`, which deletes whatever key there is once the session it has
loaded is not its own any more.

`PatroniBootstrap` starts without a cluster, or with nodes that bring data of
one or more. The configuration says of each node whether it is `nofailover`, has a
`bootstrap` section (`configured`: only such nodes race) and has a way to create a
replica without a leader (`backups`). The cycle reads `/initialize` and the leader, then
decides; its long actions (initdb, post bootstrap, a copy, a restored backup) end later
or fail, and a machine may stop anywhere. What data a backup has nobody checks:
`restored` remembers that one was of another cluster than `/initialize` names then. `PatroniSync` keeps the log of each node as a sequence of
commits, `ssn` (what `synchronous_standby_names` says) and `ready` (whom
`SyncHandler` counts), and conditional writes of `/sync`: `acked` are the
commits a client has been told of. `PatroniSwitchover` has the requests of
operators with the answer each gets, the leader's cycle (which demotes in a
thread) and the others' (which look at LSN, tags and `/failover` before they
race). `PatroniRewind` keeps the WAL of a node as a sequence of records that
know timeline and author, so that "diverged" is a fact about sequences, and
compares it with what `pg_control` and the history file show. Of a replica that is
stopped these show the minimum recovery ending location (`control.min`), which after a crash
may be behind its WAL, and of a former primary that crashed nothing at all: then there
is no verdict. `overlooked` remembers the nodes that passed a check which did not
look at all their WAL, and those whose source got another history later.

### Patroni: one node

`PatroniNode` is the interleaving of threads: the lock of `AsyncExecutor` that
the HA loop holds for a cycle, `schedule`, the thread that takes its action, the
two critical tasks (start of a postmaster, commit of a promotion) and their
cancellation. `fenced` remembers the actions the loop has cancelled because the
key was lost, and `pg.by` the action under way that has made Postgres what it is.
`raced` says that a forced reinitialize has cancelled an action whose thread had not
begun, or cleared the one scheduled next: then a second action can begin beside it,
and `AsyncExecutor.run` of either resets the critical task and the schedule of the
other (`async_executor.py:108`). `PatroniPostmaster` is what `Postgresql.stop` does signal by
signal while the postmaster, its backends and the operating system go their
way. `PatroniCallbacks` has the places that announce a role and the executor
that kills one script for the next. `PatroniHealth` lets the API answer at any
moment between the steps of the HA loop, with time relative to now.

`PatroniParameters` and `PatroniRecovery` are about one server: what is asked
for, what is in the files, what Postgres has read of them and what Patroni
remembers. `PatroniConfig` has the API thread and the main loop share objects in
memory, as they do in Python: an object is a number, its content is in `heap`.
`PatroniTopology` evaluates the rules for slots on every node at once; members join and
leave, and their tags change one at a time. `Walk[n, m, seen]` is `get_slot_name_on_primary`
with both its arguments, since `_get_permanent_slots` gives it the name of the node that
computes and the tags of another member. `PatroniUnits` computes with small powers (a kB of 16
B) instead of 1024, since TLC's integers end at 2^31; the rules do not depend on
the number. `PatroniSlots` takes LSNs and transaction ids as one position.
`PatroniWatch` has the store as a log of revisions, `PatroniClient` the time a
call has taken in tenths of a second. `PatroniCitus` has the table, the open
transaction, the cache and the tasks.

## Runs

| Run | Instance | States | What it shows |
|---|---|---|---|
| `saga_faults` | 2 messages, 2 calls, all faults, overlapping | 95 k | `LossNeedsIgnoredStatus`, `DuplicateHasCause`, `CallEnds`, the lossy life cycle |
| `saga_serial` | 3 messages, 2 calls, fault `get`, no overlap | 6 k | `NothingLost`, `OkMeansRead`, `MarkedIsRead` |
| `saga_doc` | 2 messages, 2 calls, no fault, overlapping | violation | `RemovedOnlyWhenSaved` fails |
| `feed_faults` | 1 post, 2 versions, 2 handlers, 1 miss, lag, all faults | 380 k | `CurrentUntilInvalidated` |
| `ws_shared` | 2 connections of a user, 1 event, slow registrations | 98 k | `DeliverySafe`, `Served`, `Cleaned` |
| `lead` | `PatroniHa`: 2 nodes, ttl 2, watchdog 1, failsafe; `PatroniBootstrap`: 2 nodes, 2 identifiers, 2 faults, the configurations `Kinds` | 325 k | `SplitBrainEnds`, `BootstrapSafe`, `BootstrapLives` |
| `node` | 2 threads, 2 events | 229 k | `NodeSafe`, `UnlockedPrimaryEnds` |
| `switchover` | 3 nodes, one lags, 1 request, 3 disturbances | 561 k | `SwitchoverSafe`, `RequestEnds`, `ParallelEnds` |
| `dcs` | 2 nodes, each of 6 stores, 2 faults | 298 k | `DcsSafe`, `NoTheft`, `LockServed` |
| `rewind` | 3 nodes, of which one copies and two rewind, 3 records, 2 faults | 489 k | `RewindSafe`, `DivergedHeals` |
| `server` | `PatroniHa`: 2 nodes, ttl 2, watchdog 1, failsafe; tags: 4 names with 2 slot names, 4 tags set at a time; parameters: amounts 1 and 2; recovery: 2 hosts; health: 2 members, ttl 2; units: 165 texts; Citus: coordinator and 2 workers, 1 fault | 1.05 M | `HaSafe`, `TopologySafe`, `ParametersSafe`, `RecoverySafe`, `HealthSafe`, `UnitsSafe`, `CitusSafe` |
| `cluster` | sync: 3 nodes, 1 commit, 1 fault; slots: 2 nodes, 3 positions, 1 fault; config: 1 node, 3 writes, 1 fault; watch: 1 key, 3 revisions, 1 fault; client: 1 to 4 servers, `retry_timeout` 3 s, 3 changes with one server and one less with each more; callbacks: 4 events; postmaster: 2 backends, 2 faults | 1.9 M | `SyncSafe`, `SlotsSafe`, `ConfigSafe`, `WatchSafe`, `ClientSafe`, `CallbacksSafe`, `PostmasterSafe` |

Why the bounds are enough. A loss or a duplicate in the saga involves one
message and two calls: one that saved it and one that removes it; a second
message is needed for a batch that is saved in part. A third one lets two
batches overlap in part: that was checked too (804 k states), and the theorems
remove the bounds for every safety property of the saga. In the feed every list is the business of one follower,
and what can go wrong with a cached post involves that post, two handlers of
it, one fill and the consumer; two versions tell old from new. The theorem takes any number of them. Connections meet
only in the queue of their user and in the channel; two of one user share both,
and `FeedConsumer` stands for everybody else on the channel. One event tells
repetition; that two come in order is what `DeliveryIsSafe` proves for any number,
and its inductive invariant was checked with two (657 k states).

Two nodes are enough for a lease, a store, a bootstrap and a slot: everything is
between the one that has the key and one that wants it. Three are needed where a
third makes the difference: a quorum to name and a standby to move it to
(`PatroniSync`), a candidate and a node that does not qualify
(`PatroniSwitchover`), a leader that is rewound to another one's history while a third
follows it (`PatroniRewind`). The rules for slots need a leader and a chain of three
below it (`PatroniTopology`): what a node computes about a member two steps down.
`PatroniClient` begins with one server, where a call may be retried most often, up to four,
which is one more than `retry_timeout` has seconds. `MaxFaults`
counts everything that does not happen by itself; most of the exceptions found
take one fault, those of a retry or a takeover two. The exceptions that a
property names (`late`, `unnamed`, `spoiled`, `orphaned`, ...) are variables that
only the step in question sets; each names the line.

The instances of the parts that are proved are the smallest in which their actions
all happen; the theorems remove the bounds. Before a proof TLC checked larger ones as
well: the inductive invariant of the recovery configuration with 3 hosts (373 k
states), that of Citus with 2 groups of workers and 2 faults (1.2 M) and that of the
slots with 2 nodes and one position more (1.7 M) or 2 failures (569 k), the
properties of the watch caches with 2 keys and of the callbacks with 5 events.

Larger instances of the other parts were checked by themselves: `PatroniBootstrap` with
every configuration of two nodes and 3 identifiers (1.35 M states); `PatroniRewind` with
2 nodes, every choice of `Allowed` and 4 records (669 k), and with 3 nodes that all
rewind, or of which one rewinds, one copies and one does neither (827 k);
`PatroniTopology` with 6 tags at a time (581 k); `PatroniClient` with one change more for
2 and for 3 servers and both delays (5.3 M).

Deadlock is checked in `node`, `dcs` and `server`, whose parts go on for ever.
The other specifications end (every call has returned, every post, fault or
write has been used), so their configurations switch the check off; what must
not stay undone is stated as liveness instead.

Symmetry. `server` and `cluster` check safety only, and permute two names that
no `Init` and no action tells apart (nodes of the lease and of the health checks and
workers of Citus in one, standbys and backends in the other); so
does `saga_doc`, which checks one action property. The other runs use none.

Fairness. `DialogSaga!Fairness` is weak fairness of the steps of each handler:
tokio polls a task whose I/O is ready, and a wait for a handler that is gone
ends because nginx times out (`PostAnsweredByProxy`) or the connection breaks
(`ConnectionLost`). Sending, marking and crashing are not fair.
`WebSocket!Fairness` is weak fairness of the registration, of time and of the
broker, and strong fairness of the tasks that take the lock of the map: the
lock is a `futures::lock::Mutex`, whose waiters are woken in turn, so a task
that waits while others come and go gets it. It also lets every send return:
the client reads. In Patroni the HA loop is a `while` with a time-out
(`schedule_next_run`), so a cycle is weakly fair, and so are the threads it has
started and the expiry of keys nobody renews. In `PatroniNode` the steps of each
thread that runs an action are strongly fair: it may have to wait for the lock of
the executor, which the loop releases for most of each cycle. Faults, operators and clients are not fair,
and are bounded.

Each property has a mutant of the code that breaks it: a batch of one, a save
that is not awaited, an early acknowledgement, a watchdog disabled too early, a
race for `/initialize` without a condition, a key written again after a
conflict, an address compared without its port, and so on.

## What the checks found

1. The saga loses messages, and in one way only: the status of
   `/send_messages_vec` is compared with OK and nothing follows
   (`main.rs:1173`). No fault is needed: two calls that name the same messages
   fetch them both, the second one's first `INSERT` meets the primary key, its
   loop ends, and its remove deletes what the first call has not saved yet. If
   the first one then fails, or an `INSERT` of the batch fails in a single
   call, the message is in neither store. `LossNeedsIgnoredStatus` says, and
   TLAPS proves, that there is no other way. Lesson 29 describes a remove that
   waits for a confirmed save; with calls that do not overlap and services
   that answer, that is what happens (`saga_serial`).
2. Read in the code while modelling, outside of what the properties claim: a
   fill of `get_feed` that started before a deletion puts the deleted post back
   (`post.rs:174`; such rows are not `current`); `LPUSH` on an absent list makes a
   list of one that counts as a hit (`post.rs:427`); the query of `get_feed` and
   `friend_set` use different stores (`post.rs:158`, `main.rs:1228`); the watchdog
   deletes the queue of a user for one of his connections (`websocket.rs:131`,
   `torn`).
3. In Patroni every property holds, with exceptions that it names. The ones a
   reader should know: a node may promote for a key that has run out, since
   `enforce_primary_role` does not look at it again (`ha.py:840`; the watchdog it
   has just activated, or the next cycle, ends it); a node that dies in
   bootstrap leaves an empty `/initialize` for ever (`ha.py:437`), and a `nofailover` node
   that has restored a backup names a cluster which nobody else can lead (`ha.py:1872`); a
   node that restores a backup while another one runs initdb starts with another system
   identifier, until its next cycle ends it (`ha.py:460-468`); a replica that
   crashed passes the check of the timelines by a location behind the end of its WAL
   (`rewind.py:156-159`), and one that misses a change of leader from A to B and back is not
   checked at all (`ha.py:682-688`); a node does not enforce `hot_standby_feedback` for a
   member two steps below it if it and the one between are `nofailover`
   (`dcs/__init__.py:1065`, `Hidden`), contrary to the docstring at line 1169; a request to
   etcd may take up to three times what it takes to try all servers beyond `retry_timeout`
   (`etcd.py:265-307`, `Bounded`); a node may
   take the lock under a `/sync` that does not name it any more, because the
   cluster is loaded again after the check (`ha.py:1374-1383`); ZooKeeper's
   `_update_leader` deletes the key of whoever has it (`zookeeper.py:399`); a
   slow answer makes the API call a node primary for longer than its key lives
   (`ha.py:222`); the Citus thread loses track of an open transaction when its node
   demotes (`mpp/citus.py:127`) or Postgres restarts, and may then note as done what
   was rolled back, or commit what it did not mean to (`mpp/citus.py:260`); PATCH changes the object the main loop reads
   (`api.py:698`); a fraction of a unit is rounded to another step than
   Postgres takes (`utils.py:319`); the first `on_start` may overtake the
   `on_role_change` of a promotion (`ha.py:1909`).

On the other hand, `CurrentUntilInvalidated` shows that the path from a commit
to the lists is sound in itself: whatever was current when it was cached and is
outdated now has its invalidation in the queue, at the consumer or with the
handler about to publish it, through redelivery, skipped deliveries and
restarts, unless the publication itself failed. `Served` and `DeliverySafe`
show that the deletion of a queue in use is, besides the taking over of the
consumer tag, the only thing that stops the delivery to a connected client, and
the only thing that takes the channel from `FeedConsumer`. And of all the
interleavings of a node's threads (`NodeSafe`) none leaves a primary behind that
the HA loop has cancelled.

## What is proved

Every theorem holds for all values of the constants that the named assumption of
its module allows; these say no more than that sets and numbers are such, and that
the names for "nobody" are nobody's. What a theorem needs beyond that stands in it.

| Module | Theorem | Statement |
|---|---|---|
| `BackendProofs` | `SagaInvariance`, `SagaTypeCorrect` | `SagaSpec => []SagaIInv`, `SagaSpec => []SagaTypeOK` |
| | `LossNeedsIgnoredStatusHolds`, `DuplicateHasCauseHolds` | `SagaSpec => []LossNeedsIgnoredStatus`, `SagaSpec => []DuplicateHasCause` |
| | `SerialNothingLost`, `SerialOkMeansRead`, `SerialRemovedOnlyWhenSaved` | the documented behaviour, if `~Overlapping` and `Fault \subseteq {"get"}` |
| | `SagaRefinement` | `SagaSpec => ImplementsLifecycle` |
| | `FeedTypes`, `StaleIsOnItsWay` | `Spec => []TypeOK`, `Spec => []CurrentUntilInvalidated` |
| `WebSocketProofs` | `DeliveryIsSafe` | `Spec => []DeliverySafe` |
| `PatroniHaProofs` | `TypesCorrect`, `PrimariesSafe` | `Spec => []TypeOK`; `Spec => []HaSafe`, if `HalfTtl` |
| | `HealthIsSafe` | `HealthSpec => []HealthSafe` |
| | `ParametersAreSafe` | `ParametersSpec => []ParametersSafe` |
| | `RecoveryIsSafe` | `RecoverySpec => []RecoverySafe` |
| `PatroniBootstrapProofs` | `BootstrapIsSafe` | `Spec => BootstrapSafe`, an invariant and two action properties |
| `PatroniDcsProofs` | `AnswersTrue` | `Spec => []DcsSafe` |
| | `KeyIsNotStolen` | `Spec => NoTheft`, an action property |
| `PatroniSwitchoverProofs` | `SwitchoverIsSafe` | `Spec => []SwitchoverSafe` |
| | `CitusIsSafe` | `CitusSpec => CitusSafe`, an invariant and an action property |
| `PatroniNodeProofs` | `NodeIsSafe` | `Spec => []NodeSafe` |
| | `SlotsAreSafe` | `SlotsSpec => []SlotsSafe` |
| `PatroniClusterProofs` | `SyncIsPublished`, `SyncIsSafe` | `Spec => [](TypeOK /\ PublishedIsSet)`; `Spec => []SyncSafe`, if `MaxFaults <= 1` |
| | `PostmasterIsSafe` | `PostmasterSpec => []PostmasterSafe` |
| | `CallbacksAreSafe` | `CallbacksSpec => []CallbacksSafe` |
| | `WatchIsSafe` | `WatchSpec => []WatchSafe` |

Each proof has the same plan: an inductive invariant (`IInv`, `SagaIInv`, `HealthIInv`,
...), one lemma per action or group of actions (what the action shares with others in a
lemma on what it leaves alone), the step of `Next` from these, and the temporal
conclusion. TLC checked each of these invariants on a small instance. A proof module
is about several components where they have no name in common.

**DialogSaga.** The two safety properties speak of calls that have ended; to be
inductive they need what holds of calls under way. `SagaIInv` adds `Stages` (which
handler exists, and what a batch can hold, at each line of the gateway),
`Accounted` (between fetch and `DELETE`, a message that the `DELETE` would delete is
saved or still in the batch, also when the call has ended meanwhile) and `Removed` (what a call removed does not come
back, because `dialog_send` draws fresh ids). `Accounted` is the core: it is what
turns "the remove ran and the message is not saved" into "it was in the batch of a
handler that did not finish". For serial runs `SInv` adds that a handler runs only
while its call waits for it, that batches have nothing in common with the read
store or with other calls, and that the save is complete when the remove is sent.
The refinement proof maps each action to a step of `MessageLifecycle` or a stutter;
that no `Remove` is lossy in a serial run follows from `SInv`.

**Feed.** `CurrentUntilInvalidated` says where the event of an outdated entry is. It
needs `Tables` (a post has one row, and none before it is created), `Lists` (a list
holds posts of friends only: otherwise the consumer, which visits the followers of
the author, would not come to it) and `Consuming` (the event in hand is at the head
of the queue, and the lists still to do are followers'). An entry that is current
stays so or gets an event with the handler that changed its row; an event moves
from the handler to the queue, to the consumer, to `unacked` and back; the consumer
is done with it only when it has been to every list. `Ranked` and `SelectedFacts`
are the lemmas on `Selected`, from the cardinality of initial segments.

**WebSocket.** Once and in order: what a client has received comes before what its task
holds, and that before what the broker has not delivered (`Ordered`). What comes
back on a closing channel is older than what waits in the queue (`Broker`), so order
holds through redelivery as well; no client gets an event again because a task whose
channel is gone is not served any more, and a new one has received nothing
(`Connections`). An event between send and acknowledgement is in both places, which
`Ordered` excepts. `Channel` is what `FeedConsumerStays` needs: a handler past its
declaration has its queue, or the watchdog has deleted it in between. `WithoutFacts`
and its neighbours are the lemmas on increasing sequences.

**PatroniHa.** The heart is `Covered`: a node whose watchdog is active, and was not
activated late, has the key for at least as long as its watchdog runs, or all
others have accepted a call of `/failsafe` that counts for as long. `Alone` and
`OneArmed` turn this into one active watchdog at a time; `Guarded` says that who is
or becomes primary has one. `Updated` and `Accepted` carry the bounds over the two
waits of a cycle, between the write of the key and the `keepalive` and between the
calls and their last answer, and `Calls` says what a node in the race does not know.
The proof uses `HalfTtl` in two places, the `keepalive` after an update and the one
after the calls: both may come as late as a whole `Timeout` after what they rest on.
Without it the statement is false, as TLC shows with ttl 3 and a watchdog of 3.

**PatroniBootstrap.** `Fresh` says that nobody has brought data (`own = {}`) and no backup
of another cluster was restored (`~restored`). Then, until `/initialize` names a cluster,
at most one node has data or makes them, the one that holds the claim (`Alone`), and
nobody has read more than that; from then on all data are of that cluster (`Agreed`).
`SeenClaimed` is what keeps a node with data from claiming the key on an old reading. The
action properties follow: once a cluster is named nobody is bootstrapping any more
(`Agreed`), and a node with data does not bootstrap, copy or restore (`Stages`). A standby
cluster needs none of this: all its data are the remote cluster's (`RemoteData`).

**PatroniDcs.** Nothing here bounds the number of nodes, restarts or lost answers.
`Tamed` says that a copy of the key is current only as long as it has the owner of
the key; `Observed` is Kubernetes' own argument (who writes over a record that names
a leader has seen it unchanged for a ttl); `Faultless` is what holds of sessions as
long as nothing has failed, and is needed because a lost answer may leave a node in
the belief that a key is its own. The six stores share one set of actions, so each
lemma splits on the store only where the code does.

**PatroniSwitchover.** `Owns` is the part about primaries: who promotes, stops or has
loaded the key as its own is its owner still, since the key is taken only when it
is free and goes only with its owner or after Postgres has stopped; so every primary
is the owner, unless a role was changed by hand. The part about requests goes from
stage to stage: `Before` (the first leader leads and has read no request), `Asked` (it
is fit to serve the one it reads), `Free` (whoever races has read the request) and
`Served` (a node that the request allows has the key and removes the request). That
some member is fit (`Servers`) is used at each of the first three: the leader then
does not turn the request down, and does not race itself.

**PatroniNode.** One action is in progress (`Alone`), so what its thread does between
two cycles is what the critical task knows: `Stages` relates the place of the thread
to the result of the task and to who has made Postgres what it is. `Cut` then follows
what was cancelled: a promotion that had not passed its commit will find its task
cancelled, a start that had not passed its fork as well, and one that had has a result
by which the loop has ended its postmaster. `Known` (a postmaster that Patroni does
not know has a thread about to tell) is what the stop of the daemon needs. All other steps leave
an action in progress alone (`OutsideStep`).

**PatroniSync.** `Basic` holds however much fails: logs that have a commit in common
agree up to it (`Matching`), who counts as ready is named in the setting, and who owns
`/sync` names nobody there whom its setting does not name or is about to name
(`Published`); `SyncIsPublished` is its consequence. That no acknowledged commit is lost
needs to know who rules: the first primary (`First`), or one node that has taken over
from it (`Second`). Either has every commit that a client was told of, or may still be
told of by the old one (`Held`, `May`); so has whoever `/sync` names or counts as ready
(`Copied`), and who is only named in the setting has them before it counts (`Caught`). The old primary
cannot acknowledge anything without its successor, which its setting still names
(`Overtaken`). `MaxFaults <= 1` is the statement's own condition: `LossNeedsUnnamed` is
about one crash or one expiration, in whatever step of the primary it comes.

**PatroniPostmaster.** `Processes` (a postmaster has its pid file, and a backend without
postmaster is an orphan), `Stopped` (what a stop knows at each step), `Launched` (what
`start` has told the new postmaster about the pid in the file is still so) and `Failed`.

**PatroniCallbacks.** The role announced last is that of the newest announcement on its
way, looked for from the calls in progress to the script that runs (`Latest`). It is the
role of the node (`Announced`) once nothing is postponed, since every place that changes
the role ends in a call; `Succession` says that a killed script has a successor, and
`RoleFits` that the role goes with the data directory.

**PatroniWatch.** A key whose cached value is not the one at the position of the stream
is going to be brought by it (`Following`); the node's own write is in the cache or was
overtaken by a deletion (`OwnKept`). `Threads` has the states in which the cache may be
absent or a stream dead, and `Awake` what the HA loop can sleep on.

**PatroniHealth.** Who counts itself as the leader has the key for at least as long as
it counts (`Remembers`), because the answer to a renewal came no later than the whole ttl
it grants (`Renewing`), and a cycle that has not renewed is no older than the key
(`Aging`, `Due`).

**PatroniParameters.** What a reload and a restart have found out is true at each of
their steps as long as neither met the other (`Reloading`, `Restarting`); if they met,
one of the two has noticed or `crossed` says so (`Noticed`). `Flagged` is the flag when
all is quiet.

**PatroniRecovery.** What Patroni believes of the files without asking again is so: of
`recovery.conf` if it has not been written (`FileKnown`), of a later Postgres unless it
read its files after it was asked (`LiveKnown`); a new process has not been asked
(`NewProcess`), and who restarts Postgres has said whom to follow (`Told`).

**PatroniCitus.** The thread works without the lock, while the HA loop, the REST API and
`on_demote` change the tasks under it. `InHand`: the task in hand is where it was found,
unless `on_demote` has taken all of them. `Tx`: a transaction of which the
handler keeps track is that of the group in flight, and holds nothing else that the table
does not have. `CacheRight`: the cache of a primary is the table save for the task in
hand. `AskedFor`: what the HA loop has asked for is queued, in flight or done.

**PatroniSlots.** No slot skips a change because whatever is on its way to one was
confirmed by the consumer before: what the leader publishes, what a cycle has read of it,
what the thread has been given and what was copied (`OnItsWay`). A copy counts as ready
when the primary's position, noted once the standby's feedback is in force, is covered by
what the primary reserves for it: `Checked` says that since the note nothing was
removed but with that reservation in force, and that a ready copy needs nothing beyond it.
`Remembers` is what this needs of the handler's cache: it is not ahead of the slot, unless
it is to be read again. `Usable` is the same for the slot of the primary itself. The two
hold until a copy that was not ready is promoted (`unready`), and of a node until its
reservation is lost after the check began (`unprotected`).

What the proofs corrected. They were first attempted for statements that TLC had found
true on the instances then used, and failed on cases just beyond these:

- `HaSafe`, at a ttl of 4, did not name the race of a node that accepts a call of
  `/failsafe` between its load of the cluster and its taking of the key. The model
  got `unheeded` and `contested`. In the run, whose watchdog fires after one tick,
  such a call never counts for longer than that; it does from a ttl of 3 and a
  watchdog of 2 on, where `HaSafe` and its `IInv` were checked as well (1.2 M states).
- `NoTheft`, at three faults, did not except ZooKeeper's unconditional delete of a
  key that has changed hands.
- `NodeSafe`, at four events, did not name the forced reinitialize that lets two actions
  run: the one that ends resets the critical task of the other, and a start that the
  loop has cancelled forks its postmaster after all. `Fenced` got the exception that
  `OneTask` has; `raced` tells this from an action under way at the stop of the daemon,
  which is all that `StoppedForGood` excepts (it says now that Postgres is down, not
  only that it is no primary). Who had made Postgres a primary was remembered beyond
  the end of the action and taken for the next one of the same thread. With three
  events, fairness of some action in progress was too weak for `UnlockedPrimaryEnds`:
  each of them goes on. All of `node` was then checked with three (5.2 M states).
- `CitusSafe`, at two groups of workers, did not know that `on_demote` forgets an open
  transaction (`mpp/citus.py:127`): until Postgres has stopped, the update of the other group
  runs in it, and its `COMMIT` commits both. `orphaned` says now that the handler has lost
  track of its transaction, for this cause too. At two faults, a group for which the HA loop
  had asked before the table was read anew was counted as asked for.
- The two guards of `keepalive` overlapped in the model; in Kubernetes `create`
  belongs to a key without an owner; constants were assumed too freely (`None` could
  be a node or a connection, and `"free"` a connection).

A note on the prover. The translation of `Len` and `<<>>` that this version of tlapm
gives its SMT solver states `0 <= Len(s)` of every value, also of functions that are
no sequences, which contradicts what it states of `Len` and `DOMAIN`. So that nothing
rests on this, all eight modules were proved once more from nothing with that axiom
taken out of every obligation; all of them pass.

Only model-checked. Liveness is out of this prover's reach: `CallEnds`, `MarkedIsRead`,
`Served`, `Cleaned`, `SplitBrainEnds`, `BootstrapLives`, `UnlockedPrimaryEnds`,
`RequestEnds`, `ParallelEnds`, `LockServed` and `DivergedHeals` stay with TLC. So do
`TopologySafe` and `UnitsSafe`: they evaluate recursive rules (chains of followers,
rounding step by step) on every input of an instance, and what they say of
longer inputs is induction over data. `RewindSafe`, `ClientSafe` and
`ConfigSafe` are within the prover's reach but are not proved: they are invariants of
histories, of sequences of delays and of a heap of objects, each with
an induction of its own.

## Not modelled

- Reads that change nothing: hits of `get_feed`, `dialog_list`, `dialog_count`,
  `dialog_get_unread`, searches.
- The dialogs service's own `/send`, which nothing in the repository calls.
- `friend_set` and `friend_delete`, which delete lists before they change the
  relation; the choice of a Tarantool replica. Both are single calls without a
  state of the program's; `Feed` takes the relation as a constant.
- Users, pools, migrations, deployment: no state or no logic of their own.
- The branch of `post_event_message` without a peer, which nothing calls; flow
  control of TCP; a restart of the backend as the WebSocket clients see it.
- Sessions: an action stands for the request of a user who is logged in.
- What is one step although the code takes several: a task of Citus, for which the leader
  is read before it is added (`handle_event`); a copy of a data directory, of which a
  crash leaves nothing (the code leaves a directory that is not valid, and the operator
  to remove it).
- Of Patroni: logging, the validation of the configuration file, the listings
  of `patronictl`, scripts for clouds, the creation of users, standby clusters
  but for their role in bootstrap and callbacks, permanent physical slots but
  for the one that keeps a standby's feedback, quorum-less details of
  `pg_stat_replication`, DNS and SRV discovery.

## Plan

What is left to prove, most important first.

1. `PatroniRewind`: `RewindSafe`, for histories of any length; its sequences need lemmas
   like those on logs in `PatroniClusterProofs`.
2. `PatroniClient` and `PatroniConfig`.

`PatroniUnits` and `PatroniTopology` stay with TLC, as said above.
