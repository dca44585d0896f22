------------------------------- MODULE PatroniDcs -------------------------------
(***************************************************************************)
(* The leader key in the six stores Patroni can use: etcd, etcd3, consul,  *)
(* zookeeper, raft and kubernetes.  One behaviour is about one of them     *)
(* (backend); run_cycle of every node loads the cluster and calls          *)
(* update_leader, attempt_to_acquire_leader or delete_leader.              *)
(*                                                                         *)
(* A version (index, mod_revision, resourceVersion) is compared only with  *)
(* the present one, so a copy of the key holds, for its version, whether   *)
(* it is still the present one (cur), and for its session whether that is  *)
(* the one its owner has now (mine).  Of time there is only that a ttl has *)
(* run out (late, elapsed, sess = "dead"), which may happen at any point.  *)
(***************************************************************************)
EXTENDS Naturals

CONSTANTS
    Node,
    Backend,        \* the stores to look at
    MaxFaults       \* bound on lost requests and answers, lost sessions, stale fills, new ttls

Stores == {"etcd", "etcd3", "consul", "zookeeper", "raft", "kubernetes"}

None == "none"

ASSUME PatroniDcsAssumption ==
    Backend \subseteq Stores /\ MaxFaults \in Nat /\ None \notin Node

VARIABLES
    backend,
    key,            \* the leader key: its owner, its session, has its ttl run out?
    seen,           \* the copy of the key in the cache or on the server a node reads from
    before,         \* etcd3: the key before its last change
    ready,          \* etcd3, kubernetes: is the cache of the node filled and watching?
    expiring,       \* raft: the copy the Raft leader has asked to expire
    noticed,        \* kubernetes: is seen the record observed last?
    elapsed,        \* kubernetes: has ttl passed since it was observed?
    sess,           \* the session of a node
    view,           \* the leader key in the cluster run_cycle has loaded
    pc,             \* the call a node is in
    told,           \* the answer of the last call
    held,           \* history: has the node had the key since the call began?
    faults

local == <<noticed, elapsed, ready>>
vars == <<backend, key, seen, before, ready, expiring, noticed, elapsed, sess, view, pc, told, held, faults>>

NoKey == [owner |-> None, mine |-> TRUE, late |-> FALSE]
NoCopy == [owner |-> None, mine |-> TRUE, cur |-> FALSE]

Copy(k) == [owner |-> k.owner, mine |-> k.mine, cur |-> TRUE]
Stale(c) == [c EXCEPT !.cur = FALSE]
Forget(c, n) == IF c.owner = n THEN [c EXCEPT !.mine = FALSE] ELSE c

HasSessions == backend \in {"etcd3", "consul", "zookeeper"}
HasCache == backend \in {"etcd3", "kubernetes"}
Fault == faults < MaxFaults /\ faults' = faults + 1

Init ==
    /\ backend \in Backend
    /\ key = NoKey
    /\ seen = [n \in Node |-> Copy(NoKey)]
    /\ before = NoCopy /\ expiring = NoCopy
    /\ ready = [n \in Node |-> TRUE]
    /\ noticed = [n \in Node |-> TRUE] /\ elapsed = [n \in Node |-> FALSE]
    /\ sess = [n \in Node |-> "live"]
    /\ view = [n \in Node |-> NoCopy]
    /\ pc = [n \in Node |-> "sleep"]
    /\ told = [n \in Node |-> None]
    /\ held = [n \in Node |-> FALSE]
    /\ faults = 0

-----------------------------------------------------------------------------
(* The server.                                                              *)

\* The key becomes k.  The nodes in who know the new version at once.
Write(k, who) ==
    /\ key' = k
    /\ seen' = [m \in Node |-> IF m \in who THEN Copy(k) ELSE Stale(seen[m])]
    /\ view' = [m \in Node |-> Stale(view[m])]
    /\ before' = IF backend = "etcd3" THEN Stale(Copy(key)) ELSE before
    /\ expiring' = Stale(expiring)
    /\ noticed' = [m \in Node |-> noticed[m] /\ m \notin who]
    /\ held' = [m \in Node |-> held[m] \/ (pc[m] \notin {"sleep", "loaded"} /\ k.owner = m)]

Keep == UNCHANGED <<key, seen, view, before, expiring, noticed, held>>

\* The ttl of the key runs out.  In kubernetes only the other nodes count.
TtlPasses ==
    /\ backend \in {"etcd", "raft"} /\ key.owner # None /\ ~key.late
    /\ Fault
    /\ key' = [key EXCEPT !.late = TRUE]
    /\ UNCHANGED <<backend, seen, before, local, expiring, sess, view, pc, told, held>>

ServerExpires ==
    /\ backend = "etcd" /\ key.late
    /\ Write(NoKey, {})
    /\ UNCHANGED <<backend, ready, elapsed, sess, pc, told, faults>>

\* KVStoreTTL.__expire_keys on the Raft leader: the value that has run out goes
\* into the log with the request ...
ExpireKeys ==
    /\ backend = "raft" /\ key.late /\ ~expiring.cur
    /\ expiring' = Copy(key)
    /\ UNCHANGED <<backend, key, seen, before, local, sess, view, pc, told, held, faults>>

\* As Expire, but whatever the value is now.
ExpireAnyValue ==
    /\ expiring # NoCopy
    /\ Write(NoKey, {}) /\ UNCHANGED ready
    /\ UNCHANGED <<backend, elapsed, sess, pc, told, faults>>

\* ... and KVStoreTTL._expire removes the key if it still has that value.
Expire ==
    /\ expiring # NoCopy
    /\ IF expiring.cur
       THEN Write(NoKey, {}) /\ UNCHANGED ready
       ELSE /\ expiring' = NoCopy
            /\ UNCHANGED <<key, seen, view, before, local, held>>
    /\ UNCHANGED <<backend, elapsed, sess, pc, told, faults>>

\* The session of a node expires, and its key with it.
SessionExpires(n) ==
    /\ HasSessions /\ sess[n] = "live"
    /\ Fault
    /\ sess' = [sess EXCEPT ![n] = "dead"]
    /\ IF key.owner = n /\ key.mine THEN Write(NoKey, {}) ELSE Keep
    /\ UNCHANGED <<backend, ready, elapsed, pc, told>>

\* A session that its node does not know any more expires.
OldSessionExpires ==
    /\ ~key.mine
    /\ Write(NoKey, {})
    /\ UNCHANGED <<backend, ready, elapsed, sess, pc, told, faults>>

\* The server a node reads from, or the watch of its cache, catches up.
CatchUp(n) ==
    /\ ~seen[n].cur /\ ready[n]
    /\ seen' = [seen EXCEPT ![n] = Copy(key)]
    /\ noticed' = [noticed EXCEPT ![n] = FALSE]
    /\ UNCHANGED <<backend, key, before, ready, expiring, elapsed, sess, view, pc, told, held, faults>>

\* ObjectCache._build_cache, KVCache._build_cache: the cache is filled again.  The
\* range of etcd3 is serializable: it may come from a member that lags.
BuildCache(n) ==
    /\ HasCache /\ ~ready[n]
    /\ ready' = [ready EXCEPT ![n] = TRUE]
    /\ \/ seen' = [seen EXCEPT ![n] = Copy(key)] /\ UNCHANGED faults
       \/ backend = "etcd3" /\ seen' = [seen EXCEPT ![n] = before] /\ Fault
    /\ noticed' = [noticed EXCEPT ![n] = FALSE]
    /\ UNCHANGED <<backend, key, before, expiring, elapsed, sess, view, pc, told, held>>

\* The connection of the watch breaks.
StreamBreaks(n) ==
    /\ HasCache /\ ready[n] /\ Fault
    /\ ready' = [ready EXCEPT ![n] = FALSE]
    /\ UNCHANGED <<backend, key, seen, before, expiring, noticed, elapsed, sess, view, pc, told, held>>

-----------------------------------------------------------------------------
(* Sessions.                                                                *)

\* The node has a new session.  What it left on the old one stays until that one
\* expires.
NewSession(n) ==
    /\ sess' = [sess EXCEPT ![n] = "live"]
    /\ key' = Forget(key, n)
    /\ seen' = [m \in Node |-> Forget(seen[m], n)]
    /\ view' = [m \in Node |-> Forget(view[m], n)]
    /\ before' = Forget(before, n)
    /\ UNCHANGED <<expiring, noticed, held>>

\* kazoo notices that the session has expired and connects anew.
Reconnect(n) ==
    /\ backend = "zookeeper" /\ sess[n] = "dead"
    /\ NewSession(n)
    /\ UNCHANGED <<backend, ready, elapsed, pc, told, faults>>

\* Consul._do_refresh_session and Etcd3._do_refresh_lease.  Without force the
\* session is not asked for when it has been refreshed within loop_wait.
RefreshSession(n, force) ==
    \/ sess[n] = "live" /\ Keep /\ UNCHANGED sess
    \/ sess[n] # "live" /\ NewSession(n)
    \/ ~force /\ sess[n] = "dead" /\ Keep /\ UNCHANGED sess

\* Etcd3.touch_member, Consul.touch_member: the session is refreshed between the
\* loading and the call, and given up if the put finds that it is gone.
touch_member(n) ==
    /\ pc[n] = "loaded" /\ backend \in {"etcd3", "consul"} /\ sess[n] # "live"
    /\ \/ NewSession(n)
       \/ sess[n] = "dead" /\ sess' = [sess EXCEPT ![n] = None] /\ Keep
    /\ UNCHANGED <<backend, ready, elapsed, pc, told, faults>>

\* KazooClient.restart: the session is closed, which removes its key, and a new one
\* opened.
RestartClient(n) ==
    LET gone == key.owner = n /\ key.mine
        Old(c) == Forget(IF gone THEN Stale(c) ELSE c, n)
    IN  /\ key' = IF gone THEN NoKey ELSE Forget(key, n)
        /\ seen' = [m \in Node |-> IF m = n THEN Copy(key') ELSE Old(seen[m])]
        /\ view' = [m \in Node |-> Old(view[m])]
        /\ sess' = [sess EXCEPT ![n] = "live"]
        /\ UNCHANGED <<before, expiring, noticed, held>>

\* A new ttl: etcd3 and consul drop the session, zookeeper restarts the client.
set_ttl(n) ==
    /\ HasSessions /\ pc[n] = "sleep" /\ sess[n] # None /\ Fault
    /\ IF backend = "zookeeper" THEN RestartClient(n)
       ELSE sess' = [sess EXCEPT ![n] = None] /\ Keep
    /\ UNCHANGED <<backend, ready, elapsed, pc, told>>

-----------------------------------------------------------------------------
(* Loading the cluster.                                                     *)

Load(n, owner) ==
    /\ pc[n] = "sleep"
    /\ pc' = [pc EXCEPT ![n] = "loaded"]
    /\ told' = [told EXCEPT ![n] = None]
    /\ held' = [held EXCEPT ![n] = FALSE]
    /\ view' = [view EXCEPT ![n] = [seen[n] EXCEPT !.owner = owner]]
    /\ UNCHANGED <<backend, key, seen, before, ready, expiring, sess, faults>>

\* etcd, consul, raft: one read of all keys, from the server the node talks to (raft:
\* from the data of the node itself).  Zookeeper: key by key, the leader last.
LoadKeys(n) ==
    /\ ~HasCache
    /\ Load(n, seen[n].owner)
    /\ UNCHANGED <<noticed, elapsed>>

\* Etcd3: a copy of the cache, as soon as it is filled.
LoadCache(n) ==
    /\ backend = "etcd3" /\ ready[n]
    /\ Load(n, seen[n].owner)
    /\ UNCHANGED <<noticed, elapsed>>

\* Kubernetes._cluster_from_nodes: a record seen for the first time starts the clock;
\* the leader of a record that has not changed for ttl counts for nothing.
LoadObserved(n) ==
    LET run_out == noticed[n] /\ elapsed[n]
    IN  /\ backend = "kubernetes" /\ ready[n]
        /\ Load(n, IF run_out THEN None ELSE seen[n].owner)
        /\ noticed' = [noticed EXCEPT ![n] = TRUE]
        /\ elapsed' = [elapsed EXCEPT ![n] = run_out]

\* ttl has passed on the clock of n since it has observed the record.
ObservedLongAgo(n) ==
    /\ backend = "kubernetes" /\ noticed[n] /\ ~elapsed[n] /\ seen[n].owner # None /\ Fault
    /\ elapsed' = [elapsed EXCEPT ![n] = TRUE]
    /\ key' = [key EXCEPT !.late = @ \/ seen[n].cur]
    /\ UNCHANGED <<backend, seen, before, ready, expiring, noticed, sess, view, pc, told, held>>

-----------------------------------------------------------------------------
(* Requests.                                                                *)

Mine(n) == [owner |-> n, mine |-> TRUE, late |-> FALSE]
Owned(n) == key.owner = n
Free == key.owner = None

Enter(n, call) ==
    /\ pc[n] = "loaded"
    /\ pc' = [pc EXCEPT ![n] = call]
    /\ held' = [held EXCEPT ![n] = Owned(n)]
    /\ UNCHANGED <<backend, key, seen, before, ready, expiring, noticed, elapsed, sess, view, told, faults>>

\* "yes" and "assumed" are both True: "assumed" if the store has not been asked about
\* the key, or its answer is ignored.
Answers == {"yes", "assumed", "no", "done", "error"}

\* The call goes on with the step next, or ends with that answer.
GoTo(n, next) ==
    /\ pc' = [pc EXCEPT ![n] = IF next \in Answers THEN "sleep" ELSE next]
    /\ told' = [told EXCEPT ![n] = IF next \in Answers THEN next ELSE @]

\* A request that makes the key k.  Its answer may be lost, and then the Retry sends
\* it again; or the time for retries is over, and nobody knows whether it arrived.
Change(n, k, next) ==
    \/ Write(k, {n}) /\ GoTo(n, next) /\ UNCHANGED faults
    \/ Write(k, {}) /\ Fault /\ UNCHANGED <<pc, told>>
    \/ Write(k, {}) /\ Fault /\ GoTo(n, "error")

\* A step that changes no key.
Answer(n, next) == Keep /\ GoTo(n, next) /\ UNCHANGED faults

\* The store does not answer until the time for retries is over.
GivesUp(n) ==
    /\ pc[n] \notin {"sleep", "loaded"} /\ Fault
    /\ GoTo(n, "error") /\ Keep
    /\ UNCHANGED <<backend, ready, elapsed, sess>>

OnlyKey == UNCHANGED <<backend, ready, elapsed, sess>>

-----------------------------------------------------------------------------
(* attempt_to_acquire_leader.                                               *)

attempt_to_acquire_leader(n) ==
    view[n].owner = None /\ Enter(n, IF backend \in {"etcd3", "consul"} THEN "refresh" ELSE "create")

\* etcd: prevExist=False.
EtcdCreate(n) ==
    /\ backend = "etcd" /\ pc[n] = "create"
    /\ IF Free THEN Change(n, Mine(n), "yes") ELSE Answer(n, "no")
    /\ OnlyKey

\* raft: prevExist=False on the own data first, then on those of the cluster.
RaftCreate(n) ==
    /\ backend = "raft" /\ pc[n] = "create"
    /\ IF seen[n].owner = None /\ Free THEN Change(n, Mine(n), "yes") ELSE Answer(n, "no")
    /\ OnlyKey

\* zookeeper: an ephemeral node.  Requests wait for a session.
ZooKeeperCreate(n) ==
    /\ backend = "zookeeper" /\ pc[n] = "create" /\ sess[n] = "live"
    /\ IF Free THEN Change(n, Mine(n), "yes") ELSE Answer(n, "no")
    /\ OnlyKey

\* kubernetes: the version is that of the record loaded, whoever is named in it.  A
\* conflict breaks the streams of the caches.
KubernetesCreate(n) ==
    /\ backend = "kubernetes" /\ pc[n] = "create"
    /\ IF view[n].cur
       THEN Change(n, Mine(n), "yes") /\ UNCHANGED ready
       ELSE Answer(n, "no") /\ ready' = [ready EXCEPT ![n] = FALSE]
    /\ UNCHANGED <<backend, elapsed, sess>>

Refresh(n) ==
    /\ pc[n] = "refresh"
    /\ RefreshSession(n, FALSE)
    /\ GoTo(n, "put")
    /\ UNCHANGED <<backend, ready, elapsed, faults>>

\* As Etcd3Create, but the lease that is gone is kept.
Etcd3CreateKeepsLease(n) ==
    /\ backend = "etcd3" /\ pc[n] \in {"put", "put_again"}
    /\ \/ /\ sess[n] = "live"
          /\ IF Free THEN Change(n, Mine(n), "yes") /\ UNCHANGED ready
             ELSE Answer(n, "no") /\ ready' = [ready EXCEPT ![n] = FALSE]
       \/ sess[n] = "dead" /\ Answer(n, "no") /\ UNCHANGED ready
    /\ UNCHANGED <<backend, elapsed, sess>>

\* etcd3: create_revision = 0.  The lease may be gone: there is a second attempt with
\* a new one.  A transaction that fails restarts the watch of the cache.
Etcd3Create(n) ==
    /\ backend = "etcd3" /\ pc[n] \in {"put", "put_again"}
    /\ \/ /\ sess[n] = "live"
          /\ IF Free THEN Change(n, Mine(n), "yes") /\ UNCHANGED ready
             ELSE Answer(n, "no") /\ ready' = [ready EXCEPT ![n] = FALSE]
       \/ sess[n] = "dead" /\ Answer(n, IF pc[n] = "put" THEN "new_session" ELSE "no") /\ UNCHANGED ready
    /\ UNCHANGED <<backend, elapsed, sess>>

\* consul: acquire=session, which also succeeds for the session that has the key.
ConsulAcquire(n) ==
    /\ backend = "consul" /\ pc[n] \in {"put", "put_again"}
    /\ \/ /\ sess[n] = "live"
          /\ IF Free \/ (Owned(n) /\ key.mine) THEN Change(n, Mine(n), "yes") ELSE Answer(n, "no")
       \/ sess[n] = "dead" /\ Answer(n, IF pc[n] = "put" THEN "new_session" ELSE "error")
    /\ OnlyKey

\* LeaseNotFound, InvalidSession in the first attempt.
SessionGone(n) ==
    /\ pc[n] = "new_session"
    /\ NewSession(n)
    /\ GoTo(n, "put_again")
    /\ UNCHANGED <<backend, ready, elapsed, faults>>

-----------------------------------------------------------------------------
(* update_leader.                                                           *)

update_leader(n) ==
    view[n].owner = n /\ Enter(n, IF backend \in {"etcd3", "consul"} THEN "renew" ELSE "update")

\* etcd: prevValue=name; a key that is gone is created.
EtcdUpdate(n) ==
    /\ backend = "etcd" /\ pc[n] = "update"
    /\ IF Owned(n) THEN Change(n, Mine(n), "yes")
       ELSE Answer(n, IF Free THEN "create" ELSE "no")
    /\ OnlyKey

\* raft: the same, but prevValue is compared with the own data first, and whether the
\* key is gone is asked of the own data, which by then hold the refused request.
RaftUpdate(n) ==
    /\ backend = "raft" /\ pc[n] = "update"
    /\ CASE seen[n].owner = n /\ Owned(n) -> Change(n, Mine(n), "yes")
         [] seen[n].owner = n /\ ~Owned(n) -> Write(key, Node) /\ GoTo(n, IF Free THEN "create" ELSE "no") /\ UNCHANGED faults
         [] OTHER -> Answer(n, IF seen[n].owner = None THEN "create" ELSE "no")
    /\ OnlyKey

\* zookeeper: nothing is asked while the session is that of the key loaded.  Else the
\* node is removed, whosever it is, and created.
ZooKeeperUpdate(n) ==
    /\ backend = "zookeeper" /\ pc[n] = "update"
    /\ \/ view[n].mine /\ Answer(n, "assumed")
       \/ /\ ~view[n].mine /\ sess[n] = "live"
          /\ Change(n, NoKey, "create")
    /\ OnlyKey

\* As KubernetesUpdate, but a conflict counts as an update.
ConflictIsUpdate(n) ==
    /\ backend = "kubernetes" /\ pc[n] = "update"
    /\ IF seen[n].owner # n THEN Answer(n, "no")
       ELSE IF seen[n].cur THEN Change(n, Mine(n), "yes") ELSE Answer(n, "yes")
    /\ OnlyKey

\* kubernetes: the record in the cache decides, with its version.
KubernetesUpdate(n) ==
    /\ backend = "kubernetes" /\ pc[n] = "update"
    /\ CASE seen[n].owner # n -> Answer(n, "no")
         [] seen[n].owner = n /\ seen[n].cur -> Change(n, Mine(n), "yes")
         [] OTHER -> Answer(n, "reread")
    /\ OnlyKey

\* After a conflict the record is read again, past the cache; view keeps its version.
KubernetesReread(n) ==
    /\ backend = "kubernetes" /\ pc[n] = "reread"
    /\ seen' = [seen EXCEPT ![n] = Copy(key)]
    /\ view' = [view EXCEPT ![n] = Copy(key)]
    /\ noticed' = [noticed EXCEPT ![n] = FALSE]
    /\ GoTo(n, IF Owned(n) THEN "patch" ELSE "no")
    /\ UNCHANGED <<key, before, expiring, held, faults>>
    /\ OnlyKey

KubernetesPatch(n) ==
    /\ backend = "kubernetes" /\ pc[n] = "patch"
    /\ IF view[n].cur THEN Change(n, Mine(n), "yes") ELSE Answer(n, "no")
    /\ OnlyKey

\* etcd3, consul: the session is refreshed whatever its age, and if it is that of the
\* key loaded that is all.
Renew(n) ==
    /\ pc[n] = "renew"
    /\ RefreshSession(n, TRUE)
    /\ GoTo(n, IF view'[n].mine THEN "assumed" ELSE "recreate")
    /\ UNCHANGED <<backend, ready, elapsed, faults>>

\* etcd3: one transaction puts the new lease on the own key or creates it.
Etcd3Recreate(n) ==
    /\ backend = "etcd3" /\ pc[n] = "recreate"
    /\ IF sess[n] = "live" /\ (Owned(n) \/ Free) THEN Change(n, Mine(n), "yes") ELSE Answer(n, "no")
    /\ OnlyKey

\* consul: the key is removed if it is still the one loaded ...
ConsulRecreate(n) ==
    /\ backend = "consul" /\ pc[n] = "recreate"
    /\ IF view[n].cur THEN Change(n, NoKey, "put_anew") ELSE Answer(n, "put_anew")
    /\ OnlyKey

\* ... and acquired; what comes of that is not looked at.
ConsulPutAnew(n) ==
    /\ backend = "consul" /\ pc[n] = "put_anew"
    /\ \/ /\ sess[n] = "live"
          /\ IF Free \/ (Owned(n) /\ key.mine) THEN Change(n, Mine(n), "yes") ELSE Answer(n, "assumed")
       \/ sess[n] = "dead" /\ Answer(n, "error")
    /\ OnlyKey

-----------------------------------------------------------------------------
(* delete_leader.                                                           *)

delete_leader(n) ==
    view[n].owner = n /\ faults < MaxFaults /\ Enter(n, "delete")

\* etcd, etcd3, raft: prevValue=name (raft: on the own data first).
DeleteOwn(n) ==
    /\ backend \in {"etcd", "etcd3", "raft"} /\ pc[n] = "delete"
    /\ IF Owned(n) /\ (backend = "raft" => seen[n].owner = n)
       THEN Change(n, NoKey, "done") ELSE Answer(n, "no")
    /\ OnlyKey

\* consul: cas=version of the key loaded.
ConsulDelete(n) ==
    /\ backend = "consul" /\ pc[n] = "delete"
    /\ IF view[n].cur THEN Change(n, NoKey, "done") ELSE Answer(n, "no")
    /\ OnlyKey

ZooKeeperDelete(n) ==
    /\ backend = "zookeeper" /\ pc[n] = "delete"
    /\ RestartClient(n) /\ GoTo(n, "done")
    /\ UNCHANGED <<backend, ready, elapsed, faults>>

\* kubernetes: the record stays, without a leader, if it is the one in the cache.
KubernetesDelete(n) ==
    /\ backend = "kubernetes" /\ pc[n] = "delete"
    /\ IF seen[n].owner = n /\ seen[n].cur
       THEN Change(n, NoKey, "done") /\ UNCHANGED ready
       ELSE Answer(n, "no") /\ ready' = [ready EXCEPT ![n] = seen[n].owner # n]
    /\ UNCHANGED <<backend, elapsed, sess>>

\* Another node has the key: run_cycle makes no call.
NoCall(n) ==
    /\ pc[n] = "loaded" /\ view[n].owner \notin {n, None}
    /\ pc' = [pc EXCEPT ![n] = "sleep"]
    /\ UNCHANGED <<backend, key, seen, before, local, expiring, sess, view, told, held, faults>>

-----------------------------------------------------------------------------

Run(n) ==
    \/ LoadKeys(n) \/ LoadCache(n) \/ LoadObserved(n)
    \/ attempt_to_acquire_leader(n) \/ update_leader(n) \/ NoCall(n)
    \/ Refresh(n) \/ Renew(n) \/ SessionGone(n)
    \/ EtcdCreate(n) \/ RaftCreate(n) \/ ZooKeeperCreate(n) \/ KubernetesCreate(n)
    \/ Etcd3Create(n) \/ ConsulAcquire(n)
    \/ EtcdUpdate(n) \/ RaftUpdate(n) \/ ZooKeeperUpdate(n)
    \/ KubernetesUpdate(n) \/ KubernetesReread(n) \/ KubernetesPatch(n)
    \/ Etcd3Recreate(n) \/ ConsulRecreate(n) \/ ConsulPutAnew(n)
    \/ DeleteOwn(n) \/ ConsulDelete(n) \/ ZooKeeperDelete(n) \/ KubernetesDelete(n)

Environment ==
    \/ TtlPasses \/ ServerExpires \/ ExpireKeys \/ Expire \/ OldSessionExpires
    \/ \E n \in Node :
        \/ SessionExpires(n) \/ CatchUp(n) \/ BuildCache(n) \/ StreamBreaks(n) \/ Reconnect(n)
        \/ ObservedLongAgo(n) \/ touch_member(n) \/ set_ttl(n) \/ delete_leader(n) \/ GivesUp(n)

Next == Environment \/ \E n \in Node : Run(n)

Spec == Init /\ [][Next]_vars

\* A node runs its cycle while its process does, servers and caches catch up, and what
\* has run out is removed.
FairSpec ==
    /\ Spec
    /\ \A n \in Node : WF_vars(Run(n)) /\ WF_vars(CatchUp(n)) /\ WF_vars(BuildCache(n)) /\ WF_vars(Reconnect(n))
    /\ WF_vars(ServerExpires) /\ WF_vars(ExpireKeys) /\ WF_vars(Expire) /\ WF_vars(OldSessionExpires)

-----------------------------------------------------------------------------
(* Properties of PatroniDcs. *)

Steps == {"sleep", "loaded", "refresh", "put", "put_again", "new_session", "create", "renew", "update",
          "recreate", "put_anew", "reread", "patch", "delete"}
Copies == [owner : Node \union {None}, mine : BOOLEAN, cur : BOOLEAN]

\* Type correctness; a copy of the present version is a copy of the present key.
TypeOK ==
    /\ backend \in Backend
    /\ key \in [owner : Node \union {None}, mine : BOOLEAN, late : BOOLEAN]
    /\ seen \in [Node -> Copies] /\ view \in [Node -> Copies]
    /\ before \in Copies /\ expiring \in Copies
    /\ {ready, noticed, elapsed, held} \subseteq [Node -> BOOLEAN]
    /\ sess \in [Node -> {"live", "dead", None}]
    /\ pc \in [Node -> Steps] /\ told \in [Node -> Answers \union {None}]
    /\ faults \in 0..MaxFaults
    /\ \A n \in Node : seen[n].cur => seen[n] = Copy(key)

\* A node that gets True from update_leader or attempt_to_acquire_leader has had the
\* key during the call, whatever is lost, repeated, expired or stale.  The exception
\* are answers given without asking (zookeeper and etcd3 when the session is that of the
\* key loaded, consul when it is not), and those are wrong only after a fault.
HonestAnswers ==
    \A n \in Node :
        /\ told[n] = "yes" => held[n]
        /\ told[n] = "assumed" => held[n] \/ faults > 0

Valid(n) == key.owner = n /\ ~key.late /\ (HasSessions => key.mine /\ sess[n] = "live")

\* No node takes or removes a key whose session is alive or whose ttl has not run out.
\* The exceptions are its owner, and _update_leader of zookeeper, which removes the key
\* unconditionally, whosever it is by then, when the session of the key it has loaded
\* is not the present one of the node.
KeepsValidKey ==
    \A n \in Node :
        Valid(n) /\ key'.owner # n =>
            \/ pc[n] \in {"delete", "recreate"} \/ sess'[n] # "live" \/ (pc[n] = "sleep" /\ backend = "zookeeper")
            \/ backend = "zookeeper" /\ \E m \in Node : pc[m] = "update" /\ ~view[m].mine
NoTheft == [][KeepsValidKey]_vars

\* Once the faults are over some node has the key and is told so, again and again.
LockServed == []<>(\E n \in Node : key.owner = n /\ told[n] \in {"yes", "assumed"})

\* The answers are true, of keys and copies that belong together.
DcsSafe == TypeOK /\ HonestAnswers
=============================================================================
