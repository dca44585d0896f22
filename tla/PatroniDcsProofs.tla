---------------------------- MODULE PatroniDcsProofs ----------------------------
(***************************************************************************)
(* The answers of the six stores and the leader key in them, for any       *)
(* number of nodes and of faults.                                          *)
(***************************************************************************)
EXTENDS PatroniDcs, TLAPS

USE PatroniDcsAssumption

-----------------------------------------------------------------------------
(* The inductive invariant.                                                 *)

Keys == [owner : Node \union {None}, mine : BOOLEAN, late : BOOLEAN]

\* The key and its copies.
Server ==
    /\ key \in Keys
    /\ seen \in [Node -> Copies] /\ view \in [Node -> Copies]
    /\ before \in Copies /\ expiring \in Copies
    /\ noticed \in [Node -> BOOLEAN] /\ held \in [Node -> BOOLEAN]
    /\ \A n \in Node : seen[n].cur => seen[n] = Copy(key)

\* The nodes.
Nodes ==
    /\ backend \in Backend
    /\ ready \in [Node -> BOOLEAN] /\ elapsed \in [Node -> BOOLEAN]
    /\ sess \in [Node -> {"live", "dead", None}]
    /\ pc \in [Node -> Steps] /\ told \in [Node -> Answers \union {None}]
    /\ faults \in 0..MaxFaults

\* What is current is so for a reason.
Tamed ==
    /\ ~before.cur
    /\ expiring.cur => backend = "raft" /\ key.late
    /\ ~HasSessions => key.mine
    /\ \A n \in Node : view[n].cur /\ backend # "kubernetes" => view[n].owner = key.owner

\* A call belongs to the cluster that was loaded, and has no answer yet.
Calling ==
    \A n \in Node :
        /\ pc[n] \in {"update", "renew", "recreate", "delete"} => view[n].owner = n
        /\ pc[n] # "sleep" => told[n] = None
        /\ pc[n] \in {"refresh", "put", "put_again", "new_session", "renew", "recreate", "put_anew"}
                => backend \in {"etcd3", "consul"}
        /\ pc[n] = "create" => backend \notin {"etcd3", "consul"}
        /\ pc[n] = "create" /\ backend = "kubernetes" => view[n].owner = None

\* kubernetes: who writes over a record that names a leader has seen it run out.
Observed ==
    backend = "kubernetes" /\ key.owner # None /\ ~key.late =>
        \A n \in Node :
            /\ ~(seen[n].cur /\ noticed[n] /\ elapsed[n])
            /\ pc[n] \in {"loaded", "create"} /\ view[n].owner = None => ~view[n].cur
            /\ pc[n] = "patch" /\ view[n].cur => key.owner = n

\* Without faults a node that believes to have the key has it.
Faultless ==
    faults = 0 /\ HasSessions =>
        /\ key.mine
        /\ \A n \in Node :
            /\ sess[n] = "live"
            /\ pc[n] \notin {"recreate", "put_anew", "new_session"}
            /\ seen[n].owner = n => key.owner = n /\ seen[n].mine
            /\ pc[n] # "sleep" /\ view[n].owner = n => view[n].mine
            /\ pc[n] = "loaded" /\ view[n].owner = n => key.owner = n
            /\ pc[n] \in {"update", "renew"} => held[n]

IInv == Server /\ Nodes /\ Tamed /\ Calling /\ Observed /\ Faultless /\ HonestAnswers

LEMMA TypesOK == TypeOK <=> Server /\ Nodes
  BY DEF TypeOK, Server, Nodes, Keys

LEMMA Constants ==
  /\ NoKey \in Keys /\ NoCopy \in Copies
  /\ \A n \in Node : Mine(n) \in Keys /\ Mine(n).owner = n /\ Mine(n).mine /\ ~Mine(n).late
  /\ NoKey.owner = None /\ NoKey.mine /\ ~NoKey.late
  BY DEF NoKey, NoCopy, Mine, Keys, Copies

LEMMA CopyFacts ==
  ASSUME NEW k \in Keys
  PROVE  Copy(k) \in Copies /\ Copy(k).owner = k.owner /\ Copy(k).mine = k.mine /\ Copy(k).cur
  BY DEF Copy, Keys, Copies

LEMMA StaleFacts ==
  ASSUME NEW c \in Copies
  PROVE  Stale(c) \in Copies /\ Stale(c).owner = c.owner /\ Stale(c).mine = c.mine /\ ~Stale(c).cur
  BY DEF Stale, Copies

LEMMA ForgetCopy ==
  ASSUME NEW c \in Copies, NEW n \in Node
  PROVE  /\ Forget(c, n) \in Copies /\ Forget(c, n).owner = c.owner /\ Forget(c, n).cur = c.cur
         /\ Forget(c, n).mine = IF c.owner = n THEN FALSE ELSE c.mine
  BY DEF Forget, Copies

LEMMA ForgetKey ==
  ASSUME NEW k \in Keys, NEW n \in Node
  PROVE  /\ Forget(k, n) \in Keys /\ Forget(k, n).owner = k.owner /\ Forget(k, n).late = k.late
         /\ Forget(k, n).mine = IF k.owner = n THEN FALSE ELSE k.mine
         /\ Copy(Forget(k, n)) = Forget(Copy(k), n)
  BY DEF Forget, Keys, Copy

LEMMA InitIInv == Init => IInv
  <1> SUFFICES ASSUME Init
               PROVE  IInv
    OBVIOUS
  <1>1. Server
    BY Constants, CopyFacts DEF Init, Server
  <1>2. Nodes
    BY DEF Init, Nodes, Steps, Answers
  <1>3. key.mine /\ ~before.cur /\ ~expiring.cur /\ \A n \in Node : ~view[n].cur
    BY DEF Init, NoKey, NoCopy
  <1>4. Tamed
    BY <1>3 DEF Tamed
  <1>5. \A n \in Node : pc[n] = "sleep" /\ told[n] = None
    BY DEF Init
  <1>8. Calling
    BY <1>5 DEF Calling
  <1>9. HonestAnswers
    BY <1>5 DEF HonestAnswers, None
  <1>6. key.owner = None /\ \A n \in Node : seen[n].owner = None
    BY DEF Init, NoKey, Copy
  <1>7. Observed /\ Faultless
    BY <1>3, <1>6 DEF Init, Observed, Faultless
  <1> QED BY <1>1, <1>2, <1>4, <1>7, <1>8, <1>9 DEF IInv

-----------------------------------------------------------------------------
(* What happens to the server.                                              *)

\* Whoever knows the new version has the new key, all the others have copies of
\* older ones.
LEMMA WriteServer ==
  ASSUME Server, NEW k \in Keys, NEW who, Write(k, who)
  PROVE  /\ Server'
         /\ key' = k /\ ~expiring'.cur
         /\ \A m \in Node : /\ seen'[m].owner = (IF m \in who THEN k.owner ELSE seen[m].owner)
                            /\ seen'[m].mine = (IF m \in who THEN k.mine ELSE seen[m].mine)
                            /\ seen'[m].cur => m \in who
                            /\ ~view'[m].cur /\ view'[m].owner = view[m].owner
                            /\ view'[m].mine = view[m].mine
                            /\ m \in who => ~noticed'[m]
                            /\ held[m] => held'[m]
                            /\ pc[m] \notin {"sleep", "loaded"} /\ k.owner = m => held'[m]
         /\ ~before.cur => ~before'.cur
  <1>1. key' = k
    BY DEF Write
  <1>2. ASSUME NEW m \in Node
        PROVE  /\ seen'[m] = IF m \in who THEN Copy(k) ELSE Stale(seen[m])
               /\ view'[m] = Stale(view[m])
               /\ noticed'[m] = (noticed[m] /\ m \notin who)
               /\ held'[m] = (held[m] \/ (pc[m] \notin {"sleep", "loaded"} /\ k.owner = m))
    BY DEF Write
  <1>3. \A m \in Node : Stale(seen[m]) \in Copies /\ Stale(view[m]) \in Copies /\ Copy(k) \in Copies
    BY StaleFacts, CopyFacts DEF Server
  <1>4. seen' \in [Node -> Copies] /\ view' \in [Node -> Copies]
    BY <1>3 DEF Write
  <1>5. noticed' \in [Node -> BOOLEAN] /\ held' \in [Node -> BOOLEAN]
    BY DEF Write
  <1>6. before' \in Copies /\ expiring' \in Copies /\ ~expiring'.cur /\ (~before.cur => ~before'.cur)
    BY StaleFacts, CopyFacts DEF Server, Write
  <1>7. \A m \in Node : seen'[m].cur => m \in who /\ seen'[m] = Copy(key')
    BY <1>1, <1>2, StaleFacts DEF Server
  <1>8. Server'
    BY <1>1, <1>4, <1>5, <1>6, <1>7 DEF Server
  <1>9. ASSUME NEW m \in Node
        PROVE  /\ seen'[m].owner = (IF m \in who THEN k.owner ELSE seen[m].owner)
               /\ seen'[m].mine = (IF m \in who THEN k.mine ELSE seen[m].mine)
               /\ ~view'[m].cur /\ view'[m].owner = view[m].owner /\ view'[m].mine = view[m].mine
    BY <1>2, StaleFacts, CopyFacts DEF Server
  <1> QED BY <1>1, <1>2, <1>6, <1>7, <1>8, <1>9

\* The owners stay when a node has a new session.
LEMMA NewSessionServer ==
  ASSUME Server, NEW n \in Node, NewSession(n)
  PROVE  /\ Server'
         /\ key'.owner = key.owner /\ key'.late = key.late
         /\ \A m \in Node : /\ seen'[m].owner = seen[m].owner /\ seen'[m].cur = seen[m].cur
                            /\ view'[m].owner = view[m].owner /\ view'[m].cur = view[m].cur
         /\ before'.cur = before.cur
         /\ UNCHANGED <<expiring, noticed, held>>
  <1>1. /\ key' = Forget(key, n) /\ before' = Forget(before, n)
        /\ \A m \in Node : seen'[m] = Forget(seen[m], n) /\ view'[m] = Forget(view[m], n)
        /\ UNCHANGED <<expiring, noticed, held>>
    BY DEF NewSession
  <1>2. seen' \in [Node -> Copies] /\ view' \in [Node -> Copies]
    BY ForgetCopy DEF Server, NewSession
  <1>3. ASSUME NEW m \in Node
        PROVE  /\ seen'[m].owner = seen[m].owner /\ seen'[m].cur = seen[m].cur
               /\ view'[m].owner = view[m].owner /\ view'[m].cur = view[m].cur
               /\ seen'[m].cur => seen'[m] = Copy(key')
    <2>1. seen[m] \in Copies /\ view[m] \in Copies /\ key \in Keys
      BY DEF Server
    <2>5. /\ Forget(seen[m], n).owner = seen[m].owner /\ Forget(seen[m], n).cur = seen[m].cur
          /\ Forget(view[m], n).owner = view[m].owner /\ Forget(view[m], n).cur = view[m].cur
      BY <2>1, ForgetCopy
    <2>2. /\ seen'[m].owner = seen[m].owner /\ seen'[m].cur = seen[m].cur
          /\ view'[m].owner = view[m].owner /\ view'[m].cur = view[m].cur
      BY <1>1, <2>5
    <2>3. Copy(key') = Forget(Copy(key), n)
      BY <1>1, <2>1, ForgetKey
    <2>4. seen[m].cur => seen'[m] = Copy(key')
      BY <1>1, <2>3 DEF Server
    <2> QED BY <2>2, <2>4
  <1>4. /\ key' \in Keys /\ key'.owner = key.owner /\ key'.late = key.late
        /\ before' \in Copies /\ before'.cur = before.cur
    BY <1>1, ForgetKey, ForgetCopy DEF Server
  <1>5. Server'
    BY <1>1, <1>2, <1>3, <1>4 DEF Server
  <1> QED BY <1>1, <1>3, <1>4, <1>5

\* The leader key goes with its session, the other copies become old.
LEMMA RestartServer ==
  ASSUME Server, NEW n \in Node, RestartClient(n)
  PROVE  /\ Server'
         /\ key' = (IF key.owner = n /\ key.mine THEN NoKey ELSE Forget(key, n))
         /\ \A m \in Node : view'[m].owner = view[m].owner /\ (view'[m].cur => view[m].cur)
         /\ \A m \in Node : view'[m].cur => ~(key.owner = n /\ key.mine)
         /\ seen'[n] = Copy(key')
         /\ \A m \in Node \ {n} : /\ seen'[m].owner = seen[m].owner
                                  /\ seen[m].owner # n => seen'[m].mine = seen[m].mine
                                  /\ view[m].owner # n => view'[m].mine = view[m].mine
         /\ UNCHANGED <<before, expiring, noticed, held>>
  <1> DEFINE gone == key.owner = n /\ key.mine
  <1>1. /\ key' = (IF gone THEN NoKey ELSE Forget(key, n))
        /\ UNCHANGED <<before, expiring, noticed, held>>
    BY DEF RestartClient
  <1>2. key' \in Keys
    BY <1>1, Constants, ForgetKey DEF Server
  <1>3. ASSUME NEW m \in Node
        PROVE  /\ seen'[m] \in Copies /\ view'[m] \in Copies
               /\ seen'[m].cur => seen'[m] = Copy(key')
               /\ view'[m].owner = view[m].owner /\ (view'[m].cur => view[m].cur /\ ~gone)
    <2>1. seen[m] \in Copies /\ view[m] \in Copies /\ key \in Keys
      BY DEF Server
    <2>2. /\ seen'[m] = IF m = n THEN Copy(key') ELSE Forget(IF gone THEN Stale(seen[m]) ELSE seen[m], n)
          /\ view'[m] = Forget(IF gone THEN Stale(view[m]) ELSE view[m], n)
      BY DEF RestartClient
    <2>3. CASE gone
      <3>1. /\ Stale(seen[m]) \in Copies /\ ~Stale(seen[m]).cur
            /\ Stale(view[m]) \in Copies /\ ~Stale(view[m]).cur /\ Stale(view[m]).owner = view[m].owner
        BY <2>1, StaleFacts
      <3>2. /\ Forget(Stale(seen[m]), n) \in Copies /\ ~Forget(Stale(seen[m]), n).cur
            /\ Forget(Stale(view[m]), n) \in Copies /\ ~Forget(Stale(view[m]), n).cur
            /\ Forget(Stale(view[m]), n).owner = view[m].owner
        BY <3>1, ForgetCopy
      <3> QED BY <1>2, <2>2, <2>3, <3>2, CopyFacts
    <2>4. CASE ~gone
      <3>1. /\ Forget(seen[m], n) \in Copies /\ Forget(seen[m], n).cur = seen[m].cur
            /\ Forget(view[m], n) \in Copies /\ Forget(view[m], n).cur = view[m].cur
            /\ Forget(view[m], n).owner = view[m].owner
        BY <2>1, ForgetCopy
      <3>2. Copy(key') = Forget(Copy(key), n)
        BY <1>1, <2>1, <2>4, ForgetKey
      <3>3. seen[m].cur => seen[m] = Copy(key)
        BY DEF Server
      <3> QED BY <1>2, <2>2, <2>4, <3>1, <3>2, <3>3, CopyFacts
    <2> QED BY <2>3, <2>4
  <1>6. seen'[n] = Copy(key')
    BY DEF RestartClient
  <1>7. ASSUME NEW m \in Node \ {n}
        PROVE  /\ seen'[m].owner = seen[m].owner
               /\ seen[m].owner # n => seen'[m].mine = seen[m].mine
               /\ view[m].owner # n => view'[m].mine = view[m].mine
    <2>1. seen[m] \in Copies /\ view[m] \in Copies
      BY DEF Server
    <2>2. /\ seen'[m] = Forget(IF gone THEN Stale(seen[m]) ELSE seen[m], n)
          /\ view'[m] = Forget(IF gone THEN Stale(view[m]) ELSE view[m], n)
      BY DEF RestartClient
    <2>3. /\ Stale(seen[m]) \in Copies /\ Stale(seen[m]).owner = seen[m].owner
          /\ Stale(seen[m]).mine = seen[m].mine
          /\ Stale(view[m]) \in Copies /\ Stale(view[m]).owner = view[m].owner
          /\ Stale(view[m]).mine = view[m].mine
      BY <2>1, StaleFacts
    <2>4. /\ Forget(seen[m], n).owner = seen[m].owner
          /\ seen[m].owner # n => Forget(seen[m], n).mine = seen[m].mine
          /\ view[m].owner # n => Forget(view[m], n).mine = view[m].mine
      BY <2>1, ForgetCopy
    <2>5. /\ Forget(Stale(seen[m]), n).owner = seen[m].owner
          /\ seen[m].owner # n => Forget(Stale(seen[m]), n).mine = seen[m].mine
          /\ view[m].owner # n => Forget(Stale(view[m]), n).mine = view[m].mine
      BY <2>3, ForgetCopy
    <2>6. CASE gone
      BY <2>2, <2>5, <2>6
    <2>7. CASE ~gone
      BY <2>2, <2>4, <2>7
    <2> QED BY <2>6, <2>7
  <1>4. seen' \in [Node -> Copies] /\ view' \in [Node -> Copies]
    BY <1>3 DEF RestartClient
  <1>5. Server'
    BY <1>1, <1>2, <1>3, <1>4 DEF Server
  <1> QED BY <1>1, <1>3, <1>5, <1>6, <1>7

-----------------------------------------------------------------------------
(* What happens to a call.                                                  *)

LEMMA FaultFacts ==
  ASSUME Nodes, Fault
  PROVE  faults' \in 0..MaxFaults /\ faults' > 0
  BY DEF Nodes, Fault

Nexts == {"put", "put_again", "new_session", "create", "recreate", "put_anew", "reread", "patch"} \union Answers

\* The steps that a call of this store can go on with.
Fits(n, next) ==
    /\ pc[n] \notin {"sleep", "loaded"} /\ next \in Nexts
    /\ next = "recreate" => view[n].owner = n
    /\ next \in {"put", "put_again", "new_session", "recreate", "put_anew"} => backend \in {"etcd3", "consul"}
    /\ next = "create" => backend \in {"etcd", "raft", "zookeeper"}
    /\ faults = 0 /\ HasSessions => next \notin {"recreate", "put_anew", "new_session"}

LEMMA GoToFacts ==
  ASSUME Nodes, NEW n \in Node, NEW next, Fits(n, next), GoTo(n, next)
  PROVE  /\ pc' \in [Node -> Steps] /\ told' \in [Node -> Answers \union {None}]
         /\ pc'[n] = IF next \in Answers THEN "sleep" ELSE next
         /\ told'[n] = IF next \in Answers THEN next ELSE told[n]
         /\ \A m \in Node \ {n} : pc'[m] = pc[m] /\ told'[m] = told[m]
  <1>1. next \notin Answers => next \in Steps
    BY DEF Fits, Nexts, Steps
  <1>2. "sleep" \in Steps
    BY DEF Steps
  <1> QED BY <1>1, <1>2 DEF GoTo, Nodes

\* A call that goes on stays one of its cluster, and its answer is true.
LEMMA GoToKeeps ==
  ASSUME Nodes, Calling, HonestAnswers, NEW n \in Node, NEW next, Fits(n, next), GoTo(n, next),
         backend' = backend, faults' \in 0..MaxFaults, faults' >= faults,
         \A m \in Node : view'[m].owner = view[m].owner /\ (held[m] => held'[m]),
         next = "yes" => held'[n],
         next = "assumed" => held'[n] \/ faults' > 0
  PROVE  Calling' /\ HonestAnswers'
  <1>1. /\ pc'[n] = IF next \in Answers THEN "sleep" ELSE next
        /\ told'[n] = IF next \in Answers THEN next ELSE told[n]
        /\ \A m \in Node \ {n} : pc'[m] = pc[m] /\ told'[m] = told[m]
    BY GoToFacts
  <1>2. told[n] = None
    BY DEF Fits, Calling
  <1>3. ASSUME NEW m \in Node
        PROVE  /\ pc'[m] \in {"update", "renew", "recreate", "delete"} => view'[m].owner = m
               /\ pc'[m] # "sleep" => told'[m] = None
               /\ pc'[m] \in {"refresh", "put", "put_again", "new_session", "renew", "recreate", "put_anew"}
                    => backend' \in {"etcd3", "consul"}
               /\ pc'[m] = "create" => backend' \notin {"etcd3", "consul"}
               /\ pc'[m] = "create" /\ backend' = "kubernetes" => view'[m].owner = None
    <2>1. CASE m # n
      BY <1>1, <2>1 DEF Calling
    <2>2. CASE m = n
      BY <1>1, <1>2, <2>2 DEF Fits, Nexts
    <2> QED BY <2>1, <2>2
  <1>4. ASSUME NEW m \in Node
        PROVE  /\ told'[m] = "yes" => held'[m]
               /\ told'[m] = "assumed" => held'[m] \/ faults' > 0
    <2>1. CASE m # n
      BY <1>1, <2>1 DEF HonestAnswers, Nodes
    <2>2. CASE m = n
      BY <1>1, <1>2, <2>2 DEF None
    <2> QED BY <2>1, <2>2
  <1>5. Calling'
    BY <1>3 DEF Calling
  <1>6. HonestAnswers'
    BY <1>4 DEF HonestAnswers
  <1> QED BY <1>5, <1>6

\* As GoToKeeps, for a step outside of the calls.
LEMMA WaitKeeps ==
  ASSUME Nodes, Calling, HonestAnswers, UNCHANGED <<backend, pc, told>>,
         faults' \in 0..MaxFaults, faults' >= faults,
         \A m \in Node : view'[m].owner = view[m].owner /\ (held[m] => held'[m])
  PROVE  Calling' /\ HonestAnswers'
  <1>1. Calling'
    BY DEF Calling
  <1>2. HonestAnswers'
    BY DEF HonestAnswers, Nodes
  <1> QED BY <1>1, <1>2

-----------------------------------------------------------------------------
(* What happens to the invariant.                                           *)

LEMMA IInvPrime ==
  ASSUME Server', Nodes', Tamed', Calling', Observed', Faultless', HonestAnswers'
  PROVE  IInv'
  BY DEF IInv

\* No copy of a key that has just been written over is current.
LEMMA WriteTames ==
  ASSUME IInv, NEW k \in Keys, NEW who, Write(k, who), backend' = backend, k.mine
  PROVE  Server' /\ Tamed' /\ Observed'
  <1>1. Server /\ Tamed
    BY DEF IInv
  <1>2. /\ Server' /\ key' = k /\ ~expiring'.cur
        /\ \A m \in Node : /\ seen'[m].cur => m \in who
                           /\ ~view'[m].cur /\ (m \in who => ~noticed'[m])
        /\ ~before'.cur
    BY <1>1, WriteServer DEF Tamed
  <1>3. Tamed'
    BY <1>2 DEF Tamed
  <1>4. Observed'
    BY <1>2 DEF Observed
  <1> QED BY <1>2, <1>3, <1>4

\* A request of a call, whether it arrives, and its answer, or not.
LEMMA RequestKeeps ==
  ASSUME IInv, NEW n \in Node, NEW k, NEW next,
         k = Mine(n) \/ k = NoKey, next = "yes" => k = Mine(n), next # "assumed",
         Fits(n, next), Change(n, k, next),
         faults = 0 /\ HasSessions => key.owner \in {n, None},
         UNCHANGED <<backend, elapsed, sess>>, ready' \in [Node -> BOOLEAN]
  PROVE  IInv'
  <1>1. /\ Server /\ Nodes /\ Tamed /\ Calling /\ Faultless /\ HonestAnswers
        /\ faults \in 0..MaxFaults
    BY DEF IInv, Nodes
  <1>2. k \in Keys /\ k.mine /\ (k.owner = n \/ k.owner = None)
    BY Constants
  <1>3. ASSUME NEW who, Write(k, who)
        PROVE  /\ Server' /\ Tamed' /\ Observed' /\ key' = k
               /\ \A m \in Node : /\ seen'[m].owner = (IF m \in who THEN k.owner ELSE seen[m].owner)
                                  /\ seen'[m].mine = (IF m \in who THEN k.mine ELSE seen[m].mine)
                                  /\ view'[m].owner = view[m].owner /\ view'[m].mine = view[m].mine
                                  /\ held[m] => held'[m]
                                  /\ pc[m] \notin {"sleep", "loaded"} /\ k.owner = m => held'[m]
    BY <1>1, <1>2, <1>3, WriteTames, WriteServer
  <1>4. CASE Write(k, {n}) /\ GoTo(n, next) /\ UNCHANGED faults
    <2>1. /\ Server' /\ Tamed' /\ Observed' /\ key' = k
          /\ \A m \in Node : /\ seen'[m].owner = (IF m \in {n} THEN k.owner ELSE seen[m].owner)
                             /\ seen'[m].mine = (IF m \in {n} THEN k.mine ELSE seen[m].mine)
                             /\ view'[m].owner = view[m].owner /\ view'[m].mine = view[m].mine
                             /\ held[m] => held'[m]
                             /\ pc[m] \notin {"sleep", "loaded"} /\ k.owner = m => held'[m]
      BY <1>3, <1>4
    <2>2. next = "yes" => held'[n]
      BY <2>1, Constants DEF Fits
    <2>3. Calling' /\ HonestAnswers'
      BY <1>1, <1>4, <2>1, <2>2, GoToKeeps
    <2>4. Nodes'
      BY <1>1, <1>4, GoToFacts DEF Nodes
    <2>5. /\ pc'[n] = IF next \in Answers THEN "sleep" ELSE next
          /\ \A m \in Node \ {n} : pc'[m] = pc[m]
      BY <1>1, <1>4, GoToFacts
    <2>6. ASSUME faults = 0, HasSessions
          PROVE  Faultless'
      <3>1. pc'[n] \notin {"recreate", "put_anew", "new_session", "loaded", "update", "renew"}
        BY <2>5, <2>6 DEF Fits, Nexts, Answers
      <3>2. key'.mine /\ key'.owner \in {n, None}
        BY <1>2, <2>1
      <3>3. ASSUME NEW m \in Node
            PROVE  /\ sess'[m] = "live"
                   /\ pc'[m] \notin {"recreate", "put_anew", "new_session"}
                   /\ pc'[m] # "sleep" /\ view'[m].owner = m => view'[m].mine
                   /\ pc'[m] \in {"update", "renew"} => held'[m]
        <4>1. CASE m = n
          BY <1>1, <2>1, <2>6, <3>1, <4>1 DEF Faultless, Fits
        <4>2. CASE m # n
          BY <1>1, <2>1, <2>5, <2>6, <4>2 DEF Faultless
        <4> QED BY <4>1, <4>2
      <3>4. ASSUME NEW m \in Node
            PROVE  /\ seen'[m].owner = m => key'.owner = m /\ seen'[m].mine
                   /\ pc'[m] = "loaded" /\ view'[m].owner = m => key'.owner = m
        <4>1. CASE m # n
          <5>1. key.owner # m
            BY <2>6, <4>1
          <5> QED BY <1>1, <2>1, <2>5, <2>6, <4>1, <5>1 DEF Faultless
        <4>2. CASE m = n
          BY <1>2, <2>1, <3>1, <4>2
        <4> QED BY <4>1, <4>2
      <3> QED BY <3>2, <3>3, <3>4 DEF Faultless
    <2>7. Faultless'
      BY <1>4, <2>6 DEF Faultless, HasSessions
    <2> QED BY <2>1, <2>3, <2>4, <2>7, IInvPrime
  <1>5. CASE Write(k, {}) /\ Fault /\ UNCHANGED <<pc, told>>
    <2>1. faults' \in 0..MaxFaults /\ faults' > 0 /\ faults' >= faults
      BY <1>1, <1>5, FaultFacts DEF Fault
    <2>2. Calling' /\ HonestAnswers'
      BY <1>1, <1>3, <1>5, <2>1, WaitKeeps
    <2>3. Nodes' /\ Faultless'
      BY <1>1, <1>5, <2>1 DEF Nodes, Faultless
    <2> QED BY <1>3, <1>5, <2>2, <2>3, IInvPrime
  <1>6. CASE Write(k, {}) /\ Fault /\ GoTo(n, "error")
    <2>1. faults' \in 0..MaxFaults /\ faults' > 0 /\ faults' >= faults
      BY <1>1, <1>6, FaultFacts DEF Fault
    <2>2. Fits(n, "error")
      BY DEF Fits, Nexts, Answers
    <2>3. Calling' /\ HonestAnswers'
      BY <1>1, <1>3, <1>6, <2>1, <2>2, GoToKeeps
    <2>4. Nodes' /\ Faultless'
      BY <1>1, <1>6, <2>1, <2>2, GoToFacts DEF Nodes, Faultless
    <2> QED BY <1>3, <1>6, <2>3, <2>4, IInvPrime
  <1> QED BY <1>4, <1>5, <1>6 DEF Change

\* A step of a call that changes no key.
LEMMA AnswerKeeps ==
  ASSUME IInv, NEW n \in Node, NEW next,
         next \notin {"yes", "patch"}, next = "assumed" => held[n] \/ faults > 0,
         Fits(n, next), Keep, GoTo(n, next), faults' \in 0..MaxFaults, faults' >= faults,
         UNCHANGED <<backend, elapsed, sess>>, ready' \in [Node -> BOOLEAN]
  PROVE  IInv'
  <1>1. /\ Server /\ Nodes /\ Tamed /\ Calling /\ Observed /\ Faultless /\ HonestAnswers
        /\ faults \in 0..MaxFaults
    BY DEF IInv, Nodes
  <1>2. UNCHANGED <<key, seen, view, before, expiring, noticed, held>>
    BY DEF Keep
  <1>3. /\ pc' \in [Node -> Steps] /\ told' \in [Node -> Answers \union {None}]
        /\ pc'[n] = IF next \in Answers THEN "sleep" ELSE next
        /\ \A m \in Node \ {n} : pc'[m] = pc[m]
    BY <1>1, GoToFacts
  <1>4. Calling' /\ HonestAnswers'
    BY <1>1, <1>2, GoToKeeps
  <1>5. Server' /\ Tamed' /\ Nodes'
    BY <1>1, <1>2, <1>3 DEF Server, Tamed, Nodes, HasSessions
  <1>6. pc'[n] \notin {"loaded", "patch", "update", "renew"} /\ (pc'[n] = "create" => backend # "kubernetes")
    BY <1>3 DEF Fits, Nexts, Answers
  <1>7. Observed'
    <2>1. ASSUME backend = "kubernetes", key.owner # None, ~key.late, NEW m \in Node
          PROVE  /\ ~(seen[m].cur /\ noticed[m] /\ elapsed[m])
                 /\ pc'[m] \in {"loaded", "create"} /\ view[m].owner = None => ~view[m].cur
                 /\ pc'[m] = "patch" /\ view[m].cur => key.owner = m
      <3>1. CASE m = n
        BY <1>1, <1>6, <2>1, <3>1 DEF Observed
      <3>2. CASE m # n
        BY <1>1, <1>3, <2>1, <3>2 DEF Observed
      <3> QED BY <3>1, <3>2
    <2> QED BY <1>2, <2>1 DEF Observed
  <1>8. Faultless'
    <2>1. ASSUME faults' = 0, HasSessions
          PROVE  Faultless'
      <3>1. faults = 0 /\ pc'[n] \notin {"recreate", "put_anew", "new_session"}
        BY <1>1, <1>3, <2>1 DEF Fits, Answers
      <3>2. ASSUME NEW m \in Node
            PROVE  /\ sess'[m] = "live"
                   /\ pc'[m] \notin {"recreate", "put_anew", "new_session"}
                   /\ seen[m].owner = m => key.owner = m /\ seen[m].mine
                   /\ pc'[m] # "sleep" /\ view[m].owner = m => view[m].mine
                   /\ pc'[m] = "loaded" /\ view[m].owner = m => key.owner = m
                   /\ pc'[m] \in {"update", "renew"} => held[m]
        <4>1. CASE m = n
          BY <1>1, <1>6, <2>1, <3>1, <4>1 DEF Faultless, Fits
        <4>2. CASE m # n
          BY <1>1, <1>3, <2>1, <3>1, <4>2 DEF Faultless
        <4> QED BY <4>1, <4>2
      <3>3. key.mine
        BY <1>1, <2>1, <3>1 DEF Faultless
      <3> QED BY <1>2, <3>2, <3>3 DEF Faultless
    <2> QED BY <2>1 DEF Faultless, HasSessions
  <1> QED BY <1>4, <1>5, <1>7, <1>8, IInvPrime

\* A step that gives a node a session or takes it away, after a fault.
LEMMA SessionKeeps ==
  ASSUME IInv, NEW n \in Node, NEW next, HasSessions, NewSession(n) \/ Keep,
         (Fits(n, next) /\ GoTo(n, next) /\ next # "yes") \/ UNCHANGED <<pc, told>>,
         faults' \in 0..MaxFaults, faults' >= faults, faults' > 0,
         UNCHANGED <<backend, ready, elapsed>>, sess' \in [Node -> {"live", "dead", None}]
  PROVE  IInv'
  <1>1. Server /\ Nodes /\ Tamed /\ Calling /\ HonestAnswers
    BY DEF IInv
  <1>2. backend # "kubernetes"
    BY DEF HasSessions
  <1>3. /\ Server' /\ before'.cur = before.cur /\ key'.owner = key.owner /\ key'.late = key.late
        /\ UNCHANGED <<expiring, held>>
        /\ \A m \in Node : view'[m].owner = view[m].owner /\ view'[m].cur = view[m].cur
    <2>1. CASE Keep
      BY <1>1, <2>1 DEF Keep, Server
    <2>2. CASE NewSession(n)
      BY <1>1, <2>2, NewSessionServer
    <2> QED BY <2>1, <2>2
  <1>4. Tamed'
    BY <1>1, <1>2, <1>3 DEF Tamed, HasSessions
  <1>5. Observed' /\ Faultless'
    BY <1>2 DEF Observed, Faultless
  <1>6. CASE Fits(n, next) /\ GoTo(n, next) /\ next # "yes"
    <2>1. Calling' /\ HonestAnswers'
      BY <1>1, <1>3, <1>6, GoToKeeps
    <2>2. Nodes'
      BY <1>1, <1>6, GoToFacts DEF Nodes
    <2> QED BY <1>3, <1>4, <1>5, <2>1, <2>2, IInvPrime
  <1>7. CASE UNCHANGED <<pc, told>>
    <2>1. Calling' /\ HonestAnswers'
      BY <1>1, <1>3, <1>7, WaitKeeps
    <2>2. Nodes'
      BY <1>1, <1>7 DEF Nodes
    <2> QED BY <1>3, <1>4, <1>5, <2>1, <2>2, IInvPrime
  <1> QED BY <1>6, <1>7

\* The store removes the key by itself.
LEMMA RemovalKeeps ==
  ASSUME IInv, Write(NoKey, {}), UNCHANGED <<backend, ready, elapsed, pc, told>>,
         faults' \in 0..MaxFaults, faults' >= faults, HasSessions => faults' > 0,
         sess' \in [Node -> {"live", "dead", None}]
  PROVE  IInv'
  <1>1. Server /\ Nodes /\ Tamed /\ Calling /\ HonestAnswers
    BY DEF IInv
  <1>2. Server' /\ Tamed' /\ Observed'
    BY Constants, WriteTames
  <1>3. \A m \in Node : view'[m].owner = view[m].owner /\ (held[m] => held'[m])
    BY <1>1, Constants, WriteServer
  <1>4. Calling' /\ HonestAnswers'
    BY <1>1, <1>3, WaitKeeps
  <1>5. Nodes' /\ Faultless'
    BY <1>1 DEF Nodes, Faultless, HasSessions
  <1> QED BY <1>2, <1>4, <1>5, IInvPrime

\* A zookeeper client is restarted.
LEMMA RestartKeeps ==
  ASSUME IInv, NEW n \in Node, backend = "zookeeper", RestartClient(n),
         \/ pc[n] = "delete" /\ GoTo(n, "done") /\ UNCHANGED faults
         \/ UNCHANGED <<pc, told>> /\ Fault,
         UNCHANGED <<backend, ready, elapsed>>
  PROVE  IInv'
  <1>1. Server /\ Nodes /\ Tamed /\ Calling /\ Faultless /\ HonestAnswers
    BY DEF IInv
  <1>2. /\ Server'
        /\ key' = (IF key.owner = n /\ key.mine THEN NoKey ELSE Forget(key, n))
        /\ \A m \in Node : view'[m].owner = view[m].owner /\ (view'[m].cur => view[m].cur)
        /\ \A m \in Node : view'[m].cur => ~(key.owner = n /\ key.mine)
        /\ seen'[n] = Copy(key')
        /\ \A m \in Node \ {n} : /\ seen'[m].owner = seen[m].owner
                                 /\ seen[m].owner # n => seen'[m].mine = seen[m].mine
                                 /\ view[m].owner # n => view'[m].mine = view[m].mine
        /\ UNCHANGED <<before, expiring, noticed, held>>
    BY <1>1, RestartServer
  <1>3. key \in Keys
    BY <1>1 DEF Server
  <1>4. Tamed'
    <2>1. ~expiring'.cur
      BY <1>1, <1>2 DEF Tamed
    <2>2. ASSUME NEW m \in Node, view'[m].cur
          PROVE  view'[m].owner = key'.owner
      <3>1. Forget(key, n).owner = key.owner
        BY <1>3, ForgetKey
      <3>2. key' = Forget(key, n) /\ view[m].cur /\ view'[m].owner = view[m].owner
        BY <1>2, <2>2
      <3> QED BY <1>1, <3>1, <3>2 DEF Tamed
    <2> QED BY <1>1, <1>2, <2>1, <2>2 DEF Tamed, HasSessions
  <1>5. Observed'
    BY DEF Observed
  <1>6. sess' \in [Node -> {"live", "dead", None}] /\ \A m \in Node : sess[m] = "live" => sess'[m] = "live"
    BY <1>1 DEF RestartClient, Nodes
  <1>7. CASE pc[n] = "delete" /\ GoTo(n, "done") /\ UNCHANGED faults
    <2>1. Fits(n, "done") /\ "done" \in Answers
      BY <1>7 DEF Fits, Nexts, Answers
    <2>2. Calling' /\ HonestAnswers'
      BY <1>1, <1>2, <1>7, <2>1, GoToKeeps DEF Nodes
    <2>3. Nodes'
      BY <1>1, <1>6, <1>7, <2>1, GoToFacts DEF Nodes
    <2>4. pc'[n] = "sleep" /\ \A m \in Node \ {n} : pc'[m] = pc[m]
      BY <1>1, <1>7, <2>1, GoToFacts
    <2>5. ASSUME faults = 0
          PROVE  Faultless'
      <3>1. HasSessions /\ key.mine
        BY <1>1, <2>5 DEF Faultless, HasSessions
      <3>2. key.owner = n => key'.owner = None /\ key'.mine
        BY <1>2, <3>1, Constants
      <3>3. key.owner # n => key' = key
        BY <1>2 DEF Forget
      <3>4. key'.mine /\ key' \in Keys
        BY <1>2, <3>1, <3>2, <3>3 DEF Server
      <3>5. ASSUME NEW m \in Node
            PROVE  /\ sess'[m] = "live"
                   /\ pc'[m] \notin {"recreate", "put_anew", "new_session"}
                   /\ seen'[m].owner = m => key'.owner = m /\ seen'[m].mine
                   /\ pc'[m] # "sleep" /\ view'[m].owner = m => view'[m].mine
                   /\ pc'[m] = "loaded" /\ view'[m].owner = m => key'.owner = m
                   /\ pc'[m] \in {"update", "renew"} => held'[m]
        <4>1. CASE m = n
          BY <1>1, <1>2, <1>6, <2>4, <2>5, <3>1, <3>4, <4>1, CopyFacts DEF Faultless
        <4>2. CASE m # n
          BY <1>1, <1>2, <1>6, <2>4, <2>5, <3>1, <3>2, <3>3, <4>2 DEF Faultless
        <4> QED BY <4>1, <4>2
      <3> QED BY <3>4, <3>5 DEF Faultless
    <2>6. Faultless'
      BY <1>7, <2>5 DEF Faultless
    <2> QED BY <1>2, <1>4, <1>5, <2>2, <2>3, <2>6, IInvPrime
  <1>8. CASE UNCHANGED <<pc, told>> /\ Fault
    <2>1. faults' \in 0..MaxFaults /\ faults' > 0 /\ faults' >= faults
      BY <1>1, <1>8, FaultFacts DEF Fault, Nodes
    <2>2. Calling' /\ HonestAnswers'
      BY <1>1, <1>2, <1>8, <2>1, WaitKeeps
    <2>3. Nodes' /\ Faultless'
      BY <1>1, <1>6, <1>8, <2>1 DEF Nodes, Faultless
    <2> QED BY <1>2, <1>4, <1>5, <2>2, <2>3, IInvPrime
  <1> QED BY <1>7, <1>8

-----------------------------------------------------------------------------
(* The server's steps.                                                      *)

LEMMA TtlPassesKeeps == IInv /\ TtlPasses => IInv'
  <1> SUFFICES ASSUME IInv, TtlPasses
               PROVE  IInv'
    OBVIOUS
  <1>1. /\ Server /\ Nodes /\ Tamed /\ Calling /\ HonestAnswers
        /\ faults' \in 0..MaxFaults /\ faults' > 0 /\ faults' >= faults
    BY FaultFacts DEF IInv, TtlPasses, Fault, Nodes
  <1>2. /\ key' \in Keys /\ Copy(key') = Copy(key)
        /\ key'.owner = key.owner /\ key'.mine = key.mine /\ key'.late
    BY <1>1 DEF TtlPasses, Server, Keys, Copy
  <1>3. /\ UNCHANGED <<backend, seen, before, ready, noticed, elapsed, expiring, sess, view, pc, told, held>>
        /\ backend \in {"etcd", "raft"}
    BY DEF TtlPasses, local
  <1>4. Server' /\ Nodes'
    BY <1>1, <1>2, <1>3 DEF Server, Nodes
  <1>5. Tamed'
    BY <1>1, <1>2, <1>3 DEF Tamed, HasSessions
  <1>6. Calling' /\ HonestAnswers'
    BY <1>1, <1>3, WaitKeeps
  <1>7. Observed' /\ Faultless'
    BY <1>1, <1>2 DEF Observed, Faultless
  <1> QED BY <1>4, <1>5, <1>6, <1>7, IInvPrime

LEMMA ServerExpiresKeeps == IInv /\ ServerExpires => IInv'
  <1> SUFFICES ASSUME IInv, ServerExpires
               PROVE  IInv'
    OBVIOUS
  <1>1. ~HasSessions /\ faults \in 0..MaxFaults /\ sess \in [Node -> {"live", "dead", None}]
    BY DEF IInv, Nodes, ServerExpires, HasSessions
  <1> QED BY <1>1, RemovalKeeps DEF ServerExpires

LEMMA ExpireKeysKeeps == IInv /\ ExpireKeys => IInv'
  <1> SUFFICES ASSUME IInv, ExpireKeys
               PROVE  IInv'
    OBVIOUS
  <1>1. Server /\ Nodes /\ Tamed /\ Calling /\ Faultless /\ HonestAnswers /\ faults \in 0..MaxFaults
    BY DEF IInv, Nodes
  <1>2. /\ UNCHANGED <<backend, key, seen, before, ready, noticed, elapsed, sess, view, pc, told, held, faults>>
        /\ backend = "raft" /\ key.late /\ expiring' = Copy(key)
    BY DEF ExpireKeys, local
  <1>3. expiring' \in Copies
    BY <1>1, <1>2, CopyFacts DEF Server
  <1>4. Server' /\ Nodes'
    BY <1>1, <1>2, <1>3 DEF Server, Nodes
  <1>5. Tamed'
    BY <1>1, <1>2 DEF Tamed, HasSessions
  <1>6. Calling' /\ HonestAnswers'
    BY <1>1, <1>2, WaitKeeps
  <1>7. Observed' /\ Faultless'
    BY <1>1, <1>2 DEF Observed, Faultless, HasSessions
  <1> QED BY <1>4, <1>5, <1>6, <1>7, IInvPrime

LEMMA ExpireKeeps == IInv /\ Expire => IInv'
  <1> SUFFICES ASSUME IInv, Expire
               PROVE  IInv'
    OBVIOUS
  <1>1. /\ Server /\ Nodes /\ Tamed /\ Calling /\ Observed /\ Faultless /\ HonestAnswers
        /\ faults \in 0..MaxFaults
    BY DEF IInv, Nodes
  <1>2. UNCHANGED <<backend, elapsed, sess, pc, told, faults>>
    BY DEF Expire
  <1>3. CASE expiring.cur
    <2>1. Write(NoKey, {}) /\ UNCHANGED ready
      BY <1>3 DEF Expire
    <2>2. ~HasSessions
      BY <1>1, <1>3 DEF Tamed, HasSessions
    <2> QED BY <1>1, <1>2, <2>1, <2>2, RemovalKeeps DEF Nodes
  <1>4. CASE ~expiring.cur
    <2>1. expiring' = NoCopy /\ UNCHANGED <<key, seen, view, before, ready, noticed, elapsed, held>>
      BY <1>4 DEF Expire, local
    <2>2. Server' /\ Nodes'
      BY <1>1, <1>2, <2>1, Constants DEF Server, Nodes
    <2>3. Tamed'
      BY <1>1, <1>2, <2>1 DEF Tamed, NoCopy, HasSessions
    <2>4. Calling' /\ HonestAnswers'
      BY <1>1, <1>2, <2>1, WaitKeeps
    <2>5. Observed' /\ Faultless'
      BY <1>1, <1>2, <2>1 DEF Observed, Faultless, HasSessions
    <2> QED BY <2>2, <2>3, <2>4, <2>5, IInvPrime
  <1> QED BY <1>3, <1>4

LEMMA SessionExpiresKeeps == IInv /\ (\E n \in Node : SessionExpires(n)) => IInv'
  <1> SUFFICES ASSUME IInv, NEW n \in Node, SessionExpires(n)
               PROVE  IInv'
    OBVIOUS
  <1>1. /\ Nodes /\ HasSessions /\ UNCHANGED <<backend, ready, elapsed, pc, told>>
        /\ faults' \in 0..MaxFaults /\ faults' > 0 /\ faults' >= faults
    BY FaultFacts DEF IInv, SessionExpires, Fault, Nodes
  <1>2. sess' \in [Node -> {"live", "dead", None}]
    BY <1>1 DEF SessionExpires, Nodes
  <1>3. CASE Write(NoKey, {})
    BY <1>1, <1>2, <1>3, RemovalKeeps
  <1>4. CASE Keep
    BY <1>1, <1>2, <1>4, SessionKeeps
  <1> QED BY <1>3, <1>4 DEF SessionExpires

\* The session of a key is unknown to its owner only after a fault.
LEMMA OldSessionExpiresKeeps == IInv /\ OldSessionExpires => IInv'
  <1> SUFFICES ASSUME IInv, OldSessionExpires
               PROVE  IInv'
    OBVIOUS
  <1>1. HasSessions => faults > 0
    BY DEF IInv, Nodes, Faultless, OldSessionExpires
  <1>2. faults \in 0..MaxFaults /\ sess \in [Node -> {"live", "dead", None}]
    BY DEF IInv, Nodes
  <1> QED BY <1>1, <1>2, RemovalKeeps DEF OldSessionExpires

LEMMA CatchUpKeeps == IInv /\ (\E n \in Node : CatchUp(n)) => IInv'
  <1> SUFFICES ASSUME IInv, NEW n \in Node, CatchUp(n)
               PROVE  IInv'
    OBVIOUS
  <1>1. /\ Server /\ Nodes /\ Tamed /\ Calling /\ Observed /\ Faultless /\ HonestAnswers
        /\ faults \in 0..MaxFaults /\ key \in Keys
    BY DEF IInv, Nodes, Server
  <1>2. /\ UNCHANGED <<backend, key, before, ready, expiring, elapsed, sess, view, pc, told, held, faults>>
        /\ seen' = [seen EXCEPT ![n] = Copy(key)] /\ noticed' = [noticed EXCEPT ![n] = FALSE]
    BY DEF CatchUp
  <1>3. Copy(key) \in Copies /\ Copy(key).owner = key.owner /\ Copy(key).mine = key.mine
    BY <1>1, CopyFacts
  <1>4. Server' /\ Nodes'
    BY <1>1, <1>2, <1>3 DEF Server, Nodes
  <1>5. Tamed'
    BY <1>1, <1>2 DEF Tamed, HasSessions
  <1>6. Calling' /\ HonestAnswers'
    BY <1>1, <1>2, WaitKeeps
  <1>7. Observed'
    BY <1>1, <1>2 DEF Observed, Server
  <1>8. Faultless'
    <2>1. \A m \in Node : /\ seen'[m].owner = (IF m = n THEN key.owner ELSE seen[m].owner)
                          /\ seen'[m].mine = (IF m = n THEN key.mine ELSE seen[m].mine)
      BY <1>1, <1>2, <1>3 DEF Server
    <2> QED BY <1>1, <1>2, <2>1 DEF Faultless, HasSessions
  <1> QED BY <1>4, <1>5, <1>6, <1>7, <1>8, IInvPrime

LEMMA BuildCacheKeeps == IInv /\ (\E n \in Node : BuildCache(n)) => IInv'
  <1> SUFFICES ASSUME IInv, NEW n \in Node, BuildCache(n)
               PROVE  IInv'
    OBVIOUS
  <1>1. /\ Server /\ Nodes /\ Tamed /\ Calling /\ Observed /\ Faultless /\ HonestAnswers
        /\ faults \in 0..MaxFaults /\ key \in Keys /\ before \in Copies /\ ~before.cur
    BY DEF IInv, Nodes, Server, Tamed
  <1>2. /\ UNCHANGED <<backend, key, before, expiring, elapsed, sess, view, pc, told, held>>
        /\ noticed' = [noticed EXCEPT ![n] = FALSE] /\ ready' = [ready EXCEPT ![n] = TRUE]
        /\ HasCache
    BY DEF BuildCache
  <1>3. Copy(key) \in Copies /\ Copy(key).owner = key.owner /\ Copy(key).mine = key.mine
    BY <1>1, CopyFacts
  <1>4. CASE seen' = [seen EXCEPT ![n] = Copy(key)] /\ UNCHANGED faults
    <2>1. Server' /\ Nodes'
      BY <1>1, <1>2, <1>3, <1>4 DEF Server, Nodes
    <2>2. Tamed'
      BY <1>1, <1>2 DEF Tamed, HasSessions
    <2>3. Calling' /\ HonestAnswers'
      BY <1>1, <1>2, <1>4, WaitKeeps
    <2>4. Observed'
      BY <1>1, <1>2, <1>4 DEF Observed, Server
    <2>5. \A m \in Node : /\ seen'[m].owner = (IF m = n THEN key.owner ELSE seen[m].owner)
                          /\ seen'[m].mine = (IF m = n THEN key.mine ELSE seen[m].mine)
      BY <1>1, <1>3, <1>4 DEF Server
    <2>6. Faultless'
      BY <1>1, <1>2, <1>4, <2>5 DEF Faultless, HasSessions
    <2> QED BY <2>1, <2>2, <2>3, <2>4, <2>6, IInvPrime
  <1>5. CASE backend = "etcd3" /\ seen' = [seen EXCEPT ![n] = before] /\ Fault
    <2>1. faults' \in 0..MaxFaults /\ faults' > 0 /\ faults' >= faults
      BY <1>1, <1>5, FaultFacts DEF Fault
    <2>2. Server' /\ Nodes'
      BY <1>1, <1>2, <1>5, <2>1 DEF Server, Nodes
    <2>3. Tamed'
      BY <1>1, <1>2 DEF Tamed, HasSessions
    <2>4. Calling' /\ HonestAnswers'
      BY <1>1, <1>2, <2>1, WaitKeeps
    <2>5. Observed' /\ Faultless'
      BY <1>2, <1>5, <2>1 DEF Observed, Faultless
    <2> QED BY <2>2, <2>3, <2>4, <2>5, IInvPrime
  <1> QED BY <1>4, <1>5 DEF BuildCache

LEMMA StreamBreaksKeeps == IInv /\ (\E n \in Node : StreamBreaks(n)) => IInv'
  <1> SUFFICES ASSUME IInv, NEW n \in Node, StreamBreaks(n)
               PROVE  IInv'
    OBVIOUS
  <1>1. /\ Server /\ Nodes /\ Tamed /\ Calling /\ Observed /\ HonestAnswers
        /\ faults' \in 0..MaxFaults /\ faults' > 0 /\ faults' >= faults
    BY FaultFacts DEF IInv, StreamBreaks, Fault, Nodes
  <1>2. /\ UNCHANGED <<backend, key, seen, before, expiring, noticed, elapsed, sess, view, pc, told, held>>
        /\ ready' = [ready EXCEPT ![n] = FALSE]
    BY DEF StreamBreaks
  <1>3. Server' /\ Nodes' /\ Tamed' /\ Observed'
    BY <1>1, <1>2 DEF Server, Nodes, Tamed, Observed, HasSessions
  <1>4. Calling' /\ HonestAnswers'
    BY <1>1, <1>2, WaitKeeps
  <1>5. Faultless'
    BY <1>1 DEF Faultless
  <1> QED BY <1>3, <1>4, <1>5, IInvPrime

-----------------------------------------------------------------------------
(* Sessions and loading.                                                    *)

LEMMA ReconnectKeeps == IInv /\ (\E n \in Node : Reconnect(n)) => IInv'
  <1> SUFFICES ASSUME IInv, NEW n \in Node, Reconnect(n)
               PROVE  IInv'
    OBVIOUS
  <1>1. Nodes /\ HasSessions /\ faults \in 0..MaxFaults /\ faults > 0
    BY DEF IInv, Nodes, Faultless, Reconnect, HasSessions
  <1>2. sess' \in [Node -> {"live", "dead", None}]
    BY <1>1 DEF Reconnect, NewSession, Nodes
  <1>3. NewSession(n) /\ UNCHANGED <<backend, ready, elapsed, pc, told, faults>>
    BY DEF Reconnect
  <1> QED BY <1>1, <1>2, <1>3, SessionKeeps

LEMMA TouchMemberKeeps == IInv /\ (\E n \in Node : touch_member(n)) => IInv'
  <1> SUFFICES ASSUME IInv, NEW n \in Node, touch_member(n)
               PROVE  IInv'
    OBVIOUS
  <1>1. Nodes /\ HasSessions /\ faults \in 0..MaxFaults /\ faults > 0
    BY DEF IInv, Nodes, Faultless, touch_member, HasSessions
  <1>2. (NewSession(n) \/ Keep) /\ UNCHANGED <<backend, ready, elapsed, pc, told, faults>>
    BY DEF touch_member
  <1>3. sess' \in [Node -> {"live", "dead", None}]
    BY <1>1 DEF touch_member, NewSession, Nodes
  <1> QED BY <1>1, <1>2, <1>3, SessionKeeps

LEMMA SetTtlKeeps == IInv /\ (\E n \in Node : set_ttl(n)) => IInv'
  <1> SUFFICES ASSUME IInv, NEW n \in Node, set_ttl(n)
               PROVE  IInv'
    OBVIOUS
  <1>1. /\ Nodes /\ HasSessions /\ faults' \in 0..MaxFaults /\ faults' > 0 /\ faults' >= faults
        /\ UNCHANGED <<backend, ready, elapsed, pc, told>> /\ Fault
    BY FaultFacts DEF IInv, set_ttl, Fault, Nodes
  <1>2. CASE backend = "zookeeper"
    BY <1>1, <1>2, RestartKeeps DEF set_ttl
  <1>3. CASE backend # "zookeeper"
    <2>1. sess' = [sess EXCEPT ![n] = None] /\ Keep
      BY <1>3 DEF set_ttl
    <2>2. sess' \in [Node -> {"live", "dead", None}]
      BY <1>1, <2>1 DEF Nodes
    <2> QED BY <1>1, <2>1, <2>2, SessionKeeps
  <1> QED BY <1>2, <1>3

\* The cluster that is loaded is the copy at hand; kubernetes forgets a leader that
\* has run out.
LEMMA LoadKeeps ==
  ASSUME IInv, NEW n \in Node, NEW owner, Load(n, owner),
         owner = seen[n].owner \/ (owner = None /\ backend = "kubernetes" /\ noticed[n] /\ elapsed[n]),
         \/ UNCHANGED <<noticed, elapsed>>
         \/ /\ backend = "kubernetes"
            /\ noticed' = [noticed EXCEPT ![n] = TRUE]
            /\ elapsed' = [elapsed EXCEPT ![n] = noticed[n] /\ elapsed[n]]
  PROVE  IInv'
  <1>1. /\ Server /\ Nodes /\ Tamed /\ Calling /\ Observed /\ Faultless /\ HonestAnswers
        /\ faults \in 0..MaxFaults /\ seen[n] \in Copies /\ (seen[n].cur => seen[n] = Copy(key))
        /\ key \in Keys
    BY DEF IInv, Nodes, Server
  <1>2. /\ UNCHANGED <<backend, key, seen, before, ready, expiring, sess, faults>>
        /\ pc' = [pc EXCEPT ![n] = "loaded"] /\ told' = [told EXCEPT ![n] = None]
        /\ held' = [held EXCEPT ![n] = FALSE] /\ view' = [view EXCEPT ![n] = [seen[n] EXCEPT !.owner = owner]]
    BY DEF Load
  <1>3. /\ view'[n] \in Copies /\ view'[n].owner = owner
        /\ view'[n].mine = seen[n].mine /\ view'[n].cur = seen[n].cur
        /\ \A m \in Node \ {n} : view'[m] = view[m] /\ pc'[m] = pc[m] /\ told'[m] = told[m] /\ held'[m] = held[m]
        /\ pc'[n] = "loaded" /\ told'[n] = None
    <2>1. owner \in Node \union {None}
      BY <1>1 DEF Copies
    <2>2. view'[n] = [seen[n] EXCEPT !.owner = owner]
      BY <1>1, <1>2 DEF Server
    <2>3. [seen[n] EXCEPT !.owner = owner] \in Copies
      BY <1>1, <2>1 DEF Copies
    <2>4. /\ [seen[n] EXCEPT !.owner = owner].owner = owner
          /\ [seen[n] EXCEPT !.owner = owner].mine = seen[n].mine
          /\ [seen[n] EXCEPT !.owner = owner].cur = seen[n].cur
      BY <1>1 DEF Copies
    <2>5. \A m \in Node \ {n} : view'[m] = view[m] /\ pc'[m] = pc[m] /\ told'[m] = told[m] /\ held'[m] = held[m]
      BY <1>1, <1>2 DEF Server, Nodes
    <2>6. pc'[n] = "loaded" /\ told'[n] = None
      BY <1>1, <1>2 DEF Nodes
    <2> QED BY <2>2, <2>3, <2>4, <2>5, <2>6
  <1>4. noticed' \in [Node -> BOOLEAN] /\ elapsed' \in [Node -> BOOLEAN]
    BY <1>1 DEF Server, Nodes
  <1>5. Server'
    <2>1. view' \in [Node -> Copies] /\ held' \in [Node -> BOOLEAN]
      BY <1>1, <1>2, <1>3 DEF Server
    <2> QED BY <1>1, <1>2, <1>4, <2>1 DEF Server
  <1>6. Nodes'
    BY <1>1, <1>2, <1>4 DEF Nodes, Steps
  <1>7. Tamed'
    <2>1. seen[n].cur => seen[n].owner = key.owner
      BY <1>1, CopyFacts
    <2> QED BY <1>1, <1>2, <1>3, <2>1 DEF Tamed, HasSessions
  <1>8. Calling'
    BY <1>1, <1>2, <1>3 DEF Calling
  <1>9. HonestAnswers'
    BY <1>1, <1>2, <1>3 DEF HonestAnswers, None
  <1>10. Observed'
    <2>1. seen[n].cur => seen[n].owner = key.owner
      BY <1>1, CopyFacts
    <2>2. ASSUME backend = "kubernetes", key.owner # None, ~key.late, NEW m \in Node
          PROVE  /\ ~(seen[m].cur /\ noticed'[m] /\ elapsed'[m])
                 /\ pc'[m] \in {"loaded", "create"} /\ view'[m].owner = None => ~view'[m].cur
                 /\ pc'[m] = "patch" /\ view'[m].cur => key.owner = m
      <3>1. ~(seen[m].cur /\ noticed[m] /\ elapsed[m])
        BY <1>1, <2>2 DEF Observed
      <3>2. noticed'[m] /\ elapsed'[m] => noticed[m] /\ elapsed[m]
        BY <1>1 DEF Server, Nodes
      <3>3. CASE m = n
        BY <1>3, <2>1, <2>2, <3>1, <3>2, <3>3
      <3>4. CASE m # n
        BY <1>1, <1>3, <2>2, <3>1, <3>2, <3>4 DEF Observed
      <3> QED BY <3>3, <3>4
    <2> QED BY <1>2, <2>2 DEF Observed
  <1>11. Faultless'
    <2>1. ASSUME faults = 0, HasSessions
          PROVE  Faultless'
      <3>1. owner = seen[n].owner
        BY <2>1 DEF HasSessions
      <3>2. ASSUME NEW m \in Node
            PROVE  /\ pc'[m] \notin {"recreate", "put_anew", "new_session"}
                   /\ pc'[m] # "sleep" /\ view'[m].owner = m => view'[m].mine
                   /\ pc'[m] = "loaded" /\ view'[m].owner = m => key.owner = m
                   /\ pc'[m] \in {"update", "renew"} => held'[m]
        <4>1. CASE m = n
          BY <1>1, <1>3, <2>1, <3>1, <4>1 DEF Faultless
        <4>2. CASE m # n
          BY <1>1, <1>3, <2>1, <4>2 DEF Faultless
        <4> QED BY <4>1, <4>2
      <3> QED BY <1>1, <1>2, <2>1, <3>2 DEF Faultless
    <2> QED BY <1>2, <2>1 DEF Faultless, HasSessions
  <1> QED BY <1>5, <1>6, <1>7, <1>8, <1>9, <1>10, <1>11, IInvPrime

\* A call begins: has the node the key?
LEMMA EnterKeeps ==
  ASSUME IInv, NEW n \in Node, NEW call, Enter(n, call),
         \/ call \in {"refresh", "renew"} /\ backend \in {"etcd3", "consul"}
         \/ call \in {"create", "update"} /\ backend \notin {"etcd3", "consul"}
         \/ call = "delete",
         call \in {"refresh", "create"} => view[n].owner = None,
         call \in {"renew", "update", "delete"} => view[n].owner = n
  PROVE  IInv'
  <1>1. /\ Server /\ Nodes /\ Tamed /\ Calling /\ Observed /\ Faultless /\ HonestAnswers
        /\ faults \in 0..MaxFaults /\ pc[n] = "loaded" /\ held \in [Node -> BOOLEAN]
    BY DEF IInv, Nodes, Server, Enter
  <1>2. /\ UNCHANGED <<backend, key, seen, before, ready, expiring, noticed, elapsed, sess, view, told, faults>>
        /\ pc' = [pc EXCEPT ![n] = call] /\ held' = [held EXCEPT ![n] = Owned(n)]
    BY DEF Enter
  <1>3. call \in Steps /\ call \in {"refresh", "renew", "create", "update", "delete"}
    BY DEF Steps
  <1>4. /\ pc'[n] = call /\ (key.owner = n => held'[n]) /\ pc' \in [Node -> Steps]
        /\ held' \in [Node -> BOOLEAN]
        /\ \A m \in Node \ {n} : pc'[m] = pc[m] /\ held'[m] = held[m]
    BY <1>1, <1>2, <1>3 DEF Nodes, Owned
  <1>5. Server' /\ Nodes' /\ Tamed'
    BY <1>1, <1>2, <1>4 DEF Server, Nodes, Tamed, HasSessions
  <1>6. told[n] = None
    BY <1>1 DEF Calling
  <1>7. Calling'
    <2>1. ASSUME NEW m \in Node
          PROVE  /\ pc'[m] \in {"update", "renew", "recreate", "delete"} => view[m].owner = m
                 /\ pc'[m] # "sleep" => told[m] = None
                 /\ pc'[m] \in {"refresh", "put", "put_again", "new_session", "renew", "recreate", "put_anew"}
                        => backend \in {"etcd3", "consul"}
                 /\ pc'[m] = "create" => backend \notin {"etcd3", "consul"}
                 /\ pc'[m] = "create" /\ backend = "kubernetes" => view[m].owner = None
      <3>1. CASE m = n
        BY <1>3, <1>4, <1>6, <3>1
      <3>2. CASE m # n
        BY <1>1, <1>4, <3>2 DEF Calling
      <3> QED BY <3>1, <3>2
    <2> QED BY <1>2, <2>1 DEF Calling
  <1>8. HonestAnswers'
    <2>1. ASSUME NEW m \in Node
          PROVE  /\ told[m] = "yes" => held'[m]
                 /\ told[m] = "assumed" => held'[m] \/ faults > 0
      <3>1. CASE m = n
        BY <1>6, <3>1 DEF None
      <3>2. CASE m # n
        BY <1>1, <1>4, <3>2 DEF HonestAnswers
      <3> QED BY <3>1, <3>2
    <2> QED BY <1>2, <2>1 DEF HonestAnswers
  <1>9. Observed'
    <2>1. ASSUME backend = "kubernetes", key.owner # None, ~key.late, NEW m \in Node
          PROVE  /\ ~(seen[m].cur /\ noticed[m] /\ elapsed[m])
                 /\ pc'[m] \in {"loaded", "create"} /\ view[m].owner = None => ~view[m].cur
                 /\ pc'[m] = "patch" /\ view[m].cur => key.owner = m
      <3>1. CASE m = n
        BY <1>1, <1>3, <1>4, <2>1, <3>1 DEF Observed
      <3>2. CASE m # n
        BY <1>1, <1>4, <2>1, <3>2 DEF Observed
      <3> QED BY <3>1, <3>2
    <2> QED BY <1>2, <2>1 DEF Observed
  <1>10. Faultless'
    <2>1. ASSUME faults = 0, HasSessions
          PROVE  Faultless'
      <3>1. ASSUME NEW m \in Node
            PROVE  /\ pc'[m] \notin {"recreate", "put_anew", "new_session"}
                   /\ pc'[m] # "sleep" /\ view[m].owner = m => view[m].mine
                   /\ pc'[m] = "loaded" /\ view[m].owner = m => key.owner = m
                   /\ pc'[m] \in {"update", "renew"} => held'[m]
        <4>1. CASE m = n
          BY <1>1, <1>3, <1>4, <2>1, <4>1 DEF Faultless
        <4>2. CASE m # n
          BY <1>1, <1>4, <2>1, <4>2 DEF Faultless
        <4> QED BY <4>1, <4>2
      <3> QED BY <1>1, <1>2, <2>1, <3>1 DEF Faultless
    <2> QED BY <1>2, <2>1 DEF Faultless, HasSessions
  <1> QED BY <1>5, <1>7, <1>8, <1>9, <1>10, IInvPrime

LEMMA RunLoadKeeps ==
  ASSUME IInv, NEW n \in Node, LoadKeys(n) \/ LoadCache(n) \/ LoadObserved(n)
  PROVE  IInv'
  <1>1. CASE LoadKeys(n)
    BY <1>1, LoadKeeps DEF LoadKeys
  <1>2. CASE LoadCache(n)
    BY <1>2, LoadKeeps DEF LoadCache
  <1>3. CASE LoadObserved(n)
    <2> DEFINE run_out == noticed[n] /\ elapsed[n]
    <2>1. /\ backend = "kubernetes" /\ Load(n, IF run_out THEN None ELSE seen[n].owner)
          /\ noticed' = [noticed EXCEPT ![n] = TRUE]
          /\ elapsed' = [elapsed EXCEPT ![n] = run_out]
      BY <1>3 DEF LoadObserved
    <2>2. CASE run_out
      BY <2>1, <2>2, LoadKeeps
    <2>3. CASE ~run_out
      BY <2>1, <2>3, LoadKeeps
    <2> QED BY <2>2, <2>3
  <1> QED BY <1>1, <1>2, <1>3

LEMMA RunEnterKeeps ==
  ASSUME IInv, NEW n \in Node, attempt_to_acquire_leader(n) \/ update_leader(n) \/ delete_leader(n)
  PROVE  IInv'
  <1>1. CASE attempt_to_acquire_leader(n)
    <2>1. CASE backend \in {"etcd3", "consul"}
      <3>1. Enter(n, "refresh") /\ view[n].owner = None
        BY <1>1, <2>1 DEF attempt_to_acquire_leader
      <3> QED BY <2>1, <3>1, EnterKeeps
    <2>2. CASE backend \notin {"etcd3", "consul"}
      <3>1. Enter(n, "create") /\ view[n].owner = None
        BY <1>1, <2>2 DEF attempt_to_acquire_leader
      <3> QED BY <2>2, <3>1, EnterKeeps
    <2> QED BY <2>1, <2>2
  <1>2. CASE update_leader(n)
    <2>1. CASE backend \in {"etcd3", "consul"}
      <3>1. Enter(n, "renew") /\ view[n].owner = n
        BY <1>2, <2>1 DEF update_leader
      <3> QED BY <2>1, <3>1, EnterKeeps
    <2>2. CASE backend \notin {"etcd3", "consul"}
      <3>1. Enter(n, "update") /\ view[n].owner = n
        BY <1>2, <2>2 DEF update_leader
      <3> QED BY <2>2, <3>1, EnterKeeps
    <2> QED BY <2>1, <2>2
  <1>3. CASE delete_leader(n)
    BY <1>3, EnterKeeps DEF delete_leader
  <1> QED BY <1>1, <1>2, <1>3

LEMMA NoCallKeeps == IInv /\ (\E n \in Node : NoCall(n)) => IInv'
  <1> SUFFICES ASSUME IInv, NEW n \in Node, NoCall(n)
               PROVE  IInv'
    OBVIOUS
  <1>1. /\ Server /\ Nodes /\ Tamed /\ Calling /\ Observed /\ Faultless /\ HonestAnswers
    BY DEF IInv
  <1>2. /\ UNCHANGED <<backend, key, seen, before, ready, expiring, noticed, elapsed, sess, view, told, held, faults>>
        /\ pc' = [pc EXCEPT ![n] = "sleep"]
    BY DEF NoCall, local
  <1>3. pc' \in [Node -> Steps] /\ \A m \in Node : pc'[m] = (IF m = n THEN "sleep" ELSE pc[m])
    BY <1>1, <1>2 DEF Nodes, Steps
  <1>4. Server' /\ Nodes' /\ Tamed'
    BY <1>1, <1>2, <1>3 DEF Server, Nodes, Tamed, HasSessions
  <1>5. Calling'
    BY <1>1, <1>2, <1>3 DEF Calling
  <1>6. Observed' /\ HonestAnswers'
    BY <1>1, <1>2, <1>3 DEF Observed, HonestAnswers
  <1>7. Faultless'
    BY <1>1, <1>2, <1>3 DEF Faultless, HasSessions
  <1> QED BY <1>4, <1>5, <1>6, <1>7, IInvPrime

\* The ttl of the record that a node has observed has run out, if it is the present one.
LEMMA ObservedLongAgoKeeps == IInv /\ (\E n \in Node : ObservedLongAgo(n)) => IInv'
  <1> SUFFICES ASSUME IInv, NEW n \in Node, ObservedLongAgo(n)
               PROVE  IInv'
    OBVIOUS
  <1>1. /\ Server /\ Nodes /\ Tamed /\ Calling /\ Observed /\ HonestAnswers
        /\ key \in Keys /\ seen[n].cur \in BOOLEAN
    BY DEF IInv, Server, Copies
  <1>2. /\ UNCHANGED <<backend, seen, before, ready, expiring, noticed, sess, view, pc, told, held>>
        /\ elapsed' = [elapsed EXCEPT ![n] = TRUE] /\ backend = "kubernetes"
        /\ key' = [key EXCEPT !.late = key.late \/ seen[n].cur]
    BY DEF ObservedLongAgo
  <1>3. faults' \in 0..MaxFaults /\ faults' > 0 /\ faults' >= faults
    BY <1>1, FaultFacts DEF ObservedLongAgo, Fault, Nodes
  <1>4. /\ key' \in Keys /\ Copy(key') = Copy(key)
        /\ key'.owner = key.owner /\ key'.mine = key.mine
        /\ ~key'.late => ~key.late /\ ~seen[n].cur
    <2>1. key.late \/ seen[n].cur \in BOOLEAN
      BY <1>1 DEF Keys
    <2> QED BY <1>1, <1>2, <2>1 DEF Keys, Copy
  <1>5. Server' /\ Nodes'
    BY <1>1, <1>2, <1>3, <1>4 DEF Server, Nodes
  <1>6. Tamed'
    BY <1>1, <1>2, <1>4 DEF Tamed, HasSessions
  <1>7. Calling' /\ HonestAnswers'
    BY <1>1, <1>2, <1>3, WaitKeeps
  <1>8. Observed'
    BY <1>1, <1>2, <1>4 DEF Observed, Nodes
  <1>9. Faultless'
    BY <1>3 DEF Faultless
  <1> QED BY <1>5, <1>6, <1>7, <1>8, <1>9, IInvPrime

LEMMA GivesUpKeeps == IInv /\ (\E n \in Node : GivesUp(n)) => IInv'
  <1> SUFFICES ASSUME IInv, NEW n \in Node, GivesUp(n)
               PROVE  IInv'
    OBVIOUS
  <1>1. Nodes /\ Server /\ faults' \in 0..MaxFaults /\ faults' >= faults
    BY FaultFacts DEF IInv, GivesUp, Fault, Nodes
  <1>2. /\ Fits(n, "error") /\ GoTo(n, "error") /\ Keep /\ UNCHANGED <<backend, ready, elapsed, sess>>
    BY DEF GivesUp, Fits, Nexts, Answers
  <1> QED BY <1>1, <1>2, AnswerKeeps DEF Nodes

-----------------------------------------------------------------------------
(* The calls.                                                               *)

\* Answer and OnlyKey are AnswerKeeps, Change and OnlyKey are RequestKeeps.
LEMMA AnswerOnly ==
  ASSUME IInv, NEW n \in Node, NEW next,
         next \notin {"yes", "patch"}, next = "assumed" => held[n] \/ faults > 0,
         Fits(n, next), Answer(n, next), UNCHANGED <<backend, elapsed, sess>>,
         ready' \in [Node -> BOOLEAN]
  PROVE  IInv'
  <1>1. faults \in 0..MaxFaults /\ faults' = faults
    BY DEF IInv, Nodes, Answer
  <1> QED BY <1>1, AnswerKeeps DEF Answer

\* A key is created where there is none.
LEMMA CreateKeeps ==
  ASSUME IInv, NEW n \in Node, pc[n] \notin {"sleep", "loaded"}, Free \/ Owned(n) \/ ~HasSessions,
         Change(n, Mine(n), "yes"), UNCHANGED <<backend, elapsed, sess>>, ready' \in [Node -> BOOLEAN]
  PROVE  IInv'
  <1>1. Fits(n, "yes")
    BY DEF Fits, Nexts, Answers
  <1> QED BY <1>1, RequestKeeps DEF Free, Owned

\* An answer that ends the call without the key.
LEMMA RefusalKeeps ==
  ASSUME IInv, NEW n \in Node, pc[n] \notin {"sleep", "loaded"}, NEW next \in {"no", "error"},
         Answer(n, next), UNCHANGED <<backend, elapsed, sess>>, ready' \in [Node -> BOOLEAN]
  PROVE  IInv'
  <1>1. Fits(n, next)
    BY DEF Fits, Nexts, Answers
  <1> QED BY <1>1, AnswerOnly

LEMMA CreateCallsKeep ==
  ASSUME IInv, NEW n \in Node, EtcdCreate(n) \/ RaftCreate(n) \/ ZooKeeperCreate(n) \/ KubernetesCreate(n)
  PROVE  IInv'
  <1>1. ready \in [Node -> BOOLEAN]
    BY DEF IInv, Nodes
  <1>2. CASE EtcdCreate(n)
    BY <1>1, <1>2, CreateKeeps, RefusalKeeps DEF EtcdCreate, OnlyKey
  <1>3. CASE RaftCreate(n)
    BY <1>1, <1>3, CreateKeeps, RefusalKeeps DEF RaftCreate, OnlyKey
  <1>4. CASE ZooKeeperCreate(n)
    BY <1>1, <1>4, CreateKeeps, RefusalKeeps DEF ZooKeeperCreate, OnlyKey
  <1>5. CASE KubernetesCreate(n)
    <2>1. pc[n] \notin {"sleep", "loaded"} /\ ~HasSessions /\ UNCHANGED <<backend, elapsed, sess>>
      BY <1>5 DEF KubernetesCreate, HasSessions
    <2>2. ready' \in [Node -> BOOLEAN]
      BY <1>1, <1>5 DEF KubernetesCreate
    <2>3. Change(n, Mine(n), "yes") \/ Answer(n, "no")
      BY <1>5 DEF KubernetesCreate
    <2> QED BY <2>1, <2>2, <2>3, CreateKeeps, RefusalKeeps
  <1> QED BY <1>2, <1>3, <1>4, <1>5

\* Refresh and Renew: with a live session nothing is changed, without one there has
\* been a fault.
LEMMA RefreshKeeps == IInv /\ (\E n \in Node : Refresh(n)) => IInv'
  <1> SUFFICES ASSUME IInv, NEW n \in Node, Refresh(n)
               PROVE  IInv'
    OBVIOUS
  <1>1. /\ Nodes /\ Calling /\ Faultless /\ faults \in 0..MaxFaults
        /\ UNCHANGED <<backend, ready, elapsed, faults>> /\ GoTo(n, "put")
        /\ pc[n] = "refresh"
    BY DEF IInv, Nodes, Refresh
  <1>2. Fits(n, "put") /\ HasSessions
    BY <1>1 DEF Calling, Fits, Nexts, Answers, HasSessions
  <1>3. CASE Keep /\ UNCHANGED sess
    BY <1>1, <1>2, <1>3, AnswerKeeps DEF Nodes
  <1>4. CASE sess[n] # "live" /\ NewSession(n)
    <2>1. faults > 0
      BY <1>1, <1>2, <1>4 DEF Faultless
    <2>2. sess' \in [Node -> {"live", "dead", None}]
      BY <1>1, <1>4 DEF NewSession, Nodes
    <2> QED BY <1>1, <1>2, <1>4, <2>1, <2>2, SessionKeeps
  <1> QED BY <1>3, <1>4 DEF Refresh, RefreshSession

LEMMA RenewKeeps == IInv /\ (\E n \in Node : Renew(n)) => IInv'
  <1> SUFFICES ASSUME IInv, NEW n \in Node, Renew(n)
               PROVE  IInv'
    OBVIOUS
  <1>1. /\ Nodes /\ Calling /\ Faultless /\ faults \in 0..MaxFaults
        /\ UNCHANGED <<backend, ready, elapsed, faults>>
        /\ pc[n] = "renew" /\ backend \in {"etcd3", "consul"} /\ HasSessions /\ view[n].owner = n
    BY DEF IInv, Nodes, Renew, Calling, HasSessions
  <1>2. CASE Keep /\ UNCHANGED sess
    <2>1. view' = view
      BY <1>2 DEF Keep
    <2>2. CASE view[n].mine
      <3>1. GoTo(n, "assumed")
        BY <2>1, <2>2 DEF Renew
      <3>2. Fits(n, "assumed")
        BY <1>1 DEF Fits, Nexts, Answers
      <3>3. held[n] \/ faults > 0
        BY <1>1 DEF Faultless
      <3> QED BY <1>1, <1>2, <3>1, <3>2, <3>3, AnswerKeeps DEF Nodes
    <2>3. CASE ~view[n].mine
      <3>1. GoTo(n, "recreate")
        BY <2>1, <2>3 DEF Renew
      <3>2. faults > 0
        BY <1>1, <2>3 DEF Faultless
      <3>3. Fits(n, "recreate")
        BY <1>1, <3>2 DEF Fits, Nexts
      <3> QED BY <1>1, <1>2, <3>1, <3>3, AnswerKeeps DEF Nodes
    <2> QED BY <2>2, <2>3
  <1>3. CASE sess[n] # "live" /\ NewSession(n)
    <2>1. faults > 0
      BY <1>1, <1>3 DEF Faultless
    <2>2. sess' \in [Node -> {"live", "dead", None}]
      BY <1>1, <1>3 DEF NewSession, Nodes
    <2>3. Fits(n, "recreate") /\ Fits(n, "assumed")
      BY <1>1, <2>1 DEF Fits, Nexts, Answers
    <2>4. GoTo(n, "recreate") \/ GoTo(n, "assumed")
      BY DEF Renew
    <2> QED BY <1>1, <1>3, <2>1, <2>2, <2>3, <2>4, SessionKeeps
  <1> QED BY <1>2, <1>3 DEF Renew, RefreshSession

LEMMA SessionGoneKeeps == IInv /\ (\E n \in Node : SessionGone(n)) => IInv'
  <1> SUFFICES ASSUME IInv, NEW n \in Node, SessionGone(n)
               PROVE  IInv'
    OBVIOUS
  <1>1. /\ Nodes /\ Calling /\ Faultless /\ faults \in 0..MaxFaults
        /\ UNCHANGED <<backend, ready, elapsed, faults>>
        /\ NewSession(n) /\ GoTo(n, "put_again")
        /\ pc[n] = "new_session" /\ backend \in {"etcd3", "consul"} /\ HasSessions
    BY DEF IInv, Nodes, SessionGone, Calling, HasSessions
  <1>2. faults > 0
    BY <1>1 DEF Faultless
  <1>3. sess' \in [Node -> {"live", "dead", None}]
    BY <1>1 DEF NewSession, Nodes
  <1>4. Fits(n, "put_again")
    BY <1>1 DEF Fits, Nexts, Answers
  <1> QED BY <1>1, <1>2, <1>3, <1>4, SessionKeeps

\* etcd3 and consul: the put in a session, first and second attempt.
LEMMA PutCallsKeep ==
  ASSUME IInv, NEW n \in Node, Etcd3Create(n) \/ ConsulAcquire(n)
  PROVE  IInv'
  <1>1. /\ ready \in [Node -> BOOLEAN] /\ Faultless /\ faults \in 0..MaxFaults
        /\ UNCHANGED <<backend, elapsed, sess>> /\ backend \in {"etcd3", "consul"} /\ HasSessions
        /\ pc[n] \notin {"sleep", "loaded"}
    BY DEF IInv, Nodes, Etcd3Create, ConsulAcquire, OnlyKey, HasSessions
  <1>2. ready' \in [Node -> BOOLEAN]
    BY <1>1 DEF Etcd3Create, ConsulAcquire, OnlyKey
  <1>3. CASE Change(n, Mine(n), "yes") /\ (Free \/ Owned(n))
    BY <1>1, <1>2, <1>3, CreateKeeps
  <1>4. CASE Answer(n, "no") \/ Answer(n, "error")
    BY <1>1, <1>2, <1>4, RefusalKeeps
  <1>5. CASE Answer(n, "new_session") /\ sess[n] = "dead"
    <2>1. faults > 0
      BY <1>1, <1>5 DEF Faultless
    <2>2. Fits(n, "new_session")
      BY <1>1, <2>1 DEF Fits, Nexts, Answers
    <2> QED BY <1>1, <1>2, <1>5, <2>2, AnswerOnly
  <1>6. CASE Etcd3Create(n)
    BY <1>3, <1>4, <1>5, <1>6 DEF Etcd3Create
  <1>7. CASE ConsulAcquire(n)
    BY <1>3, <1>4, <1>5, <1>7 DEF ConsulAcquire
  <1> QED BY <1>6, <1>7

LEMMA UpdateCallsKeep ==
  ASSUME IInv, NEW n \in Node, EtcdUpdate(n) \/ ZooKeeperUpdate(n) \/ KubernetesUpdate(n) \/ KubernetesPatch(n)
  PROVE  IInv'
  <1>1. /\ Nodes /\ Calling /\ Faultless /\ faults \in 0..MaxFaults
        /\ OnlyKey /\ pc[n] \notin {"sleep", "loaded"} /\ ready' \in [Node -> BOOLEAN]
    BY DEF IInv, Nodes, EtcdUpdate, ZooKeeperUpdate, KubernetesUpdate, KubernetesPatch, OnlyKey
  <1>2. CASE EtcdUpdate(n)
    <2>1. backend = "etcd" /\ ~HasSessions /\ Fits(n, "create")
      BY <1>1, <1>2 DEF EtcdUpdate, HasSessions, Fits, Nexts, Answers
    <2>2. Change(n, Mine(n), "yes") \/ Answer(n, "create") \/ Answer(n, "no")
      BY <1>2 DEF EtcdUpdate
    <2> QED BY <1>1, <2>1, <2>2, CreateKeeps, RefusalKeeps, AnswerOnly DEF OnlyKey
  <1>3. CASE ZooKeeperUpdate(n)
    <2>1. pc[n] = "update" /\ HasSessions /\ view[n].owner = n
      BY <1>1, <1>3 DEF ZooKeeperUpdate, Calling, HasSessions
    <2>2. CASE view[n].mine /\ Answer(n, "assumed")
      <3>1. Fits(n, "assumed") /\ (held[n] \/ faults > 0)
        BY <1>1, <2>1 DEF Faultless, Fits, Nexts, Answers
      <3> QED BY <1>1, <2>2, <3>1, AnswerOnly DEF OnlyKey
    <2>3. CASE ~view[n].mine /\ Change(n, NoKey, "create")
      <3>1. faults > 0
        BY <1>1, <2>1, <2>3 DEF Faultless
      <3>2. Fits(n, "create")
        BY <1>1, <1>3 DEF ZooKeeperUpdate, Fits, Nexts, Answers
      <3> QED BY <1>1, <2>3, <3>1, <3>2, RequestKeeps DEF OnlyKey
    <2> QED BY <1>3, <2>2, <2>3 DEF ZooKeeperUpdate
  <1>4. CASE KubernetesUpdate(n)
    <2>1. ~HasSessions /\ Fits(n, "reread")
      BY <1>1, <1>4 DEF KubernetesUpdate, HasSessions, Fits, Nexts, Answers
    <2>2. Change(n, Mine(n), "yes") \/ Answer(n, "reread") \/ Answer(n, "no")
      <3>1. CASE seen[n].owner # n
        BY <1>4, <3>1 DEF KubernetesUpdate
      <3>2. CASE seen[n].owner = n /\ seen[n].cur
        BY <1>4, <3>2 DEF KubernetesUpdate
      <3>3. CASE seen[n].owner = n /\ ~seen[n].cur
        BY <1>4, <3>3 DEF KubernetesUpdate
      <3> QED BY <3>1, <3>2, <3>3
    <2> QED BY <1>1, <2>1, <2>2, CreateKeeps, RefusalKeeps, AnswerOnly DEF OnlyKey
  <1>5. CASE KubernetesPatch(n)
    <2>1. ~HasSessions
      BY <1>5 DEF KubernetesPatch, HasSessions
    <2>2. Change(n, Mine(n), "yes") \/ Answer(n, "no")
      BY <1>5 DEF KubernetesPatch
    <2> QED BY <1>1, <2>1, <2>2, CreateKeeps, RefusalKeeps DEF OnlyKey
  <1> QED BY <1>2, <1>3, <1>4, <1>5

\* The refused request is in the log of the whole cluster.
LEMMA RaftUpdateKeeps == IInv /\ (\E n \in Node : RaftUpdate(n)) => IInv'
  <1> SUFFICES ASSUME IInv, NEW n \in Node, RaftUpdate(n)
               PROVE  IInv'
    OBVIOUS
  <1>1. /\ Server /\ Nodes /\ Tamed /\ Calling /\ HonestAnswers /\ faults \in 0..MaxFaults
        /\ OnlyKey /\ pc[n] = "update" /\ backend = "raft"
        /\ ready' \in [Node -> BOOLEAN] /\ ~HasSessions
    BY DEF IInv, Nodes, RaftUpdate, OnlyKey, HasSessions
  <1>2. Fits(n, "create") /\ Fits(n, "no")
    BY <1>1 DEF Fits, Nexts, Answers
  <1>3. CASE seen[n].owner = n /\ Owned(n)
    <2>1. Change(n, Mine(n), "yes")
      BY <1>3 DEF RaftUpdate
    <2> QED BY <1>1, <2>1, CreateKeeps DEF OnlyKey
  <1>4. CASE seen[n].owner = n /\ ~Owned(n)
    <2>1. Write(key, Node) /\ UNCHANGED faults /\ GoTo(n, IF Free THEN "create" ELSE "no")
      BY <1>4 DEF RaftUpdate
    <2>2. key \in Keys /\ key.mine
      BY <1>1 DEF Server, Tamed
    <2>3. Server' /\ Tamed' /\ Observed'
      BY <1>1, <2>1, <2>2, WriteTames DEF OnlyKey
    <2>4. \A m \in Node : view'[m].owner = view[m].owner /\ (held[m] => held'[m])
      BY <1>1, <2>1, <2>2, WriteServer
    <2>5. PICK next \in {"create", "no"} : GoTo(n, next)
      BY <2>1
    <2>6. Calling' /\ HonestAnswers'
      BY <1>1, <1>2, <2>1, <2>4, <2>5, GoToKeeps DEF OnlyKey
    <2>7. Nodes' /\ Faultless'
      BY <1>1, <1>2, <2>1, <2>5, GoToFacts DEF OnlyKey, Nodes, Faultless, HasSessions
    <2> QED BY <2>3, <2>6, <2>7, IInvPrime
  <1>5. CASE seen[n].owner # n
    <2>1. Answer(n, "create") \/ Answer(n, "no")
      BY <1>5 DEF RaftUpdate
    <2> QED BY <1>1, <1>2, <2>1, AnswerOnly DEF OnlyKey
  <1> QED BY <1>3, <1>4, <1>5

\* The record that has been read again is the present one, and whose it is decides.
LEMMA KubernetesRereadKeeps == IInv /\ (\E n \in Node : KubernetesReread(n)) => IInv'
  <1> SUFFICES ASSUME IInv, NEW n \in Node, KubernetesReread(n)
               PROVE  IInv'
    OBVIOUS
  <1>1. /\ Server /\ Nodes /\ Tamed /\ Calling /\ Observed /\ HonestAnswers
        /\ faults \in 0..MaxFaults /\ key \in Keys
    BY DEF IInv, Nodes, Server
  <1>2. /\ UNCHANGED <<key, before, expiring, held, faults, backend, ready, elapsed, sess>>
        /\ seen' = [seen EXCEPT ![n] = Copy(key)] /\ view' = [view EXCEPT ![n] = Copy(key)]
        /\ noticed' = [noticed EXCEPT ![n] = FALSE]
        /\ backend = "kubernetes" /\ pc[n] = "reread"
        /\ GoTo(n, IF Owned(n) THEN "patch" ELSE "no")
    BY DEF KubernetesReread, OnlyKey
  <1>3. Copy(key) \in Copies
    BY <1>1, CopyFacts
  <1>4. Server'
    BY <1>1, <1>2, <1>3 DEF Server
  <1>5. Tamed'
    BY <1>1, <1>2 DEF Tamed, HasSessions
  <1>6. /\ pc' \in [Node -> Steps] /\ told' \in [Node -> Answers \union {None}]
        /\ \A m \in Node : pc'[m] = IF m = n THEN (IF Owned(n) THEN "patch" ELSE "sleep") ELSE pc[m]
        /\ \A m \in Node : told'[m] = IF m = n /\ ~Owned(n) THEN "no" ELSE told[m]
    <2>1. CASE Owned(n)
      BY <1>1, <1>2, <2>1 DEF GoTo, Nodes, Steps, Answers
    <2>2. CASE ~Owned(n)
      BY <1>1, <1>2, <2>2 DEF GoTo, Nodes, Steps, Answers
    <2> QED BY <2>1, <2>2
  <1>7. Nodes'
    BY <1>1, <1>2, <1>6 DEF Nodes
  <1>8. \A m \in Node : m # n => view'[m] = view[m]
    BY <1>2
  <1>9. Calling'
    BY <1>1, <1>2, <1>6, <1>8 DEF Calling
  <1>10. HonestAnswers'
    BY <1>1, <1>2, <1>6 DEF HonestAnswers, None
  <1>11. Observed'
    BY <1>1, <1>2, <1>6, <1>8 DEF Observed, Server, Owned
  <1>12. Faultless'
    BY <1>2 DEF Faultless, HasSessions
  <1> QED BY <1>4, <1>5, <1>7, <1>9, <1>10, <1>11, <1>12, IInvPrime

\* The key in an old session is replaced, which only happens after a fault.
LEMMA RecreateCallsKeep ==
  ASSUME IInv, NEW n \in Node, Etcd3Recreate(n) \/ ConsulRecreate(n) \/ ConsulPutAnew(n)
  PROVE  IInv'
  <1>1. /\ Nodes /\ OnlyKey /\ ready' \in [Node -> BOOLEAN] /\ pc[n] \in {"recreate", "put_anew"}
        /\ backend \in {"etcd3", "consul"} /\ HasSessions /\ faults \in 0..MaxFaults
    BY DEF IInv, Nodes, Etcd3Recreate, ConsulRecreate, ConsulPutAnew, OnlyKey, HasSessions
  <1>2. faults > 0
    BY <1>1 DEF IInv, Faultless
  <1>3. pc[n] \notin {"sleep", "loaded"} /\ Fits(n, "put_anew") /\ Fits(n, "assumed") /\ Fits(n, "yes")
    BY <1>1, <1>2 DEF Fits, Nexts, Answers
  <1>4. CASE Change(n, Mine(n), "yes")
    BY <1>1, <1>2, <1>3, <1>4, RequestKeeps DEF OnlyKey
  <1>5. CASE Change(n, NoKey, "put_anew")
    BY <1>1, <1>2, <1>3, <1>5, RequestKeeps DEF OnlyKey
  <1>6. CASE Answer(n, "put_anew") \/ Answer(n, "assumed")
    BY <1>1, <1>2, <1>3, <1>6, AnswerOnly DEF OnlyKey
  <1>7. CASE Answer(n, "no") \/ Answer(n, "error")
    BY <1>1, <1>3, <1>7, RefusalKeeps DEF OnlyKey
  <1>8. CASE Etcd3Recreate(n)
    BY <1>4, <1>7, <1>8 DEF Etcd3Recreate
  <1>9. CASE ConsulRecreate(n)
    BY <1>5, <1>6, <1>9 DEF ConsulRecreate
  <1>10. CASE ConsulPutAnew(n)
    BY <1>4, <1>6, <1>7, <1>10 DEF ConsulPutAnew
  <1> QED BY <1>8, <1>9, <1>10

\* A key is given back by its owner: by name, or by the version of the own key.
LEMMA DeleteCallsKeep ==
  ASSUME IInv, NEW n \in Node,
         DeleteOwn(n) \/ ConsulDelete(n) \/ ZooKeeperDelete(n) \/ KubernetesDelete(n)
  PROVE  IInv'
  <1>1. /\ Nodes /\ Tamed /\ Calling /\ ready \in [Node -> BOOLEAN] /\ pc[n] = "delete"
        /\ faults \in 0..MaxFaults /\ view[n].owner = n
    BY DEF IInv, Nodes, Calling, DeleteOwn, ConsulDelete, ZooKeeperDelete, KubernetesDelete
  <1>2. Fits(n, "done") /\ pc[n] \notin {"sleep", "loaded"}
    BY <1>1 DEF Fits, Nexts, Answers
  <1>3. CASE /\ Change(n, NoKey, "done") /\ (Owned(n) \/ ~HasSessions)
             /\ UNCHANGED <<backend, elapsed, sess>> /\ ready' \in [Node -> BOOLEAN]
    BY <1>2, <1>3, RequestKeeps DEF Owned
  <1>4. CASE Answer(n, "no") /\ UNCHANGED <<backend, elapsed, sess>> /\ ready' \in [Node -> BOOLEAN]
    BY <1>2, <1>4, RefusalKeeps
  <1>5. CASE DeleteOwn(n)
    BY <1>1, <1>3, <1>4, <1>5 DEF DeleteOwn, OnlyKey
  <1>6. CASE ConsulDelete(n)
    <2>1. OnlyKey /\ backend = "consul"
      BY <1>6 DEF ConsulDelete
    <2>2. view[n].cur => Owned(n)
      BY <1>1, <2>1 DEF Tamed, Owned
    <2> QED BY <1>1, <1>3, <1>4, <1>6, <2>1, <2>2 DEF ConsulDelete, OnlyKey
  <1>7. CASE ZooKeeperDelete(n)
    BY <1>1, <1>7, RestartKeeps DEF ZooKeeperDelete
  <1>8. CASE KubernetesDelete(n)
    <2>1. ~HasSessions /\ UNCHANGED <<backend, elapsed, sess>>
      BY <1>8 DEF KubernetesDelete, HasSessions
    <2>2. ready' \in [Node -> BOOLEAN]
      BY <1>1, <1>8 DEF KubernetesDelete
    <2>3. Change(n, NoKey, "done") \/ Answer(n, "no")
      BY <1>8 DEF KubernetesDelete
    <2> QED BY <1>3, <1>4, <2>1, <2>2, <2>3
  <1> QED BY <1>5, <1>6, <1>7, <1>8

-----------------------------------------------------------------------------
(* The theorems.                                                            *)

LEMMA RunKeeps == IInv /\ (\E n \in Node : Run(n)) => IInv'
  <1> SUFFICES ASSUME IInv, NEW n \in Node, Run(n)
               PROVE  IInv'
    OBVIOUS
  <1>1. CASE LoadKeys(n) \/ LoadCache(n) \/ LoadObserved(n)
    BY <1>1, RunLoadKeeps
  <1>2. CASE attempt_to_acquire_leader(n) \/ update_leader(n)
    BY <1>2, RunEnterKeeps
  <1>3. CASE NoCall(n)
    BY <1>3, NoCallKeeps
  <1>4. CASE Refresh(n)
    BY <1>4, RefreshKeeps
  <1>5. CASE Renew(n)
    BY <1>5, RenewKeeps
  <1>6. CASE SessionGone(n)
    BY <1>6, SessionGoneKeeps
  <1>7. CASE EtcdCreate(n) \/ RaftCreate(n) \/ ZooKeeperCreate(n) \/ KubernetesCreate(n)
    BY <1>7, CreateCallsKeep
  <1>8. CASE Etcd3Create(n) \/ ConsulAcquire(n)
    BY <1>8, PutCallsKeep
  <1>9. CASE EtcdUpdate(n) \/ ZooKeeperUpdate(n) \/ KubernetesUpdate(n) \/ KubernetesPatch(n)
    BY <1>9, UpdateCallsKeep
  <1>10. CASE RaftUpdate(n)
    BY <1>10, RaftUpdateKeeps
  <1>11. CASE KubernetesReread(n)
    BY <1>11, KubernetesRereadKeeps
  <1>12. CASE Etcd3Recreate(n) \/ ConsulRecreate(n) \/ ConsulPutAnew(n)
    BY <1>12, RecreateCallsKeep
  <1>13. CASE DeleteOwn(n) \/ ConsulDelete(n) \/ ZooKeeperDelete(n) \/ KubernetesDelete(n)
    BY <1>13, DeleteCallsKeep
  <1> QED BY <1>1, <1>2, <1>3, <1>4, <1>5, <1>6, <1>7, <1>8, <1>9, <1>10, <1>11, <1>12, <1>13 DEF Run

LEMMA NextKeeps == IInv /\ [Next]_vars => IInv'
  <1> SUFFICES ASSUME IInv, [Next]_vars
               PROVE  IInv'
    OBVIOUS
  <1>1. CASE Environment
    <2>1. CASE TtlPasses
      BY <2>1, TtlPassesKeeps
    <2>2. CASE ServerExpires
      BY <2>2, ServerExpiresKeeps
    <2>3. CASE ExpireKeys
      BY <2>3, ExpireKeysKeeps
    <2>4. CASE Expire
      BY <2>4, ExpireKeeps
    <2>5. CASE OldSessionExpires
      BY <2>5, OldSessionExpiresKeeps
    <2>6. ASSUME NEW n \in Node, SessionExpires(n)
          PROVE  IInv'
      BY <2>6, SessionExpiresKeeps
    <2>7. ASSUME NEW n \in Node, CatchUp(n)
          PROVE  IInv'
      BY <2>7, CatchUpKeeps
    <2>8. ASSUME NEW n \in Node, BuildCache(n)
          PROVE  IInv'
      BY <2>8, BuildCacheKeeps
    <2>9. ASSUME NEW n \in Node, StreamBreaks(n)
          PROVE  IInv'
      BY <2>9, StreamBreaksKeeps
    <2>10. ASSUME NEW n \in Node, Reconnect(n)
          PROVE  IInv'
      BY <2>10, ReconnectKeeps
    <2>11. ASSUME NEW n \in Node, ObservedLongAgo(n)
          PROVE  IInv'
      BY <2>11, ObservedLongAgoKeeps
    <2>12. ASSUME NEW n \in Node, touch_member(n)
          PROVE  IInv'
      BY <2>12, TouchMemberKeeps
    <2>13. ASSUME NEW n \in Node, set_ttl(n)
          PROVE  IInv'
      BY <2>13, SetTtlKeeps
    <2>14. ASSUME NEW n \in Node, delete_leader(n)
          PROVE  IInv'
      BY <2>14, RunEnterKeeps
    <2>15. ASSUME NEW n \in Node, GivesUp(n)
          PROVE  IInv'
      BY <2>15, GivesUpKeeps
    <2> QED BY <1>1, <2>1, <2>2, <2>3, <2>4, <2>5, <2>6, <2>7, <2>8, <2>9, <2>10, <2>11, <2>12,
               <2>13, <2>14, <2>15 DEF Environment
  <1>2. CASE \E n \in Node : Run(n)
    BY <1>2, RunKeeps
  <1>3. CASE UNCHANGED vars
    BY <1>3 DEF vars, IInv, Server, Nodes, Tamed, Calling, Observed, Faultless, HonestAnswers, HasSessions
  <1> QED BY <1>1, <1>2, <1>3 DEF Next

LEMMA IInvInvariant == Spec => []IInv
  BY InitIInv, NextKeeps, PTL DEF Spec

\* In all six stores True from update_leader or attempt_to_acquire_leader means that the
\* node has had the key during the call, whatever is lost, repeated, expired or stale;
\* an answer given without asking the store is wrong only after a fault.
THEOREM AnswersTrue == Spec => []DcsSafe
  <1>1. IInv => DcsSafe
    BY TypesOK DEF IInv, DcsSafe
  <1> QED BY <1>1, IInvInvariant, PTL

-----------------------------------------------------------------------------
(* Nobody loses a valid key.                                                *)

\* A request leaves the key with one node or none, and touches nothing else of it.
LEMMA ChangeOwner ==
  ASSUME NEW n \in Node, NEW k, NEW next, Change(n, k, next)
  PROVE  key' = k
  BY DEF Change, Write

\* The exceptions of KeepsValidKey for the owner n.
Gives(n) ==
    \/ pc[n] \in {"delete", "recreate"} \/ sess'[n] # "live" \/ (pc[n] = "sleep" /\ backend = "zookeeper")
    \/ backend = "zookeeper" /\ \E m \in Node : pc[m] = "update" /\ ~view[m].mine

\* In an answer, a load, a new session and the passing of time nobody loses the key.
LEMMA SameOwner ==
  ASSUME Server, NEW m \in Node,
         \/ TtlPasses \/ ExpireKeys \/ CatchUp(m) \/ BuildCache(m) \/ StreamBreaks(m) \/ Reconnect(m)
         \/ ObservedLongAgo(m) \/ touch_member(m) \/ delete_leader(m) \/ GivesUp(m)
         \/ LoadKeys(m) \/ LoadCache(m) \/ LoadObserved(m)
         \/ attempt_to_acquire_leader(m) \/ update_leader(m) \/ NoCall(m)
         \/ Refresh(m) \/ Renew(m) \/ SessionGone(m) \/ KubernetesReread(m)
  PROVE  key'.owner = key.owner
  <1>1. key \in Keys
    BY DEF Server
  <1>2. ASSUME NewSession(m) \/ Keep
        PROVE  key'.owner = key.owner
    <2>1. Forget(key, m).owner = key.owner
      BY <1>1, ForgetKey
    <2> QED BY <1>2, <2>1 DEF NewSession, Keep
  <1>3. CASE TtlPasses \/ ObservedLongAgo(m)
    BY <1>1, <1>3 DEF TtlPasses, ObservedLongAgo, Keys
  <1>4. CASE ExpireKeys \/ CatchUp(m) \/ BuildCache(m) \/ StreamBreaks(m) \/ NoCall(m) \/ KubernetesReread(m)
    BY <1>4 DEF ExpireKeys, CatchUp, BuildCache, StreamBreaks, NoCall, KubernetesReread
  <1>5. CASE Reconnect(m) \/ touch_member(m) \/ GivesUp(m) \/ SessionGone(m)
    BY <1>2, <1>5 DEF Reconnect, touch_member, GivesUp, SessionGone
  <1>6. CASE Refresh(m) \/ Renew(m)
    BY <1>2, <1>6 DEF Refresh, Renew, RefreshSession
  <1>7. CASE LoadKeys(m) \/ LoadCache(m) \/ LoadObserved(m)
    BY <1>7 DEF LoadKeys, LoadCache, LoadObserved, Load
  <1>8. CASE delete_leader(m) \/ attempt_to_acquire_leader(m) \/ update_leader(m)
    BY <1>8 DEF delete_leader, attempt_to_acquire_leader, update_leader, Enter
  <1> QED BY <1>3, <1>4, <1>5, <1>6, <1>7, <1>8

\* What the store removes by itself has run out.
LEMMA ExpiryIsLate ==
  ASSUME IInv, NEW n \in Node, Valid(n), key'.owner # n,
         \/ ServerExpires \/ Expire \/ OldSessionExpires
         \/ \E m \in Node : SessionExpires(m)
  PROVE  Gives(n)
  <1>1. Server /\ Tamed /\ Nodes
    BY DEF IInv
  <1>2. key.owner = n /\ ~key.late /\ (HasSessions => key.mine)
    BY DEF Valid
  <1>3. CASE ServerExpires
    BY <1>2, <1>3 DEF ServerExpires
  <1>4. CASE Expire
    <2>1. ~expiring.cur
      BY <1>1, <1>2 DEF Tamed
    <2> QED BY <1>2, <1>4, <2>1 DEF Expire
  <1>5. CASE OldSessionExpires
    BY <1>1, <1>2, <1>5 DEF OldSessionExpires, Tamed
  <1>6. ASSUME NEW m \in Node, SessionExpires(m)
        PROVE  Gives(n)
    <2>1. CASE key.owner = m
      <3>1. sess'[n] = "dead"
        BY <1>1, <1>2, <1>6, <2>1 DEF SessionExpires, Nodes
      <3> QED BY <3>1 DEF Gives
    <2>2. CASE key.owner # m
      BY <1>2, <1>6, <2>2 DEF SessionExpires, Keep
    <2> QED BY <2>1, <2>2
  <1> QED BY <1>3, <1>4, <1>5, <1>6

\* A client restarts for its own sake.
LEMMA RestartGives ==
  ASSUME IInv, NEW n \in Node, Valid(n), key'.owner # n,
         \E m \in Node : set_ttl(m) \/ ZooKeeperDelete(m)
  PROVE  Gives(n)
  <1>1. key \in Keys /\ key.owner = n
    BY DEF IInv, Server, Valid
  <1>2. PICK m \in Node : set_ttl(m) \/ ZooKeeperDelete(m)
    OBVIOUS
  <1>3. ASSUME RestartClient(m)
        PROVE  m = n
    <2>1. CASE key.owner = m
      BY <1>1, <2>1
    <2>2. CASE key.owner # m
      BY <1>1, <1>3, <2>2, ForgetKey DEF RestartClient
    <2> QED BY <2>1, <2>2
  <1>4. CASE set_ttl(m)
    <2>1. backend = "zookeeper" /\ RestartClient(m) /\ pc[m] = "sleep"
      BY <1>1, <1>4 DEF set_ttl, Keep
    <2> QED BY <1>3, <2>1 DEF Gives
  <1>5. CASE ZooKeeperDelete(m)
    BY <1>3, <1>5 DEF ZooKeeperDelete, Gives
  <1> QED BY <1>2, <1>4, <1>5

\* Who creates a key has found none, and in kubernetes a record whose leader has run out.
LEMMA CreatorsFindNone ==
  ASSUME IInv, NEW n \in Node, Valid(n), NEW m \in Node,
         \/ EtcdCreate(m) \/ RaftCreate(m) \/ ZooKeeperCreate(m) \/ KubernetesCreate(m)
         \/ Etcd3Create(m) \/ ConsulAcquire(m)
  PROVE  key'.owner = n
  <1>1. key.owner = n /\ ~key.late /\ n # None
    BY DEF Valid
  <1>2. ASSUME NEW next, Answer(m, next)
        PROVE  key'.owner = n
    BY <1>1, <1>2 DEF Answer, Keep
  <1>3. ASSUME Change(m, Mine(m), "yes"), m = n
        PROVE  key'.owner = n
    BY <1>3, ChangeOwner DEF Mine
  <1>4. CASE EtcdCreate(m) \/ RaftCreate(m) \/ ZooKeeperCreate(m)
    BY <1>1, <1>2, <1>4 DEF EtcdCreate, RaftCreate, ZooKeeperCreate, Free
  <1>5. CASE KubernetesCreate(m)
    <2>1. ~view[m].cur
      BY <1>1, <1>5 DEF IInv, Calling, Observed, KubernetesCreate
    <2> QED BY <1>2, <1>5, <2>1 DEF KubernetesCreate
  <1>6. CASE Etcd3Create(m)
    BY <1>1, <1>2, <1>6 DEF Etcd3Create, Free
  <1>7. CASE ConsulAcquire(m)
    BY <1>1, <1>2, <1>3, <1>7 DEF ConsulAcquire, Free, Owned
  <1> QED BY <1>4, <1>5, <1>6, <1>7

\* Who writes over a key or removes it is its owner, or in zookeeper anybody who has lost
\* his session.
LEMMA WritersOwn ==
  ASSUME IInv, NEW n \in Node, Valid(n), key'.owner # n, NEW m \in Node,
         \/ EtcdUpdate(m) \/ RaftUpdate(m) \/ ZooKeeperUpdate(m) \/ KubernetesUpdate(m) \/ KubernetesPatch(m)
         \/ Etcd3Recreate(m) \/ ConsulRecreate(m) \/ ConsulPutAnew(m)
         \/ DeleteOwn(m) \/ ConsulDelete(m) \/ KubernetesDelete(m)
  PROVE  Gives(n)
  <1>1. /\ key.owner = n /\ ~key.late /\ n # None
        /\ Server /\ Tamed /\ Calling /\ Observed
    BY DEF Valid, IInv
  <1>2. ASSUME NEW next
        PROVE  ~Answer(m, next)
    BY <1>1, <1>2 DEF Answer, Keep
  <1>3. m = n => ~Change(m, Mine(m), "yes")
    BY ChangeOwner DEF Mine
  <1>4. seen[m].cur => seen[m].owner = n
    BY <1>1, CopyFacts DEF Server
  <1>5. CASE EtcdUpdate(m)
    BY <1>1, <1>2, <1>3, <1>5 DEF EtcdUpdate, Owned
  <1>6. CASE RaftUpdate(m)
    <2>1. CASE seen[m].owner = m /\ Owned(m)
      BY <1>1, <1>3, <1>6, <2>1 DEF RaftUpdate, Owned
    <2>2. CASE seen[m].owner = m /\ ~Owned(m)
      <3>1. Write(key, Node)
        BY <1>6, <2>2 DEF RaftUpdate
      <3> QED BY <1>1, <3>1 DEF Write
    <2>3. CASE seen[m].owner # m
      BY <1>2, <1>6, <2>3 DEF RaftUpdate
    <2> QED BY <2>1, <2>2, <2>3
  <1>7. CASE ZooKeeperUpdate(m)
    BY <1>2, <1>7 DEF ZooKeeperUpdate, Gives
  <1>8. CASE KubernetesUpdate(m)
    <2>1. CASE seen[m].owner # m
      BY <1>2, <1>8, <2>1 DEF KubernetesUpdate
    <2>2. CASE seen[m].owner = m /\ seen[m].cur
      BY <1>3, <1>4, <1>8, <2>2 DEF KubernetesUpdate
    <2>3. CASE seen[m].owner = m /\ ~seen[m].cur
      BY <1>2, <1>8, <2>3 DEF KubernetesUpdate
    <2> QED BY <2>1, <2>2, <2>3
  <1>9. CASE KubernetesPatch(m)
    <2>1. view[m].cur => m = n
      BY <1>1, <1>9 DEF KubernetesPatch, Observed
    <2> QED BY <1>2, <1>3, <1>9, <2>1 DEF KubernetesPatch
  <1>10. CASE Etcd3Recreate(m) \/ ConsulPutAnew(m)
    BY <1>1, <1>2, <1>3, <1>10 DEF Etcd3Recreate, ConsulPutAnew, Owned, Free
  <1>11. CASE ConsulRecreate(m) \/ ConsulDelete(m)
    <2>1. view[m].cur => m = n
      BY <1>1, <1>11 DEF ConsulRecreate, ConsulDelete, Tamed, Calling
    <2>2. view[m].cur
      BY <1>2, <1>11 DEF ConsulRecreate, ConsulDelete
    <2> QED BY <1>11, <2>1, <2>2 DEF ConsulRecreate, ConsulDelete, Gives
  <1>12. CASE DeleteOwn(m)
    BY <1>1, <1>2, <1>12 DEF DeleteOwn, Owned, Gives
  <1>13. CASE KubernetesDelete(m)
    BY <1>2, <1>4, <1>13 DEF KubernetesDelete, Gives
  <1> QED BY <1>5, <1>6, <1>7, <1>8, <1>9, <1>10, <1>11, <1>12, <1>13

LEMMA NextKeepsValidKey == IInv /\ [Next]_vars => KeepsValidKey
  <1> SUFFICES ASSUME IInv, [Next]_vars, NEW n \in Node, Valid(n), key'.owner # n
               PROVE  Gives(n)
    BY DEF KeepsValidKey, Gives
  <1>1. key.owner = n /\ Server
    BY DEF Valid, IInv
  <1>2. CASE TtlPasses \/ ExpireKeys
    BY <1>1, <1>2, SameOwner
  <1>3. CASE ServerExpires \/ Expire \/ OldSessionExpires
    BY <1>3, ExpiryIsLate
  <1>4. ASSUME NEW m \in Node,
               \/ SessionExpires(m) \/ CatchUp(m) \/ BuildCache(m) \/ StreamBreaks(m) \/ Reconnect(m)
               \/ ObservedLongAgo(m) \/ touch_member(m) \/ set_ttl(m) \/ delete_leader(m) \/ GivesUp(m)
        PROVE  Gives(n)
    <2>1. CASE SessionExpires(m)
      BY <2>1, ExpiryIsLate
    <2>2. CASE set_ttl(m)
      BY <2>2, RestartGives
    <2>3. CASE \/ CatchUp(m) \/ BuildCache(m) \/ StreamBreaks(m) \/ Reconnect(m)
               \/ ObservedLongAgo(m) \/ touch_member(m) \/ delete_leader(m) \/ GivesUp(m)
      BY <1>1, <2>3, SameOwner
    <2> QED BY <1>4, <2>1, <2>2, <2>3
  <1>5. ASSUME NEW m \in Node, Run(m)
        PROVE  Gives(n)
    <2>1. CASE \/ LoadKeys(m) \/ LoadCache(m) \/ LoadObserved(m)
               \/ attempt_to_acquire_leader(m) \/ update_leader(m) \/ NoCall(m)
               \/ Refresh(m) \/ Renew(m) \/ SessionGone(m) \/ KubernetesReread(m)
      BY <1>1, <2>1, SameOwner
    <2>2. CASE \/ EtcdCreate(m) \/ RaftCreate(m) \/ ZooKeeperCreate(m) \/ KubernetesCreate(m)
               \/ Etcd3Create(m) \/ ConsulAcquire(m)
      BY <2>2, CreatorsFindNone
    <2>3. CASE \/ EtcdUpdate(m) \/ RaftUpdate(m) \/ ZooKeeperUpdate(m) \/ KubernetesUpdate(m) \/ KubernetesPatch(m)
               \/ Etcd3Recreate(m) \/ ConsulRecreate(m) \/ ConsulPutAnew(m)
               \/ DeleteOwn(m) \/ ConsulDelete(m) \/ KubernetesDelete(m)
      BY <2>3, WritersOwn
    <2>4. CASE ZooKeeperDelete(m)
      BY <2>4, RestartGives
    <2> QED BY <1>5, <2>1, <2>2, <2>3, <2>4 DEF Run
  <1>6. CASE UNCHANGED vars
    BY <1>1, <1>6 DEF vars
  <1> QED BY <1>2, <1>3, <1>4, <1>5, <1>6 DEF Next, Environment

\* No node takes or removes a key whose session is alive or whose ttl has not run out, but
\* for its owner, and for _update_leader of zookeeper after the session of its node was lost.
THEOREM KeyIsNotStolen == Spec => NoTheft
  BY IInvInvariant, NextKeepsValidKey, PTL DEF Spec, NoTheft
=============================================================================
