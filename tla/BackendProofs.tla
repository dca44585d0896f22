------------------------------ MODULE BackendProofs ------------------------------
(***************************************************************************)
(* The mark-as-read saga for any number of messages and of concurrent      *)
(* calls and every set of faults, then the cached feeds of any number of   *)
(* users, posts, handlers and readers.  The two share no name.             *)
(***************************************************************************)
EXTENDS DialogSagaProps, FeedProps, FiniteSetTheorems, SequenceTheorems, TLAPS

(***************************************************************************)
(* The saga.                                                               *)
(***************************************************************************)

-----------------------------------------------------------------------------
(* The inductive invariant.  LossNeedsIgnoredStatus and DuplicateHasCause   *)
(* say something about a call that has ended; what makes them true is what  *)
(* holds of the calls in progress.                                          *)

\* A batch belongs to a call that fetched it, a handler to a call that posted.
Stages ==
    \A r \in Request :
        /\ batch[r] \subseteq ids[r]
        /\ gateway[r] \in {"idle", "get"} => batch[r] = {}
        /\ gateway[r] \in {"idle", "get", "post"} => service[r] = "none"
        /\ gateway[r] \in {"wait", "remove", "ok", "error"} => service[r] /= "none"
        /\ gateway[r] \in {"idle", "get", "post", "wait"} => remover[r] = "none"
        /\ gateway[r] = "remove" => remover[r] = "removing"
        /\ gateway[r] = "ok" => remover[r] = "done"
        /\ remover[r] /= "none" => service[r] /= "none"
        /\ service[r] = "ok" => batch[r] = {}

\* Between its fetch and its remove a call knows of every message that its
\* remove will delete: it is saved or still in the batch.
Accounted ==
    \A r \in Request :
        gateway[r] \in {"post", "wait"} \/ remover[r] = "removing" => ids[r] \cap unread \subseteq read \union batch[r]

\* What a call removed does not come back.
Removed == \A r \in Request : remover[r] = "done" => ids[r] \cap unread = {}

SagaIInv ==
    /\ SagaTypeOK
    /\ Stages
    /\ Accounted
    /\ Removed
    /\ LossNeedsIgnoredStatus
    /\ DuplicateHasCause

LEMMA InitSagaIInv == SagaInit => SagaIInv
  BY DEF SagaInit, SagaIInv, SagaTypeOK, Stages, Accounted, Removed, LossNeedsIgnoredStatus,
         DuplicateHasCause, Missing, GatewayState, ServiceState, RemoverState

USE DEF SagaIInv

LEMMA SendKeepsIInv ==
  ASSUME SagaIInv, NEW m \in Message, dialog_send(m)
  PROVE  SagaIInv'
  <1> USE DEF dialog_send
  <1>1. SagaTypeOK'
    BY DEF SagaTypeOK
  <1>2. Stages'
    BY DEF Stages
  <1>3. Accounted' /\ Removed'
    BY DEF SagaTypeOK, Accounted, Removed
  <1>4. LossNeedsIgnoredStatus'
    BY DEF SagaTypeOK, LossNeedsIgnoredStatus, Missing
  <1>5. DuplicateHasCause'
    BY DEF SagaTypeOK, DuplicateHasCause
  <1> QED BY <1>1, <1>2, <1>3, <1>4, <1>5

LEMMA MarkKeepsIInv ==
  ASSUME SagaIInv, NEW r \in Request, NEW S \in SUBSET Message, dialog_mark_as_read(r, S)
  PROVE  SagaIInv'
  <1> USE DEF dialog_mark_as_read
  <1>1. SagaTypeOK'
    BY DEF SagaTypeOK, GatewayState
  <1>2. Stages'
    BY DEF SagaTypeOK, Stages
  <1>3. Accounted' /\ Removed'
    BY DEF SagaTypeOK, Accounted, Removed, Stages
  <1>4. LossNeedsIgnoredStatus'
    BY DEF SagaTypeOK, LossNeedsIgnoredStatus, Missing
  <1>5. DuplicateHasCause'
    BY DEF SagaTypeOK, DuplicateHasCause
  <1> QED BY <1>1, <1>2, <1>3, <1>4, <1>5

LEMMA GatewayStepKeepsIInv ==
  ASSUME SagaIInv, NEW r \in Request, GatewayStep(r) \/ GatewayStops(r) \/ LateRemove(r)
  PROVE  SagaIInv'
  <1> USE DEF Proceed
  <1>1. CASE dialog_messages_get_by_ids(r)
    <2> USE <1>1 DEF dialog_messages_get_by_ids
    <2>1. SagaTypeOK'
      BY DEF SagaTypeOK, GatewayState
    <2>2. Stages'
      BY DEF SagaTypeOK, Stages
    <2>3. Accounted' /\ Removed'
      BY DEF SagaTypeOK, Accounted, Removed
    <2>4. LossNeedsIgnoredStatus'
      BY DEF SagaTypeOK, Stages, LossNeedsIgnoredStatus, Missing
    <2>5. DuplicateHasCause'
      BY DEF SagaTypeOK, DuplicateHasCause
    <2> QED BY <2>1, <2>2, <2>3, <2>4, <2>5
  <1>2. CASE GetFails(r) \/ GatewayStops(r) \/ ConnectionLost(r) \/ RemoveFails(r) \/ RemoveAnsweredByProxy(r)
    <2> USE <1>2 DEF GetFails, GatewayStops, ConnectionLost, RemoveFails, RemoveAnsweredByProxy, InProgress
    <2>1. SagaTypeOK'
      BY DEF SagaTypeOK, GatewayState, RemoverState
    <2>2. Stages'
      BY DEF SagaTypeOK, Stages
    <2>3. Accounted' /\ Removed'
      BY DEF SagaTypeOK, Accounted, Removed
    <2>4. LossNeedsIgnoredStatus'
      BY DEF SagaTypeOK, Stages, LossNeedsIgnoredStatus, Missing
    <2>5. DuplicateHasCause'
      BY DEF SagaTypeOK, DuplicateHasCause
    <2> QED BY <2>1, <2>2, <2>3, <2>4, <2>5
  <1>3. CASE PostMessages(r) \/ PostRefused(r)
    <2> USE <1>3 DEF PostMessages, PostRefused
    <2>1. SagaTypeOK'
      BY DEF SagaTypeOK, GatewayState, ServiceState
    <2>2. Stages'
      BY DEF SagaTypeOK, Stages
    <2>3. Accounted' /\ Removed'
      BY DEF SagaTypeOK, Accounted, Removed
    <2>4. LossNeedsIgnoredStatus'
      BY DEF SagaTypeOK, LossNeedsIgnoredStatus, Missing
    <2>5. DuplicateHasCause'
      BY DEF SagaTypeOK, Stages, DuplicateHasCause
    <2> QED BY <2>1, <2>2, <2>3, <2>4, <2>5
  <1>4. CASE PostAnswered(r) \/ PostAnsweredByProxy(r)
    <2> USE <1>4 DEF PostAnswered, PostAnsweredByProxy
    <2>1. SagaTypeOK'
      BY DEF SagaTypeOK, GatewayState, RemoverState
    <2>2. Stages'
      BY DEF SagaTypeOK, Stages
    <2>3. Accounted' /\ Removed'
      BY DEF SagaTypeOK, Accounted, Removed
    <2>4. LossNeedsIgnoredStatus'
      BY DEF SagaTypeOK, Stages, LossNeedsIgnoredStatus, Missing
    <2>5. DuplicateHasCause'
      BY DEF SagaTypeOK, DuplicateHasCause
    <2> QED BY <2>1, <2>2, <2>3, <2>4, <2>5
  <1>5. CASE dialog_messages_remove(r)
    <2> USE <1>5 DEF dialog_messages_remove, DeleteCommits
    <2>1. SagaTypeOK'
      BY DEF SagaTypeOK, GatewayState, RemoverState
    <2>2. Stages'
      BY DEF SagaTypeOK, Stages
    <2>3. Accounted' /\ Removed'
      BY DEF SagaTypeOK, Accounted, Removed
    <2>4. LossNeedsIgnoredStatus'
      <3> SUFFICES ASSUME NEW m \in Missing'
                   PROVE  \E q \in Request : /\ m \in batch[q]
                                             /\ service[q] /= "ok"
                                             /\ remover'[q] = "done"
        BY DEF LossNeedsIgnoredStatus
      <3>1. CASE m \in Missing
        BY <3>1 DEF SagaTypeOK, LossNeedsIgnoredStatus
      <3>2. CASE m \notin Missing
        <4>1. m \in ids[r] \cap unread /\ m \notin read
          BY <3>2 DEF Missing
        <4>2. m \in batch[r]
          BY <4>1 DEF Accounted
        <4> QED BY <4>2 DEF SagaTypeOK, Stages
      <3> QED BY <3>1, <3>2
    <2>5. DuplicateHasCause'
      BY DEF SagaTypeOK, DuplicateHasCause
    <2> QED BY <2>1, <2>2, <2>3, <2>4, <2>5
  <1> QED BY <1>1, <1>2, <1>3, <1>4, <1>5 DEF GatewayStep, LateRemove

LEMMA ServiceStepKeepsIInv ==
  ASSUME SagaIInv, NEW r \in Request, ServiceStep(r) \/ ServiceDies(r)
  PROVE  SagaIInv'
  <1>1. ASSUME NEW m \in Message, Insert(r, m)
        PROVE  SagaIInv'
    <2> USE <1>1 DEF Insert
    <2>1. SagaTypeOK'
      BY DEF SagaTypeOK
    <2>2. Stages'
      BY DEF SagaTypeOK, Stages
    <2>3. Accounted' /\ Removed'
      BY DEF SagaTypeOK, Accounted, Removed
    <2>4. LossNeedsIgnoredStatus'
      BY DEF SagaTypeOK, LossNeedsIgnoredStatus, Missing
    <2>5. DuplicateHasCause'
      <3>1. m \in unread => remover[r] /= "done" /\ gateway[r] \in {"wait", "remove", "error", "stopped"}
        BY DEF SagaTypeOK, Stages, Removed, GatewayState
      <3> QED BY <3>1 DEF SagaTypeOK, Stages, DuplicateHasCause
    <2> QED BY <2>1, <2>2, <2>3, <2>4, <2>5
  <1>2. CASE InsertFails(r) \/ AllSaved(r) \/ ServiceDies(r)
    <2> USE <1>2 DEF InsertFails, AllSaved, ServiceDies
    <2>1. SagaTypeOK'
      BY DEF SagaTypeOK, ServiceState
    <2>2. Stages'
      BY DEF SagaTypeOK, Stages
    <2>3. Accounted' /\ Removed'
      BY DEF SagaTypeOK, Accounted, Removed
    <2>4. LossNeedsIgnoredStatus'
      BY DEF SagaTypeOK, LossNeedsIgnoredStatus, Missing
    <2>5. DuplicateHasCause'
      BY DEF SagaTypeOK, DuplicateHasCause
    <2> QED BY <2>1, <2>2, <2>3, <2>4, <2>5
  <1> QED BY <1>1, <1>2 DEF ServiceStep

LEMMA StutterKeepsIInv == SagaIInv /\ UNCHANGED sagaVars => SagaIInv'
  BY DEF sagaVars, SagaTypeOK, Stages, Accounted, Removed, LossNeedsIgnoredStatus,
         DuplicateHasCause, Missing

LEMMA NextIInv == SagaIInv /\ [SagaNext]_sagaVars => SagaIInv'
  BY SendKeepsIInv, MarkKeepsIInv, GatewayStepKeepsIInv, ServiceStepKeepsIInv,
     StutterKeepsIInv DEF SagaNext, Crash

\* Every reachable state of the saga, whatever the faults, satisfies the
\* inductive invariant.
THEOREM SagaInvariance == SagaSpec => []SagaIInv
  BY InitSagaIInv, NextIInv, PTL DEF SagaSpec

\* The stores, the calls and their batches keep their types.
THEOREM SagaTypeCorrect == SagaSpec => []SagaTypeOK
  <1>1. SagaIInv => SagaTypeOK
    OBVIOUS
  <1> QED BY <1>1, SagaInvariance, PTL

\* Only the ignored status of /send_messages_vec loses a message
\* (backend/src/main.rs:1173-1175).
THEOREM LossNeedsIgnoredStatusHolds == SagaSpec => []LossNeedsIgnoredStatus
  <1>1. SagaIInv => LossNeedsIgnoredStatus
    OBVIOUS
  <1> QED BY <1>1, SagaInvariance, PTL

\* A message is in both stores only between a save and its remove, or after a
\* call that ended without one.
THEOREM DuplicateHasCauseHolds == SagaSpec => []DuplicateHasCause
  <1>1. SagaIInv => DuplicateHasCause
    OBVIOUS
  <1> QED BY <1>1, SagaInvariance, PTL

-----------------------------------------------------------------------------
(* Calls that never overlap, and no fault but a failed fetch.               *)

Serial == ~Overlapping /\ SagaFault \subseteq {"get"}

\* Then a handler runs only while its call waits for it, a batch has nothing
\* in common with the read store or with another call, and the save is
\* complete when the remove is sent.
SInv ==
    /\ SagaIInv
    /\ NothingLost
    /\ \A r \in Request :
        /\ service[r] \in {"none", "saving", "ok"}
        /\ gateway[r] /= "error"
        /\ gateway[r] = "stopped" => service[r] = "none" /\ remover[r] = "none"
        /\ gateway[r] = "remove" => service[r] = "ok"
        /\ service[r] = "saving" => gateway[r] = "wait"
        /\ gateway[r] \in InProgress => batch[r] \cap read = {}
        /\ \A q \in Request :
            q /= r /\ gateway[q] \in InProgress /\ gateway[r] \in InProgress
                => ids[q] \cap ids[r] = {}

USE DEF SInv

LEMMA InitSInv == SagaInit => SInv
  BY InitSagaIInv DEF SagaInit, NothingLost, Missing, InProgress

\* In a serial run a message in both stores is named by a call in progress.
LEMMA DuplicateInProgress ==
  ASSUME SInv, NEW m \in unread \cap read
  PROVE  \E r \in Request : m \in ids[r] /\ gateway[r] \in {"wait", "remove"}
  BY DEF DuplicateHasCause

LEMMA NextSInv ==
  ASSUME Serial, SInv, [SagaNext]_sagaVars
  PROVE  SInv'
  <1> USE DEF Serial, InProgress
  <1>0. SagaIInv'
    BY NextIInv
  <1>1. ASSUME NEW m \in Message, dialog_send(m)
        PROVE  SInv'
    BY <1>0, <1>1 DEF dialog_send, NothingLost, Missing
  <1>2. ASSUME NEW r \in Request, NEW S \in SUBSET Message, dialog_mark_as_read(r, S)
        PROVE  SInv'
    BY <1>0, <1>2 DEF dialog_mark_as_read, NothingLost, Missing, SagaTypeOK, Stages
  <1>3. ASSUME NEW r \in Request, dialog_messages_get_by_ids(r)
        PROVE  SInv'
    <2> USE <1>3 DEF dialog_messages_get_by_ids
    <2>1. NothingLost'
      BY DEF NothingLost, Missing
    <2>2. batch'[r] \cap read = {}
      <3> SUFFICES ASSUME NEW m \in ids[r] \cap unread \cap read
                   PROVE  FALSE
        BY DEF SagaTypeOK
      <3> QED BY DuplicateInProgress
    <2> QED BY <1>0, <2>1, <2>2 DEF SagaTypeOK, Stages
  <1>4. ASSUME NEW r \in Request, GetFails(r)
        PROVE  SInv'
    BY <1>0, <1>4 DEF GetFails, NothingLost, Missing, SagaTypeOK, Stages
  <1>5. ASSUME NEW r \in Request, PostMessages(r)
        PROVE  SInv'
    BY <1>0, <1>5 DEF PostMessages, NothingLost, Missing, SagaTypeOK, Stages
  <1>6. ASSUME NEW r \in Request, PostAnswered(r)
        PROVE  SInv'
    BY <1>0, <1>6 DEF PostAnswered, Proceed, NothingLost, Missing, SagaTypeOK, Stages
  <1>7. ASSUME NEW r \in Request, dialog_messages_remove(r)
        PROVE  SInv'
    <2> USE <1>7 DEF dialog_messages_remove, DeleteCommits
    <2>1. ids[r] \cap unread \subseteq read
      BY DEF Accounted, Stages
    <2>2. NothingLost'
      BY <2>1 DEF NothingLost, Missing
    <2> QED BY <1>0, <2>2 DEF SagaTypeOK, Stages
  <1>8. ASSUME NEW r \in Request, NEW m \in Message, Insert(r, m)
        PROVE  SInv'
    <2> USE <1>8 DEF Insert
    <2>1. NothingLost'
      BY DEF NothingLost, Missing
    <2>2. ASSUME NEW q \in Request, q /= r, gateway[q] \in InProgress
          PROVE  m \notin batch[q]
      BY <2>2 DEF Stages
    <2> QED BY <1>0, <2>1, <2>2 DEF SagaTypeOK, Stages
  <1>9. ASSUME NEW r \in Request, InsertFails(r)
        PROVE  FALSE
    BY <1>9 DEF InsertFails
  <1>10. ASSUME NEW r \in Request, AllSaved(r)
         PROVE  SInv'
    BY <1>0, <1>10 DEF AllSaved, NothingLost, Missing, SagaTypeOK, Stages
  <1>11. CASE UNCHANGED sagaVars
    BY <1>0, <1>11 DEF sagaVars, NothingLost, Missing
  <1>12. ASSUME NEW r \in Request
         PROVE  /\ ~PostRefused(r) /\ ~PostAnsweredByProxy(r) /\ ~ConnectionLost(r)
                /\ ~RemoveFails(r) /\ ~RemoveAnsweredByProxy(r) /\ ~Crash(r)
    BY DEF PostRefused, PostAnsweredByProxy, ConnectionLost, RemoveFails, RemoveAnsweredByProxy,
           Crash, GatewayStops, ServiceDies
  <1> QED
    BY <1>1, <1>2, <1>3, <1>4, <1>5, <1>6, <1>7, <1>8, <1>9, <1>10, <1>11, <1>12
       DEF SagaNext, GatewayStep, ServiceStep, LateRemove

\* Without overlapping calls, and if nothing fails after the fetch, no message
\* is lost: the saga as it is documented (report/lesson_29/README.md, case 3).
THEOREM SerialNothingLost ==
  ASSUME Serial
  PROVE  SagaSpec => []NothingLost
  <1>1. SagaInit => SInv
    BY InitSInv
  <1>2. SInv /\ [SagaNext]_sagaVars => SInv'
    BY NextSInv
  <1>3. SInv => NothingLost
    OBVIOUS
  <1> QED BY <1>1, <1>2, <1>3, PTL DEF SagaSpec

\* ... the answer "ok" means read ...
THEOREM SerialOkMeansRead ==
  ASSUME Serial
  PROVE  SagaSpec => []OkMeansRead
  <1>1. SagaInit => SInv
    BY InitSInv
  <1>2. SInv /\ [SagaNext]_sagaVars => SInv'
    BY NextSInv
  <1>3. SInv => OkMeansRead
    BY DEF OkMeansRead, NothingLost, Missing, SagaTypeOK, Removed, Stages
  <1> QED BY <1>1, <1>2, <1>3, PTL DEF SagaSpec

\* ... and a message leaves the unread store only when the read store has it,
\* as the documentation says of every call.
THEOREM SerialRemovedOnlyWhenSaved ==
  ASSUME Serial
  PROVE  SagaSpec => RemovedOnlyWhenSaved
  <1>1. SagaInit => SInv
    BY InitSInv
  <1>2. SInv /\ [SagaNext]_sagaVars => SInv'
    BY NextSInv
  <1>3. SInv /\ SInv' /\ [SagaNext]_sagaVars => [unread \ unread' \subseteq read]_sagaVars
    <2> SUFFICES ASSUME SInv, [SagaNext]_sagaVars, NEW m \in unread, m \notin unread'
                 PROVE  m \in read
      OBVIOUS
    <2>1. PICK r \in Request : dialog_messages_remove(r)
      BY DEF SagaNext, sagaVars, GatewayStep, ServiceStep, Crash, Proceed, dialog_send,
             dialog_mark_as_read, dialog_messages_get_by_ids, GetFails, PostMessages,
             PostRefused, PostAnswered, PostAnsweredByProxy, ConnectionLost, RemoveFails,
             RemoveAnsweredByProxy, LateRemove, GatewayStops, InsertFails, AllSaved, ServiceDies, Insert
    <2>2. m \in ids[r] /\ remover[r] = "removing"
      BY <2>1 DEF dialog_messages_remove, DeleteCommits
    <2>3. gateway[r] = "remove"
      BY <2>2 DEF Stages, SagaTypeOK, GatewayState
    <2> QED BY <2>2, <2>3 DEF Accounted, Stages
  <1> QED BY <1>1, <1>2, <1>3, PTL DEF SagaSpec, RemovedOnlyWhenSaved

-----------------------------------------------------------------------------
(* The saga implements the life cycle of a message.                         *)

USE DEF StageOf, Missing

LEMMA InitRefines == SagaInit => Life!Init
  BY DEF SagaInit, Life!Init

LEMMA StepRefines ==
  ASSUME SagaIInv, SagaIInv', ~Serial \/ SInv, [SagaNext]_sagaVars
  PROVE  [Life!Next]_([m \in Message |-> StageOf(m)])
  <1> DEFINE stage == [m \in Message |-> StageOf(m)]
             lossy == Overlapping \/ ~(SagaFault \subseteq {"get"})
  <1>1. ASSUME NEW m \in Message, dialog_send(m)
        PROVE  Life!Send(m)
    <2> USE <1>1 DEF dialog_send
    <2>1. StageOf(m) = "new" /\ StageOf(m)' = "unread"
      BY DEF SagaTypeOK
    <2>2. \A n \in Message : n /= m => StageOf(n)' = StageOf(n)
      BY DEF SagaTypeOK
    <2> QED BY <2>1, <2>2 DEF Life!Send
  <1>2. ASSUME NEW r \in Request, NEW m \in Message, Insert(r, m)
        PROVE  Life!Save(m)
    <2> USE <1>2 DEF Insert
    <2>1. \/ StageOf(m) = "unread" /\ StageOf(m)' = "both"
          \/ StageOf(m) = "gone" /\ StageOf(m)' = "read"
      BY DEF SagaTypeOK
    <2>2. \A n \in Message : n /= m => StageOf(n)' = StageOf(n)
      BY DEF SagaTypeOK
    <2> QED BY <2>1, <2>2 DEF Life!Save, Life!Saved
  <1>3. ASSUME NEW r \in Request, dialog_messages_remove(r)
        PROVE  Life!Remove(ids[r] \cap unread)
    <2> USE <1>3 DEF dialog_messages_remove, DeleteCommits
    <2>1. ASSUME NEW m \in ids[r] \cap unread
          PROVE  /\ StageOf(m) = "both" \/ (lossy /\ StageOf(m) = "unread")
                 /\ StageOf(m)' = IF StageOf(m) = "both" THEN "read" ELSE "gone"
      <3>1. Serial => m \in read
        BY DEF Accounted, Stages, Serial, SagaTypeOK, GatewayState
      <3> QED BY <3>1 DEF SagaTypeOK, Serial
    <2>2. ASSUME NEW m \in Message, m \notin ids[r] \cap unread
          PROVE  StageOf(m)' = StageOf(m)
      BY <2>2 DEF SagaTypeOK
    <2> QED BY <2>1, <2>2 DEF Life!Remove, SagaTypeOK
  <1>4. UNCHANGED <<sent, unread, read>> => UNCHANGED stage
    OBVIOUS
  <1>5. ASSUME NEW r \in Request
        PROVE  ids[r] \cap unread \in SUBSET Message
    BY DEF SagaTypeOK
  <1>6. ASSUME NEW r \in Request
        PROVE  /\ GatewayStep(r) => \/ dialog_messages_remove(r)
                                   \/ UNCHANGED <<sent, unread, read>>
               /\ ServiceStep(r) => \/ \E m \in Message : Insert(r, m)
                                   \/ UNCHANGED <<sent, unread, read>>
               /\ LateRemove(r) => dialog_messages_remove(r)
               /\ Crash(r) => UNCHANGED <<sent, unread, read>>
               /\ \A S \in SUBSET Message :
                    dialog_mark_as_read(r, S) => UNCHANGED <<sent, unread, read>>
    BY DEF GatewayStep, ServiceStep, Crash, Proceed, dialog_mark_as_read,
           dialog_messages_get_by_ids, GetFails, PostMessages, PostRefused, PostAnswered,
           PostAnsweredByProxy, ConnectionLost, RemoveFails, RemoveAnsweredByProxy, LateRemove,
           GatewayStops, InsertFails, AllSaved, ServiceDies
  <1>7. CASE UNCHANGED sagaVars
    BY <1>4, <1>7 DEF sagaVars
  <1>8. CASE SagaNext
    <2> HIDE DEF StageOf, stage, lossy, SagaIInv, SInv
    <2>1. CASE \E m \in Message : dialog_send(m)
      BY <2>1, <1>1 DEF Life!Next
    <2>2. CASE \E r \in Request, m \in Message : Insert(r, m)
      BY <2>2, <1>2 DEF Life!Next
    <2>3. CASE \E r \in Request : dialog_messages_remove(r)
      BY <2>3, <1>3, <1>5 DEF Life!Next
    <2>4. CASE UNCHANGED <<sent, unread, read>>
      BY <2>4, <1>4 DEF stage
    <2> QED BY <1>6, <1>8, <2>1, <2>2, <2>3, <2>4 DEF SagaNext
  <1> QED BY <1>7, <1>8

\* Every behaviour of the saga is one of MessageLifecycle, with the stage
\* "gone" only if calls overlap or something fails after the fetch.
THEOREM SagaRefinement == SagaSpec => ImplementsLifecycle
  <1>1. SagaSpec => [](~Serial \/ SInv)
    <2>1. CASE Serial
      <3>1. SagaInit => SInv
        BY InitSInv
      <3>2. SInv /\ [SagaNext]_sagaVars => SInv'
        BY <2>1, NextSInv
      <3>3. SInv => ~Serial \/ SInv
        OBVIOUS
      <3> QED BY <3>1, <3>2, <3>3, PTL DEF SagaSpec
    <2>2. CASE ~Serial
      <3>1. SagaInit => ~Serial \/ SInv
        BY <2>2
      <3>2. [SagaNext]_sagaVars => (~Serial \/ SInv)'
        BY <2>2 DEF Serial
      <3> QED BY <3>1, <3>2, PTL DEF SagaSpec
    <2> QED BY <2>1, <2>2
  <1>2. SagaInit => Life!Init
    BY InitRefines
  <1>3. SagaIInv /\ SagaIInv' /\ (~Serial \/ SInv) /\ [SagaNext]_sagaVars
            => [Life!Next]_([m \in Message |-> StageOf(m)])
    BY StepRefines
  <1> QED BY <1>1, <1>2, <1>3, SagaInvariance, PTL DEF SagaSpec, ImplementsLifecycle, Life!Spec

HIDE DEF SagaIInv, SInv, StageOf, Missing

-----------------------------------------------------------------------------
(***************************************************************************)
(* The feeds.                                                              *)
(***************************************************************************)

USE FeedAssumption

-----------------------------------------------------------------------------
(* What a statement with a WHERE leaves of a table.                         *)

Rank(K, i) == Cardinality({j \in K : j <= i})

\* The rank of a chosen index goes through 1..Cardinality(chosen): each element of
\* Selected is a chosen one, and each chosen one is in it.
LEMMA Ranked ==
  ASSUME NEW n \in Nat, NEW K \in SUBSET (1..n)
  PROVE  /\ IsFiniteSet(K) /\ Cardinality(K) \in Nat
         /\ \A k \in 1..Cardinality(K) : \E i \in K : Rank(K, i) = k
         /\ \A i \in K : Rank(K, i) \in 1..Cardinality(K)
         /\ \A i, m \in K : Rank(K, i) = Rank(K, m) => i = m
  <1> DEFINE c == Cardinality(K)
             Upto(i) == {j \in K : j <= i}
             rank == [i \in K |-> Cardinality(Upto(i))]
  <1>1. IsFiniteSet(K) /\ c \in Nat
    <2>1. IsFiniteSet(1..n)
      BY FS_Interval
    <2> QED BY <2>1, FS_Subset, FS_CardinalityType
  <1>2. ASSUME NEW i \in K
        PROVE  /\ IsFiniteSet(Upto(i)) /\ Cardinality(Upto(i)) \in 1..c
    <2>1. Upto(i) \in SUBSET K /\ i \in Upto(i)
      OBVIOUS
    <2>2. IsFiniteSet(Upto(i)) /\ Cardinality(Upto(i)) <= c
      BY <1>1, <2>1, FS_Subset
    <2>3. Cardinality(Upto(i)) \in Nat /\ Cardinality(Upto(i)) # 0
      BY <2>1, <2>2, FS_CardinalityType, FS_EmptySet
    <2> QED BY <1>1, <2>2, <2>3
  <1>3. ASSUME NEW i \in K, NEW m \in K, i < m
        PROVE  Cardinality(Upto(i)) # Cardinality(Upto(m))
    <2>4. \A j \in K : j \in Int
      OBVIOUS
    <2>5. \A j \in K : j <= i => j <= m
      BY <1>3, <2>4
    <2>6. ~(m <= i) /\ m <= m
      BY <1>3, <2>4
    <2>1. Upto(i) \in SUBSET Upto(m) /\ m \in Upto(m) /\ m \notin Upto(i)
      BY <2>5, <2>6
    <2>2. Upto(i) # Upto(m)
      BY <2>1
    <2>3. IsFiniteSet(Upto(m))
      BY <1>2
    <2> HIDE DEF Upto
    <2> QED BY <2>1, <2>2, <2>3, FS_Subset
  <1>4. rank \in [K -> 1..c]
    BY <1>2
  <1>5. \A i, m \in K : rank[i] = rank[m] => i = m
    <2> SUFFICES ASSUME NEW i \in K, NEW m \in K, i # m
                 PROVE  rank[i] # rank[m]
      OBVIOUS
    <2>1. i < m \/ m < i
      OBVIOUS
    <2> QED BY <1>3, <2>1
  <1>6. rank \in Injection(K, 1..c)
    BY <1>4, <1>5 DEF Injection, IsInjective
  <1>7. IsFiniteSet(1..c) /\ Cardinality(1..c) = c
    BY <1>1, FS_Interval
  <1>8. rank \in Surjection(K, 1..c)
    BY <1>6, <1>7, FS_Injection
  <1>9. \A k \in 1..c : \E i \in K : rank[i] = k
    BY <1>8 DEF Surjection
  <1>10. \A i \in K : rank[i] = Rank(K, i)
    BY DEF Rank
  <1> HIDE DEF rank
  <1> QED BY <1>1, <1>4, <1>5, <1>9, <1>10

LEMMA SelectedFacts ==
  ASSUME NEW S, NEW s \in Seq(S), NEW K \in SUBSET (DOMAIN s)
  PROVE  /\ Selected(s, K) \in Seq(S)
         /\ \A k \in DOMAIN Selected(s, K) : \E i \in K : Selected(s, K)[k] = s[i]
         /\ \A i \in K : \E k \in DOMAIN Selected(s, K) : Selected(s, K)[k] = s[i]
         /\ (\A i, j \in K : s[i] = s[j] => i = j) =>
                \A k, m \in DOMAIN Selected(s, K) : Selected(s, K)[k] = Selected(s, K)[m] => k = m
  <1> DEFINE c == Cardinality(K)
             At(k) == CHOOSE i \in K : Rank(K, i) = k
  <1>1. Len(s) \in Nat /\ DOMAIN s = 1..Len(s) /\ \A i \in DOMAIN s : s[i] \in S
    BY LenProperties, ElementOfSeq
  <1>2. /\ c \in Nat
        /\ \A k \in 1..c : \E i \in K : Rank(K, i) = k
        /\ \A i \in K : Rank(K, i) \in 1..c
        /\ \A i, m \in K : Rank(K, i) = Rank(K, m) => i = m
    <2>1. K \in SUBSET (1..Len(s))
      BY <1>1
    <2> QED BY <1>1, <2>1, Ranked
  <1>3. \A k \in 1..c : At(k) \in K /\ Rank(K, At(k)) = k
    <2> SUFFICES ASSUME NEW k \in 1..c
                 PROVE  At(k) \in K /\ Rank(K, At(k)) = k
      OBVIOUS
    <2>1. \E i \in K : Rank(K, i) = k
      BY <1>2
    <2> HIDE DEF c
    <2> QED BY <2>1
  <1>4. Selected(s, K) = [k \in 1..c |-> s[At(k)]]
    BY DEF Selected, Rank
  <1>5. \A i \in K : At(Rank(K, i)) = i
    <2> SUFFICES ASSUME NEW i \in K, At(Rank(K, i)) # i
                 PROVE  FALSE
      OBVIOUS
    <2> DEFINE m == At(Rank(K, i))
    <2>1. m \in K /\ Rank(K, m) = Rank(K, i)
      BY <1>2, <1>3
    <2> QED BY <1>2, <2>1
  <1> HIDE DEF c, At
  <1>6. Selected(s, K) \in [1..c -> S] /\ DOMAIN Selected(s, K) = 1..c
    BY <1>1, <1>3, <1>4
  <1>7. Selected(s, K) \in Seq(S)
    BY <1>2, <1>6, SeqDef
  <1>8. \A k \in 1..c : At(k) \in K /\ Selected(s, K)[k] = s[At(k)]
    BY <1>3, <1>4
  <1>9. \A i \in K : Rank(K, i) \in 1..c /\ Selected(s, K)[Rank(K, i)] = s[i]
    BY <1>2, <1>5, <1>8
  <1>10. ASSUME \A i, j \in K : s[i] = s[j] => i = j, NEW k \in 1..c, NEW m \in 1..c, s[At(k)] = s[At(m)]
         PROVE  k = m
    <2>1. At(k) = At(m)
      BY <1>3, <1>10
    <2> QED BY <1>3, <2>1
  <1> QED BY <1>6, <1>7, <1>8, <1>9, <1>10

Unique(rows) == \A i, j \in DOMAIN rows : rows[i].post = rows[j].post => i = j

LEMMA OthersFacts ==
  ASSUME posts \in Seq(Row), NEW p \in Post
  PROVE  /\ Others(p) \in Seq(Row)
         /\ Range(Others(p)) = {row \in Range(posts) : row.post # p}
         /\ Unique(posts) => Unique(Others(p))
  <1> DEFINE K == {i \in DOMAIN posts : posts[i].post /= p}
  <1>1. K \in SUBSET (DOMAIN posts) /\ Others(p) = Selected(posts, K)
    BY DEF Others
  <1>5. \A i \in DOMAIN posts : i \in K <=> posts[i].post # p
    OBVIOUS
  <1> HIDE DEF K
  <1>6. /\ Selected(posts, K) \in Seq(Row)
        /\ \A k \in DOMAIN Selected(posts, K) : \E i \in K : Selected(posts, K)[k] = posts[i]
        /\ \A i \in K : \E k \in DOMAIN Selected(posts, K) : Selected(posts, K)[k] = posts[i]
        /\ (\A i, j \in K : posts[i] = posts[j] => i = j) =>
                \A k, m \in DOMAIN Selected(posts, K) : Selected(posts, K)[k] = Selected(posts, K)[m] => k = m
    BY <1>1, SelectedFacts
  <1>2. /\ Others(p) \in Seq(Row)
        /\ \A k \in DOMAIN Others(p) : \E i \in K : Others(p)[k] = posts[i]
        /\ \A i \in K : \E k \in DOMAIN Others(p) : Others(p)[k] = posts[i]
        /\ (\A i, j \in K : posts[i] = posts[j] => i = j) =>
                \A k, m \in DOMAIN Others(p) : Others(p)[k] = Others(p)[m] => k = m
    BY <1>1, <1>6
  <1>3. Range(Others(p)) = {row \in Range(posts) : row.post # p}
    <2>1. ASSUME NEW row \in Range(Others(p))
          PROVE  row \in Range(posts) /\ row.post # p
      <3>1. PICK k \in DOMAIN Others(p) : row = Others(p)[k]
        BY DEF Range
      <3>2. PICK i \in K : Others(p)[k] = posts[i]
        BY <1>2
      <3> QED BY <1>1, <1>5, <3>1, <3>2 DEF Range
    <2>2. ASSUME NEW row \in Range(posts), row.post # p
          PROVE  row \in Range(Others(p))
      <3>1. PICK i \in DOMAIN posts : row = posts[i]
        BY DEF Range
      <3>2. i \in K
        BY <1>5, <2>2, <3>1
      <3>3. PICK k \in DOMAIN Others(p) : Others(p)[k] = posts[i]
        BY <1>2, <3>2
      <3> QED BY <3>1, <3>3 DEF Range
    <2> QED BY <2>1, <2>2
  <1>4. ASSUME Unique(posts)
        PROVE  Unique(Others(p))
    <2>1. \A i, j \in K : posts[i] = posts[j] => i = j
      BY <1>1, <1>4 DEF Unique
    <2>2. ASSUME NEW k \in DOMAIN Others(p), NEW m \in DOMAIN Others(p), Others(p)[k].post = Others(p)[m].post
          PROVE  k = m
      <3>1. PICK i \in K, j \in K : Others(p)[k] = posts[i] /\ Others(p)[m] = posts[j]
        BY <1>2
      <3>2. i = j
        BY <1>1, <1>4, <2>2, <3>1 DEF Unique
      <3> QED BY <1>2, <2>1, <3>1, <3>2
    <2> QED BY <2>2 DEF Unique
  <1> QED BY <1>2, <1>3, <1>4

\* get_feed selects posts of friends only, and each as it is on the replica.
LEMMA QueryFacts ==
  ASSUME replica \in Seq(Row), NEW u \in User
  PROVE  /\ FeedQuery(u) \in Seq(Row)
         /\ \A k \in DOMAIN FeedQuery(u) : <<u, Author[FeedQuery(u)[k].post]>> \in Follows
  <1> DEFINE friends == IF FriendsInPostgres THEN {f \in User : <<u, f>> \in Follows} ELSE {}
             K == {i \in DOMAIN replica : Author[replica[i].post] \in friends}
             rows == Selected(replica, K)
             len == IF Len(rows) < FeedLength THEN Len(rows) ELSE FeedLength
             latest == SubSeq(rows, 1, len)
             first == {i \in DOMAIN latest : i = 1 \/ Author[latest[i].post] /= Author[latest[i - 1].post]}
  <1>1. /\ rows \in Seq(Row)
        /\ \A k \in DOMAIN rows : \E i \in K : rows[k] = replica[i]
    <2>1. K \in SUBSET (DOMAIN replica)
      OBVIOUS
    <2> QED BY <2>1, SelectedFacts
  <1>2. \A k \in DOMAIN rows : Author[rows[k].post] \in friends
    BY <1>1
  <1>3. \A f \in friends : <<u, f>> \in Follows
    OBVIOUS
  <1> HIDE DEF friends, rows
  <1>4. /\ Len(rows) \in Nat /\ DOMAIN rows = 1..Len(rows)
        /\ len \in Nat /\ len <= Len(rows) /\ \A i \in 1..len : rows[i] \in Row
    BY <1>1, LenProperties, ElementOfSeq
  <1>5. /\ latest \in Seq(Row) /\ Len(latest) = len
        /\ \A k \in 1..len : latest[k] = rows[k]
    <2>1. /\ SubSeq(rows, 1, len) \in Seq(Row)
          /\ Len(SubSeq(rows, 1, len)) = IF 1 <= len THEN len - 1 + 1 ELSE 0
          /\ \A i \in 1..(len - 1 + 1) : SubSeq(rows, 1, len)[i] = rows[1 + i - 1]
      BY <1>4, SubSeqProperties
    <2> QED BY <1>4, <2>1
  <1> HIDE DEF len
  <1>6. DOMAIN latest = 1..len /\ \A k \in DOMAIN latest : Author[latest[k].post] \in friends
    BY <1>2, <1>4, <1>5, LenProperties
  <1> HIDE DEF latest
  <1>7. /\ DedupByUser(latest) \in Seq(Row)
        /\ \A k \in DOMAIN DedupByUser(latest) : \E i \in first : DedupByUser(latest)[k] = latest[i]
    <2>1. first \in SUBSET (DOMAIN latest) /\ DedupByUser(latest) = Selected(latest, first)
      BY DEF DedupByUser
    <2> HIDE DEF first
    <2>2. /\ Selected(latest, first) \in Seq(Row)
          /\ \A k \in DOMAIN Selected(latest, first) : \E i \in first : Selected(latest, first)[k] = latest[i]
      BY <1>5, <2>1, SelectedFacts
    <2> QED BY <2>1, <2>2
  <1>8. \A k \in DOMAIN DedupByUser(latest) : Author[DedupByUser(latest)[k].post] \in friends
    BY <1>6, <1>7
  <1>9. FeedQuery(u) = IF OnePostPerUser THEN DedupByUser(latest) ELSE latest
    BY DEF FeedQuery, latest, len, rows, friends
  <1> QED BY <1>3, <1>5, <1>6, <1>7, <1>8, <1>9

\* The ends of a sequence that is not empty.
LEMMA Ends ==
  ASSUME NEW S, NEW s \in Seq(S), s # <<>>
  PROVE  /\ Len(s) \in Nat \ {0} /\ DOMAIN s = 1..Len(s)
         /\ Head(s) = s[1] /\ Head(s) \in S /\ Tail(s) \in Seq(S)
         /\ DOMAIN Tail(s) = 1..(Len(s) - 1)
         /\ \A k \in 1..(Len(s) - 1) : Tail(s)[k] = s[k + 1]
  <1>1. Len(s) \in Nat /\ DOMAIN s = 1..Len(s)
    BY LenProperties
  <1>2. Len(s) # 0
    BY EmptySeq
  <1>3. /\ Head(s) \in S /\ Tail(s) \in Seq(S) /\ Len(Tail(s)) = Len(s) - 1
        /\ \A i \in 1..Len(Tail(s)) : Tail(s)[i] = s[i + 1]
    BY HeadTailProperties
  <1>4. Head(s) = s[1]
    OBVIOUS
  <1> QED BY <1>1, <1>2, <1>3, <1>4, LenProperties

-----------------------------------------------------------------------------
(* The inductive invariant.                                                 *)

FanState == [pc : {"fan"}, todo : SUBSET User]
TrimState == [pc : {"trim"}, todo : SUBSET User, at : User]
ConsumerState == {Idle, [pc |-> "gone"]} \union FanState \union TrimState
ReadState == [pc : {"update", "delete"}, post : Post]
PublishState == [pc : {"publish"}, event : Event]
WriterState == {Idle} \union ReadState \union PublishState
SelectState == [pc : {"select"}, user : User]
PushState == [pc : {"push"}, user : User, rows : Seq(Row)]
ReaderState == {Idle} \union SelectState \union PushState

\* Rows are never inserted twice.
Tables ==
    /\ posts \in Seq(Row) /\ Unique(posts)
    /\ \A row \in Rows : row.post \in used
    /\ used \subseteq Post
    /\ wal \in Seq(Seq(Row)) /\ replica \in Seq(Row)

\* u reads posts of p's author.
Reads(u, p) == <<u, Author[p]>> \in Follows

\* A list holds posts of friends only: those to whom the consumer will come.
Lists ==
    /\ feed \in [User -> Seq(Entry)]
    /\ \A u \in User : \A i \in DOMAIN feed[u] : Reads(u, feed[u][i].id[2])

Events == queue \in Seq(Event) /\ unacked \in Seq(Event)

\* The event that the consumer is busy with is at the head of the queue.
Consuming ==
    /\ consumer \in ConsumerState
    /\ consumer.pc \in {"fan", "trim"} =>
        /\ queue # <<>>
        /\ consumer.todo \subseteq Followers(Author[Head(queue).post])
    /\ consumer.pc = "trim" => Head(queue).kind = "CREATED"

Handlers ==
    /\ writer \in [Writer -> WriterState]
    /\ reader \in [Reader -> ReaderState]
    /\ \A r \in Reader : reader[r].pc = "push" =>
            \A k \in DOMAIN reader[r].rows : Reads(reader[r].user, reader[r].rows[k].post)
    /\ lost \subseteq Post

IInv == Tables /\ Lists /\ Events /\ Consuming /\ Handlers /\ CurrentUntilInvalidated

LEMMA IInvPrime ==
  ASSUME Tables', Lists', Events', Consuming', Handlers', CurrentUntilInvalidated'
  PROVE  IInv'
  BY DEF IInv

LEMMA TypesCorrect == IInv => TypeOK
  BY DEF IInv, Tables, Lists, Events, Consuming, Handlers, TypeOK, Unique, ConsumerState, FanState,
         TrimState, WriterState, ReadState, PublishState, ReaderState, SelectState, PushState

\* Which state a record is in is told by its pc.
LEMMA ConsumerStates ==
  ASSUME NEW c \in ConsumerState
  PROVE  /\ c.pc = "idle" <=> c = Idle
         /\ c.pc = "fan" => c \in FanState /\ c.todo \subseteq User
         /\ c.pc = "trim" => c \in TrimState /\ c.todo \subseteq User /\ c.at \in User
         /\ c.pc \in {"idle", "gone", "fan", "trim"}
  BY DEF ConsumerState, FanState, TrimState, Idle

LEMMA WriterStates ==
  ASSUME NEW w \in WriterState
  PROVE  /\ w.pc = "idle" <=> w = Idle
         /\ w.pc \in {"update", "delete"} => w.post \in Post
         /\ w.pc = "publish" => w.event \in Event
         /\ w.pc \in {"idle", "update", "delete", "publish"}
  BY DEF WriterState, ReadState, PublishState, Idle

LEMMA ReaderStates ==
  ASSUME NEW r \in ReaderState
  PROVE  /\ r.pc = "idle" <=> r = Idle
         /\ r.pc = "select" => r.user \in User
         /\ r.pc = "push" => r \in PushState /\ r.user \in User /\ r.rows \in Seq(Row)
         /\ r.pc \in {"idle", "select", "push"}
  BY DEF ReaderState, SelectState, PushState, Idle

LEMMA EntryTypes ==
  /\ \A e \in Entry : e.id[2] \in Post /\ e.ver \in 1..MaxVersion /\ e.current \in BOOLEAN
  /\ \A row \in Row : row.post \in Post /\ row.ver \in 1..MaxVersion
  /\ \A event \in Event : event.kind \in {"CREATED", "UPDATED", "DELETED"} /\ event.post \in Post
  /\ \A p \in Post : Author[p] \in User
  BY DEF Entry, Id, Row, Event

-----------------------------------------------------------------------------
(* How the invalidations stay on their way.                                 *)

\* e is in the list of u.
In(u, e) == \E i \in DOMAIN feed[u] : feed[u][i] = e

Current ==
    \A u \in User, e \in Entry :
        In(u, e) /\ e.current /\ Stale(e) => Pending(u, e.id[2]) \/ e.id[2] \in lost

LEMMA CurrentByEntry == Lists => (CurrentUntilInvalidated <=> Current)
  <1> SUFFICES ASSUME Lists
               PROVE  CurrentUntilInvalidated <=> Current
    OBVIOUS
  <1>1. \A u \in User : \A i \in DOMAIN feed[u] : feed[u][i] \in Entry
    <2> SUFFICES ASSUME NEW u \in User, NEW i \in DOMAIN feed[u]
                 PROVE  feed[u][i] \in Entry
      OBVIOUS
    <2>1. feed[u] \in Seq(Entry)
      BY DEF Lists
    <2> QED BY <2>1, LenProperties, ElementOfSeq
  <1> QED BY <1>1 DEF CurrentUntilInvalidated, Current, In

\* What a step has to do for the lists: what it adds is current, what it makes stale it
\* puts on its way, and nothing that is on its way gets lost on it.
LEMMA StaysCurrent ==
  ASSUME Lists, Lists', CurrentUntilInvalidated,
         \A u \in User, e \in Entry : In(u, e)' => In(u, e) \/ (e.current => ~Stale(e)'),
         \A e \in Entry : Stale(e)' => Stale(e) \/ \A u \in User : Pending(u, e.id[2])',
         \A u \in User, p \in Post :
            Reads(u, p) /\ feed'[u] # <<>> /\ Pending(u, p) => Pending(u, p)' \/ p \in lost',
         lost \subseteq lost'
  PROVE  CurrentUntilInvalidated'
  <1> SUFFICES ASSUME NEW u \in User, NEW e \in Entry, In(u, e)', e.current, Stale(e)'
               PROVE  Pending(u, e.id[2])' \/ e.id[2] \in lost'
    <2>1. Lists' => (CurrentUntilInvalidated' <=> Current')
      BY CurrentByEntry, PTL
    <2> QED BY <2>1 DEF Current
  <1>1. In(u, e) /\ e.id[2] \in Post
    BY EntryTypes
  <1>2. CASE ~Stale(e)
    BY <1>2
  <1>3. CASE Stale(e)
    <2>1. Pending(u, e.id[2]) \/ e.id[2] \in lost
      BY <1>1, <1>3, CurrentByEntry DEF Current
    <2>2. Reads(u, e.id[2])
      BY <1>1 DEF In, Lists
    <2>3. feed'[u] # <<>>
      BY DEF In
    <2> QED BY <1>1, <2>1, <2>2, <2>3
  <1> QED BY <1>2, <1>3

-----------------------------------------------------------------------------
(* The post handlers.                                                       *)

LEMMA CommitFacts ==
  ASSUME Tables, NEW table \in Seq(Row), Unique(table), Commit(table),
         used' \subseteq Post, \A row \in Range(table) : row.post \in used'
  PROVE  Tables' /\ Rows' = Range(table)
  <1>1. posts' = table
    BY DEF Commit
  <1>2. wal' \in Seq(Seq(Row)) /\ replica' \in Seq(Row)
    <2>1. CASE Lag
      <3>1. wal' = Append(wal, table) /\ replica' = replica
        BY <2>1 DEF Commit
      <3>2. Append(wal, table) \in Seq(Seq(Row))
        BY AppendProperties DEF Tables
      <3> QED BY <3>1, <3>2 DEF Tables
    <2>2. CASE ~Lag
      BY <2>2 DEF Commit, Tables
    <2> QED BY <2>1, <2>2
  <1> QED BY <1>1, <1>2 DEF Tables, Rows

LEMMA PrependFacts ==
  ASSUME NEW row \in Row, NEW rows \in Seq(Row)
  PROVE  /\ <<row>> \o rows \in Seq(Row)
         /\ Range(<<row>> \o rows) = {row} \union Range(rows)
         /\ Unique(rows) /\ (\A r \in Range(rows) : r.post # row.post) => Unique(<<row>> \o rows)
  <1> DEFINE all == <<row>> \o rows
  <1>1. /\ all \in Seq(Row) /\ Len(all) = 1 + Len(rows) /\ Len(rows) \in Nat
        /\ \A i \in 1..(1 + Len(rows)) : all[i] = IF i <= 1 THEN row ELSE rows[i - 1]
    <2>1. <<row>> \in Seq(Row) /\ Len(<<row>>) = 1 /\ <<row>>[1] = row
      OBVIOUS
    <2> QED BY <2>1, ConcatProperties, LenProperties
  <1> HIDE DEF all
  <1>2. DOMAIN all = 1..(1 + Len(rows)) /\ DOMAIN rows = 1..Len(rows)
    BY <1>1, LenProperties
  <1>3. Range(all) = {row} \union Range(rows)
    <2>1. ASSUME NEW x \in Range(all)
          PROVE  x \in {row} \union Range(rows)
      <3>1. PICK i \in 1..(1 + Len(rows)) : x = all[i]
        BY <1>2 DEF Range
      <3>2. CASE i = 1
        BY <1>1, <3>1, <3>2
      <3>3. CASE i # 1
        <4>1. i - 1 \in DOMAIN rows /\ x = rows[i - 1]
          BY <1>1, <1>2, <3>1, <3>3
        <4> QED BY <4>1 DEF Range
      <3> QED BY <3>2, <3>3
    <2>2. all[1] = row /\ 1 \in DOMAIN all
      BY <1>1, <1>2
    <2>3. ASSUME NEW i \in DOMAIN rows
          PROVE  i + 1 \in DOMAIN all /\ all[i + 1] = rows[i]
      BY <1>1, <1>2
    <2>4. ASSUME NEW x \in Range(rows)
          PROVE  x \in Range(all)
      <3>1. PICK i \in DOMAIN rows : x = rows[i]
        BY DEF Range
      <3> QED BY <2>3, <3>1 DEF Range
    <2> QED BY <2>1, <2>2, <2>4 DEF Range
  <1>4. ASSUME Unique(rows), \A r \in Range(rows) : r.post # row.post,
               NEW i \in DOMAIN all, NEW j \in DOMAIN all, all[i].post = all[j].post
        PROVE  i = j
    <2>1. \A m \in DOMAIN all \ {1} : m - 1 \in DOMAIN rows /\ all[m] = rows[m - 1]
      BY <1>1, <1>2
    <2>2. all[1] = row
      BY <1>1
    <2>3. CASE i = 1
      BY <1>4, <2>1, <2>2, <2>3 DEF Range
    <2>4. CASE j = 1
      BY <1>4, <2>1, <2>2, <2>4 DEF Range
    <2>5. CASE i # 1 /\ j # 1
      <3>1. i - 1 = j - 1
        BY <1>4, <2>1, <2>5 DEF Unique
      <3> QED BY <1>1, <1>2, <3>1
    <2> QED BY <2>3, <2>4, <2>5
  <1> QED BY <1>1, <1>3, <1>4 DEF all, Unique

\* A handler changes its state; of what it publishes nothing is lost.
LEMMA WriterPending ==
  ASSUME Handlers, NEW w \in Writer, NEW s, writer' = [writer EXCEPT ![w] = s],
         writer[w].pc # "publish", UNCHANGED <<queue, unacked, consumer>>
  PROVE  /\ \A u \in User, p \in Post : Pending(u, p) => Pending(u, p)'
         /\ \A p \in Post : s.pc = "publish" /\ Invalidates(s.event, p) => \A u \in User : Pending(u, p)'
  <1>1. writer'[w] = s /\ \A v \in Writer \ {w} : writer'[v] = writer[v]
    BY DEF Handlers
  <1> QED BY <1>1 DEF Pending, Invalidates

LEMMA CreateKeeps == IInv /\ (\E w \in Writer, p \in Post : post_create(w, p)) => IInv'
  <1> SUFFICES ASSUME IInv, NEW w \in Writer, NEW p \in Post, post_create(w, p)
               PROVE  IInv'
    OBVIOUS
  <1>1. Tables /\ Lists /\ Events /\ Consuming /\ Handlers /\ CurrentUntilInvalidated
    BY DEF IInv
  <1>2. /\ writer[w] = Idle /\ p \notin used /\ used' = used \union {p}
        /\ Commit(<<[post |-> p, ver |-> 1]>> \o posts)
        /\ writer' = [writer EXCEPT ![w] = Publishing("CREATED", p)]
        /\ UNCHANGED <<feed, queue, unacked, consumer, reader, lost>>
    BY DEF post_create
  <1> DEFINE row == [post |-> p, ver |-> 1]
  <1>3. row \in Row /\ row.post = p
    BY DEF Row
  <1>4. \A r \in Rows : r.post # p
    BY <1>1, <1>2 DEF Tables
  <1>5. Tables' /\ Rows' = {row} \union Rows
    <2>1. /\ <<row>> \o posts \in Seq(Row) /\ Range(<<row>> \o posts) = {row} \union Rows
          /\ Unique(<<row>> \o posts)
      BY <1>1, <1>3, <1>4, PrependFacts DEF Tables, Rows
    <2> QED BY <1>1, <1>2, <1>3, <2>1, CommitFacts DEF Tables
  <1>6. Lists' /\ Events' /\ Consuming'
    BY <1>1, <1>2 DEF Lists, Reads, Events, Consuming
  <1>7. Handlers'
    <2>1. Publishing("CREATED", p) \in WriterState
      BY DEF Publishing, WriterState, PublishState, Event
    <2> QED BY <1>1, <1>2, <2>1 DEF Handlers, Reads
  <1>8. \A u \in User, q \in Post : Pending(u, q) => Pending(u, q)'
    <2>1. writer[w].pc # "publish"
      BY <1>2 DEF Idle
    <2> QED BY <1>1, <1>2, <2>1, WriterPending
  <1>9. CurrentUntilInvalidated'
    <2>1. \A e \in Entry : Stale(e)' => Stale(e)
      BY <1>5 DEF Stale, IsCurrent
    <2>2. \A u \in User, e \in Entry : In(u, e)' => In(u, e)
      BY <1>2 DEF In
    <2> QED BY <1>1, <1>2, <1>6, <1>8, <2>1, <2>2, StaysCurrent
  <1> QED BY <1>5, <1>6, <1>7, <1>9, IInvPrime

LEMMA ReadKeeps == IInv /\ (\E w \in Writer, p \in Post : ReadPost(w, p, "update") \/ ReadPost(w, p, "delete")) => IInv'
  <1> SUFFICES ASSUME IInv, NEW w \in Writer, NEW p \in Post, NEW pc \in {"update", "delete"}, ReadPost(w, p, pc)
               PROVE  IInv'
    OBVIOUS
  <1>1. Tables /\ Lists /\ Events /\ Consuming /\ Handlers /\ CurrentUntilInvalidated
    BY DEF IInv
  <1>2. /\ writer[w] = Idle /\ writer' = [writer EXCEPT ![w] = [pc |-> pc, post |-> p]]
        /\ UNCHANGED <<posts, used, wal, replica, feed, queue, unacked, consumer, reader, lost>>
    BY DEF ReadPost
  <1>3. Tables' /\ Lists' /\ Events' /\ Consuming'
    BY <1>1, <1>2 DEF Tables, Rows, Lists, Reads, Events, Consuming
  <1>4. Handlers'
    <2>1. [pc |-> pc, post |-> p] \in WriterState
      BY DEF WriterState, ReadState
    <2> QED BY <1>1, <1>2, <2>1 DEF Handlers, Reads
  <1>5. CurrentUntilInvalidated'
    <2>1. writer[w].pc # "publish"
      BY <1>2 DEF Idle
    <2>2. \A u \in User, q \in Post : Pending(u, q) => Pending(u, q)'
      BY <1>1, <1>2, <2>1, WriterPending
    <2>3. \A u \in User, e \in Entry : In(u, e)' => In(u, e)
      BY <1>2 DEF In
    <2>4. \A e \in Entry : Stale(e)' => Stale(e)
      BY <1>2 DEF Stale, IsCurrent, Rows
    <2> QED BY <1>1, <1>2, <1>3, <2>2, <2>3, <2>4, StaysCurrent
  <1> QED BY <1>3, <1>4, <1>5, IInvPrime

\* A statement that changes or removes only rows of p, and whose handler publishes it.
LEMMA InvalidationKeeps ==
  ASSUME IInv, NEW w \in Writer, NEW p \in Post, NEW kind \in {"UPDATED", "DELETED"},
         writer[w].pc # "publish", writer' = [writer EXCEPT ![w] = Publishing(kind, p)],
         Tables', \A row \in Rows : row.post # p => row \in Rows',
         UNCHANGED <<used, feed, queue, unacked, consumer, reader, lost>>
  PROVE  IInv'
  <1>1. Tables /\ Lists /\ Events /\ Consuming /\ Handlers /\ CurrentUntilInvalidated
    BY DEF IInv
  <1>2. Lists' /\ Events' /\ Consuming'
    BY <1>1 DEF Lists, Reads, Events, Consuming
  <1>3. Handlers'
    <2>1. Publishing(kind, p) \in WriterState
      BY DEF Publishing, WriterState, PublishState, Event
    <2> QED BY <1>1, <2>1 DEF Handlers, Reads
  <1>4. /\ \A u \in User, q \in Post : Pending(u, q) => Pending(u, q)'
        /\ \A u \in User : Pending(u, p)'
    <2>1. Publishing(kind, p).pc = "publish" /\ Invalidates(Publishing(kind, p).event, p)
      BY DEF Publishing, Invalidates
    <2> QED BY <1>1, <2>1, WriterPending
  <1>5. \A e \in Entry : Stale(e)' => Stale(e) \/ \A u \in User : Pending(u, e.id[2])'
    <2> SUFFICES ASSUME NEW e \in Entry, Stale(e)', ~Stale(e)
                 PROVE  e.id[2] = p
      BY <1>4
    <2>1. [post |-> e.id[2], ver |-> e.ver] \in Rows /\ [post |-> e.id[2], ver |-> e.ver] \notin Rows'
      BY DEF Stale, IsCurrent
    <2> QED BY <2>1
  <1>6. \A u \in User, e \in Entry : In(u, e)' => In(u, e)
    BY DEF In
  <1>7. CurrentUntilInvalidated'
    BY <1>1, <1>2, <1>4, <1>5, <1>6, StaysCurrent
  <1> QED BY <1>2, <1>3, <1>7, IInvPrime

LEMMA UpdateKeeps == IInv /\ (\E w \in Writer : post_update(w)) => IInv'
  <1> SUFFICES ASSUME IInv, NEW w \in Writer, post_update(w)
               PROVE  IInv'
    OBVIOUS
  <1> DEFINE p == writer[w].post
             current == {row \in Rows : row.post = p}
  <1>1. Tables /\ Handlers /\ writer[w].pc = "update"
    BY DEF IInv, post_update
  <1>2. /\ writer[w].pc # "publish" /\ p \in Post
    BY <1>1, WriterStates DEF Handlers
  <1>3. /\ \A row \in current : row.ver < MaxVersion
        /\ \/ current = {} /\ UNCHANGED <<posts, wal, replica>>
           \/ \E row \in current : Commit(<<[row EXCEPT !.ver = row.ver + 1]>> \o Others(p))
        /\ writer' = [writer EXCEPT ![w] = Publishing("UPDATED", p)]
        /\ UNCHANGED <<used, feed, queue, unacked, consumer, reader, lost>>
    BY DEF post_update
  <1>4. Tables' /\ \A row \in Rows : row.post # p => row \in Rows'
    <2>1. CASE UNCHANGED <<posts, wal, replica>>
      BY <1>1, <1>3, <2>1 DEF Tables, Rows
    <2>2. ASSUME NEW row \in current, Commit(<<[row EXCEPT !.ver = row.ver + 1]>> \o Others(p))
          PROVE  Tables' /\ \A r \in Rows : r.post # p => r \in Rows'
      <3> DEFINE new == [row EXCEPT !.ver = row.ver + 1]
      <3>1. row \in Row /\ row \in Rows /\ row.post = p
        BY <1>1, RangeOfSeq DEF Tables, Rows
      <3>2. new \in Row /\ new.post = p
        <4>1. row.ver + 1 \in 1..MaxVersion
          BY <1>3, <3>1 DEF Row
        <4> QED BY <3>1, <4>1 DEF Row
      <3>3. /\ Others(p) \in Seq(Row) /\ Unique(Others(p))
            /\ Range(Others(p)) = {r \in Rows : r.post # p}
        BY <1>1, <1>2, OthersFacts DEF Tables, Rows
      <3>4. /\ <<new>> \o Others(p) \in Seq(Row) /\ Unique(<<new>> \o Others(p))
            /\ Range(<<new>> \o Others(p)) = {new} \union {r \in Rows : r.post # p}
        BY <3>2, <3>3, PrependFacts
      <3>5. \A r \in Range(<<new>> \o Others(p)) : r.post \in used
        BY <1>1, <3>1, <3>2, <3>4 DEF Tables
      <3>6. Tables' /\ Rows' = Range(<<new>> \o Others(p))
        BY <1>1, <1>3, <2>2, <3>4, <3>5, CommitFacts DEF Tables
      <3> QED BY <3>4, <3>6
    <2> QED BY <1>3, <2>1, <2>2
  <1> HIDE DEF p
  <1> QED BY <1>2, <1>3, <1>4, InvalidationKeeps

LEMMA DeleteKeeps == IInv /\ (\E w \in Writer : post_delete(w)) => IInv'
  <1> SUFFICES ASSUME IInv, NEW w \in Writer, post_delete(w)
               PROVE  IInv'
    OBVIOUS
  <1> DEFINE p == writer[w].post
  <1>1. Tables /\ Handlers /\ writer[w].pc = "delete"
    BY DEF IInv, post_delete
  <1>2. /\ writer[w].pc # "publish" /\ p \in Post
    BY <1>1, WriterStates DEF Handlers
  <1>3. /\ Commit(Others(p)) /\ writer' = [writer EXCEPT ![w] = Publishing("DELETED", p)]
        /\ UNCHANGED <<used, feed, queue, unacked, consumer, reader, lost>>
    BY DEF post_delete
  <1>4. Tables' /\ \A row \in Rows : row.post # p => row \in Rows'
    <2>1. /\ Others(p) \in Seq(Row) /\ Unique(Others(p))
          /\ Range(Others(p)) = {r \in Rows : r.post # p}
      BY <1>1, <1>2, OthersFacts DEF Tables, Rows
    <2>2. Tables' /\ Rows' = Range(Others(p))
      BY <1>1, <1>3, <2>1, CommitFacts DEF Tables
    <2> QED BY <2>1, <2>2
  <1> HIDE DEF p
  <1> QED BY <1>2, <1>3, <1>4, InvalidationKeeps

\* The event of a handler goes to the end of the queue.  If the queue was empty the
\* consumer is not busy with it.
LEMMA PublishKeeps == IInv /\ (\E w \in Writer : publish_message(w)) => IInv'
  <1> SUFFICES ASSUME IInv, NEW w \in Writer, publish_message(w)
               PROVE  IInv'
    OBVIOUS
  <1> DEFINE event == writer[w].event
  <1>1. Tables /\ Lists /\ Events /\ Consuming /\ Handlers /\ CurrentUntilInvalidated
    BY DEF IInv
  <1>2. /\ writer[w].pc = "publish" /\ queue' = Append(queue, event)
        /\ writer' = [writer EXCEPT ![w] = Idle]
        /\ UNCHANGED <<posts, used, wal, replica, feed, unacked, consumer, reader, lost>>
    BY DEF publish_message
  <1>3. event \in Event
    BY <1>1, <1>2, WriterStates DEF Handlers
  <1>4. /\ queue' \in Seq(Event) /\ Len(queue') = Len(queue) + 1 /\ Len(queue) \in Nat
        /\ \A i \in 1..Len(queue) : queue'[i] = queue[i]
        /\ queue'[Len(queue) + 1] = event
        /\ DOMAIN queue = 1..Len(queue) /\ DOMAIN queue' = 1..(Len(queue) + 1)
        /\ queue # <<>> => Len(queue) > 0 /\ Head(queue') = Head(queue)
        /\ queue' # <<>>
    <2>1. queue \in Seq(Event)
      BY <1>1 DEF Events
    <2>2. /\ queue' \in Seq(Event) /\ Len(queue') = Len(queue) + 1 /\ queue' # <<>>
          /\ \A i \in 1..Len(queue) : queue'[i] = queue[i]
          /\ queue'[Len(queue) + 1] = event
      BY <1>2, <1>3, <2>1, AppendProperties
    <2>3. Len(queue) \in Nat /\ DOMAIN queue = 1..Len(queue) /\ DOMAIN queue' = 1..(Len(queue) + 1)
      BY <2>1, <2>2, LenProperties
    <2>4. ASSUME queue # <<>>
          PROVE  Len(queue) > 0 /\ Head(queue') = Head(queue)
      <3>1. Len(queue) > 0 /\ Head(queue) = queue[1]
        BY <2>1, <2>4, Ends
      <3>2. Head(queue') = queue'[1]
        BY <2>2, Ends
      <3> QED BY <2>2, <2>3, <3>1, <3>2
    <2> QED BY <2>2, <2>3, <2>4
  <1>5. Tables' /\ Lists' /\ Events' /\ Consuming'
    BY <1>1, <1>2, <1>4 DEF Tables, Rows, Lists, Reads, Events, Consuming
  <1>6. Handlers'
    BY <1>1, <1>2 DEF Handlers, WriterState, Reads
  <1>7. ASSUME NEW u \in User, NEW p \in Post, Pending(u, p)
        PROVE  Pending(u, p)'
    <2>1. CASE \E v \in Writer : writer[v].pc = "publish" /\ Invalidates(writer[v].event, p)
      <3>1. PICK v \in Writer : writer[v].pc = "publish" /\ Invalidates(writer[v].event, p)
        BY <2>1
      <3>2. CASE v = w
        <4>1. Invalidates(queue'[Len(queue) + 1], p)
          BY <1>4, <3>1, <3>2 DEF Invalidates
        <4>2. Len(queue) + 1 \in DOMAIN queue'
          BY <1>4
        <4>3. Len(queue) + 1 = 1 => consumer'.pc \notin {"fan", "trim"}
          BY <1>1, <1>2, <1>4 DEF Consuming
        <4> QED BY <4>1, <4>2, <4>3 DEF Pending, Invalidates
      <3>3. CASE v # w
        <4>1. writer'[v] = writer[v]
          BY <1>1, <1>2, <3>3 DEF Handlers
        <4> QED BY <3>1, <4>1 DEF Pending, Invalidates
      <3> QED BY <3>2, <3>3
    <2>2. CASE \E i \in DOMAIN unacked : Invalidates(unacked[i], p)
      BY <1>2, <2>2 DEF Pending, Invalidates
    <2>3. CASE \E i \in DOMAIN queue :
                /\ Invalidates(queue[i], p)
                /\ i = 1 /\ consumer.pc \in {"fan", "trim"} => u \in consumer.todo
      <3>1. PICK i \in DOMAIN queue :
                /\ Invalidates(queue[i], p)
                /\ i = 1 /\ consumer.pc \in {"fan", "trim"} => u \in consumer.todo
        BY <2>3
      <3>2. i \in DOMAIN queue' /\ queue'[i] = queue[i]
        BY <1>4
      <3> QED BY <1>2, <3>1, <3>2 DEF Pending, Invalidates
    <2> QED BY <1>7, <2>1, <2>2, <2>3 DEF Pending
  <1>8. CurrentUntilInvalidated'
    <2>1. \A u \in User, e \in Entry : In(u, e)' => In(u, e)
      BY <1>2 DEF In
    <2>2. \A e \in Entry : Stale(e)' => Stale(e)
      BY <1>2 DEF Stale, IsCurrent, Rows
    <2> QED BY <1>1, <1>2, <1>5, <1>7, <2>1, <2>2, StaysCurrent
  <1> QED BY <1>5, <1>6, <1>8, IInvPrime

LEMMA PublishFailsKeeps == IInv /\ (\E w \in Writer : PublishFails(w)) => IInv'
  <1> SUFFICES ASSUME IInv, NEW w \in Writer, PublishFails(w)
               PROVE  IInv'
    OBVIOUS
  <1>1. Tables /\ Lists /\ Events /\ Consuming /\ Handlers /\ CurrentUntilInvalidated
    BY DEF IInv
  <1>2. /\ writer[w].pc = "publish" /\ writer' = [writer EXCEPT ![w] = Idle]
        /\ lost' = lost \union {writer[w].event.post}
        /\ UNCHANGED <<posts, used, wal, replica, feed, queue, unacked, consumer, reader>>
    BY DEF PublishFails
  <1>3. writer[w].event.post \in Post
    BY <1>1, <1>2, WriterStates, EntryTypes DEF Handlers
  <1>4. Tables' /\ Lists' /\ Events' /\ Consuming'
    BY <1>1, <1>2 DEF Tables, Rows, Lists, Reads, Events, Consuming
  <1>5. Handlers'
    BY <1>1, <1>2, <1>3 DEF Handlers, WriterState, Reads
  <1>6. ASSUME NEW u \in User, NEW p \in Post, Pending(u, p)
        PROVE  Pending(u, p)' \/ p \in lost'
    <2>1. \A v \in Writer \ {w} : writer'[v] = writer[v]
      BY <1>1, <1>2 DEF Handlers
    <2> QED BY <1>2, <1>6, <2>1 DEF Pending, Invalidates
  <1>7. CurrentUntilInvalidated'
    <2>1. \A u \in User, e \in Entry : In(u, e)' => In(u, e)
      BY <1>2 DEF In
    <2>2. \A e \in Entry : Stale(e)' => Stale(e)
      BY <1>2 DEF Stale, IsCurrent, Rows
    <2> QED BY <1>1, <1>2, <1>4, <1>6, <2>1, <2>2, StaysCurrent
  <1> QED BY <1>4, <1>5, <1>7, IInvPrime

-----------------------------------------------------------------------------
(* get_feed.                                                                *)

\* A reader changes its state, and nothing that is on its way.
LEMMA ReaderKeeps ==
  ASSUME IInv, NEW r \in Reader, NEW s \in ReaderState, reader' = [reader EXCEPT ![r] = s],
         s.pc = "push" => \A k \in DOMAIN s.rows : Reads(s.user, s.rows[k].post),
         UNCHANGED <<posts, used, wal, replica, queue, unacked, consumer, writer, lost>>,
         Lists', \A u \in User, e \in Entry : In(u, e)' => In(u, e) \/ (e.current => ~Stale(e)')
  PROVE  IInv'
  <1>1. Tables /\ Lists /\ Events /\ Consuming /\ Handlers /\ CurrentUntilInvalidated
    BY DEF IInv
  <1>2. Tables' /\ Events' /\ Consuming'
    BY <1>1 DEF Tables, Rows, Events, Consuming
  <1>3. Handlers'
    BY <1>1 DEF Handlers, Reads
  <1>4. CurrentUntilInvalidated'
    <2>1. \A e \in Entry : Stale(e)' => Stale(e)
      BY DEF Stale, IsCurrent, Rows
    <2>2. \A u \in User, p \in Post : Pending(u, p) => Pending(u, p)'
      BY DEF Pending, Invalidates
    <2> QED BY <1>1, <2>1, <2>2, StaysCurrent
  <1> QED BY <1>2, <1>3, <1>4, IInvPrime

LEMMA ReaderStepsKeep ==
  ASSUME IInv, NEW r \in Reader,
         (\E u \in User : CacheMiss(r, u)) \/ SelectFeed(r) \/ ReturnFeed(r)
  PROVE  IInv'
  <1>1. Tables /\ Lists /\ Handlers
    BY DEF IInv
  <1>2. UNCHANGED <<posts, used, wal, replica, feed, queue, unacked, consumer, writer, lost>>
    BY DEF CacheMiss, SelectFeed, ReturnFeed
  <1>3. Lists' /\ \A u \in User, e \in Entry : In(u, e)' => In(u, e)
    BY <1>1, <1>2 DEF Lists, Reads, In
  <1>4. ASSUME NEW u \in User, CacheMiss(r, u)
        PROVE  IInv'
    <2>1. /\ [pc |-> "select", user |-> u] \in ReaderState
          /\ [pc |-> "select", user |-> u].pc # "push"
      BY DEF ReaderState, SelectState
    <2>2. reader' = [reader EXCEPT ![r] = [pc |-> "select", user |-> u]]
      BY <1>4 DEF CacheMiss
    <2> QED BY <1>2, <1>3, <2>1, <2>2, ReaderKeeps
  <1>5. CASE SelectFeed(r)
    <2> DEFINE u == reader[r].user
               s == [pc |-> "push", user |-> u, rows |-> FeedQuery(u)]
    <2>1. u \in User /\ reader' = [reader EXCEPT ![r] = s]
      BY <1>1, <1>5, ReaderStates DEF SelectFeed, Handlers
    <2>2. /\ FeedQuery(u) \in Seq(Row)
          /\ \A k \in DOMAIN FeedQuery(u) : Reads(u, FeedQuery(u)[k].post)
      BY <1>1, <2>1, QueryFacts DEF Tables, Reads
    <2> HIDE DEF u
    <2>3. /\ s \in ReaderState
          /\ \A k \in DOMAIN s.rows : Reads(s.user, s.rows[k].post)
      BY <2>1, <2>2 DEF ReaderState, PushState
    <2> HIDE DEF s
    <2> QED BY <1>2, <1>3, <2>1, <2>3, ReaderKeeps
  <1>6. CASE ReturnFeed(r)
    <2>1. Idle \in ReaderState /\ Idle.pc # "push"
      BY DEF ReaderState, Idle
    <2>2. reader' = [reader EXCEPT ![r] = Idle]
      BY <1>6 DEF ReturnFeed
    <2> QED BY <1>2, <1>3, <2>1, <2>2, ReaderKeeps
  <1> QED BY <1>4, <1>5, <1>6

\* A row is pushed as the row it is, or as one that is known not to be current.
LEMMA PushRowKeeps == IInv /\ (\E r \in Reader : PushRow(r)) => IInv'
  <1> SUFFICES ASSUME IInv, NEW r \in Reader, PushRow(r)
               PROVE  IInv'
    OBVIOUS
  <1> DEFINE u == reader[r].user
             row == Head(reader[r].rows)
             new == [id |-> <<"row", row.post>>, ver |-> row.ver, current |-> IsCurrent(row.post, row.ver)]
             s == [reader[r] EXCEPT !.rows = Tail(@)]
  <1>1. Lists /\ Handlers /\ reader[r].pc = "push" /\ reader[r].rows # <<>>
    BY DEF IInv, PushRow
  <1>2. /\ UNCHANGED <<posts, used, wal, replica, queue, unacked, consumer, writer, lost>>
        /\ feed' = [feed EXCEPT ![u] = Append(feed[u], new)]
        /\ reader' = [reader EXCEPT ![r] = s]
    BY DEF PushRow
  <1>3. /\ reader[r] \in PushState /\ u \in User /\ reader[r].rows \in Seq(Row)
        /\ \A k \in DOMAIN reader[r].rows : Reads(u, reader[r].rows[k].post)
    BY <1>1, ReaderStates DEF Handlers
  <1>4. /\ row \in Row /\ Tail(reader[r].rows) \in Seq(Row) /\ Reads(u, row.post)
        /\ \A k \in DOMAIN Tail(reader[r].rows) : Reads(u, Tail(reader[r].rows)[k].post)
    <2> DEFINE rows == reader[r].rows
    <2>1. /\ Len(rows) \in Nat \ {0} /\ DOMAIN rows = 1..Len(rows)
          /\ row \in Row /\ row = rows[1] /\ Tail(rows) \in Seq(Row)
          /\ DOMAIN Tail(rows) = 1..(Len(rows) - 1)
          /\ \A k \in 1..(Len(rows) - 1) : Tail(rows)[k] = rows[k + 1]
      BY <1>1, <1>3, Ends
    <2> HIDE DEF rows, row
    <2>2. Reads(u, rows[1].post) /\ \A k \in 1..(Len(rows) - 1) : Reads(u, rows[k + 1].post)
      BY <1>3, <2>1 DEF rows
    <2> QED BY <2>1, <2>2 DEF rows
  <1>5. s \in ReaderState /\ \A k \in DOMAIN s.rows : Reads(s.user, s.rows[k].post)
    <2>1. s \in PushState /\ s.user = u /\ s.rows = Tail(reader[r].rows)
      BY <1>3, <1>4 DEF PushState
    <2> QED BY <1>4, <2>1 DEF ReaderState
  <1>6. PICK e \in Entry : e = new /\ e.id[2] = row.post /\ (e.current => ~Stale(e))
    <2>1. row.post \in Post /\ row.ver \in 1..MaxVersion
      BY <1>4, EntryTypes
    <2>2. IsCurrent(row.post, row.ver) \in BOOLEAN
      BY DEF IsCurrent
    <2> HIDE DEF row
    <2>3. <<"row", row.post>> \in Id /\ <<"row", row.post>>[2] = row.post
      BY <2>1 DEF Id
    <2>4. new \in Entry
      BY <2>1, <2>2, <2>3 DEF Entry
    <2>5. new.current => ~Stale(new)
      BY <2>3 DEF Stale
    <2> QED BY <2>3, <2>4, <2>5
  <1> HIDE DEF u, row, new, s
  <1>7. /\ Append(feed[u], e) \in Seq(Entry)
        /\ DOMAIN Append(feed[u], e) = 1..(Len(feed[u]) + 1)
        /\ \A i \in 1..(Len(feed[u]) + 1) :
                Append(feed[u], e)[i] = IF i = Len(feed[u]) + 1 THEN e ELSE feed[u][i]
        /\ DOMAIN feed[u] = 1..Len(feed[u]) /\ Len(feed[u]) \in Nat
    <2>1. feed[u] \in Seq(Entry)
      BY <1>1, <1>3 DEF Lists
    <2> QED BY <2>1, AppendProperties, LenProperties
  <1>8. /\ feed'[u] = Append(feed[u], e) /\ \A v \in User \ {u} : feed'[v] = feed[v]
        /\ feed' \in [User -> Seq(Entry)]
    BY <1>1, <1>2, <1>3, <1>6, <1>7 DEF Lists
  <1>9. \A v \in User : \A i \in DOMAIN feed'[v] :
            \/ i \in DOMAIN feed[v] /\ feed'[v][i] = feed[v][i]
            \/ v = u /\ feed'[v][i] = e
    <2>1. \A i \in DOMAIN feed'[u] : (i \in DOMAIN feed[u] /\ feed'[u][i] = feed[u][i]) \/ feed'[u][i] = e
      BY <1>7, <1>8
    <2> QED BY <1>8, <2>1
  <1>10. Lists'
    BY <1>1, <1>4, <1>6, <1>8, <1>9 DEF Lists, Reads
  <1>11. e.current => ~Stale(e)'
    BY <1>2, <1>6 DEF Stale, IsCurrent, Rows
  <1>12. \A v \in User, x \in Entry : In(v, x)' => In(v, x) \/ (x.current => ~Stale(x)')
    <2> SUFFICES ASSUME NEW v \in User, NEW x \in Entry, In(v, x)', ~In(v, x)
                 PROVE  x = e
      BY <1>11
    <2> QED BY <1>9 DEF In
  <1> QED BY <1>2, <1>5, <1>10, <1>12, ReaderKeeps

-----------------------------------------------------------------------------
(* The consumer.                                                            *)

\* The consumer works on the lists: the invalidation at the head of the queue stays on
\* its way to the lists that are not done.
LEMMA ConsumerKeeps ==
  ASSUME IInv, UNCHANGED <<posts, used, wal, replica, queue, unacked, writer, reader, lost>>,
         Lists', Consuming',
         \A u \in User, e \in Entry : In(u, e)' => In(u, e) \/ (e.current => ~Stale(e)'),
         \A u \in User :
            /\ consumer'.pc \in {"fan", "trim"} /\ feed'[u] # <<>>
            /\ u \in Followers(Author[Head(queue).post]) /\ Head(queue).kind # "CREATED"
            /\ consumer.pc \in {"fan", "trim"} => u \in consumer.todo
            => u \in consumer'.todo
  PROVE  IInv'
  <1>1. Tables /\ Lists /\ Events /\ Consuming /\ Handlers /\ CurrentUntilInvalidated
    BY DEF IInv
  <1>2. Tables' /\ Events' /\ Handlers'
    BY <1>1 DEF Tables, Rows, Events, Handlers, Reads
  <1>3. \A e \in Entry : Stale(e)' => Stale(e)
    BY DEF Stale, IsCurrent, Rows
  <1>4. ASSUME NEW u \in User, NEW p \in Post, Reads(u, p), feed'[u] # <<>>, Pending(u, p)
        PROVE  Pending(u, p)'
    <2>1. CASE \E w \in Writer : writer[w].pc = "publish" /\ Invalidates(writer[w].event, p)
      BY <2>1 DEF Pending, Invalidates
    <2>2. CASE \E i \in DOMAIN unacked : Invalidates(unacked[i], p)
      BY <2>2 DEF Pending, Invalidates
    <2>3. CASE \E i \in DOMAIN queue :
                /\ Invalidates(queue[i], p)
                /\ i = 1 /\ consumer.pc \in {"fan", "trim"} => u \in consumer.todo
      <3>1. PICK i \in DOMAIN queue :
                /\ Invalidates(queue[i], p)
                /\ i = 1 /\ consumer.pc \in {"fan", "trim"} => u \in consumer.todo
        BY <2>3
      <3>2. ASSUME i = 1, consumer'.pc \in {"fan", "trim"}
            PROVE  u \in consumer'.todo
        <4>1. Head(queue) = queue[1]
          <5>1. queue \in Seq(Event) /\ queue # <<>>
            BY <1>1, <3>1 DEF Events
          <5> QED BY <5>1, Ends
        <4>2. Head(queue).kind # "CREATED" /\ Head(queue).post = p
          BY <3>1, <3>2, <4>1 DEF Invalidates
        <4>3. u \in Followers(Author[Head(queue).post])
          BY <1>4, <4>2 DEF Reads, Followers
        <4> QED BY <1>4, <3>1, <3>2, <4>2, <4>3
      <3> QED BY <3>1, <3>2 DEF Pending, Invalidates
    <2> QED BY <1>4, <2>1, <2>2, <2>3 DEF Pending
  <1>5. CurrentUntilInvalidated'
    BY <1>1, <1>3, <1>4, StaysCurrent
  <1> QED BY <1>2, <1>5, IInvPrime

LEMMA TakeKeeps == IInv /\ TakeEvent => IInv'
  <1> SUFFICES ASSUME IInv, TakeEvent
               PROVE  IInv'
    OBVIOUS
  <1> DEFINE c == [pc |-> "fan", todo |-> Followers(Author[Head(queue).post])]
  <1>1. Lists /\ Consuming
    BY DEF IInv
  <1>2. /\ consumer = Idle /\ queue # <<>> /\ consumer' = c
        /\ UNCHANGED <<posts, used, wal, replica, feed, queue, unacked, writer, reader, lost>>
    BY DEF TakeEvent
  <1>3. Lists' /\ \A u \in User, e \in Entry : In(u, e)' => In(u, e)
    BY <1>1, <1>2 DEF Lists, Reads, In
  <1>4. Consuming'
    <2>1. c \in ConsumerState
      BY DEF ConsumerState, FanState, Followers
    <2> QED BY <1>2, <2>1 DEF Consuming
  <1> QED BY <1>2, <1>3, <1>4, ConsumerKeeps

\* A post is pushed to a follower of its author, as current if it is.
LEMMA PushCreatedKeeps == IInv /\ (\E u \in User : PushCreated(u)) => IInv'
  <1> SUFFICES ASSUME IInv, NEW u \in User, PushCreated(u)
               PROVE  IInv'
    OBVIOUS
  <1> DEFINE p == Head(queue).post
             new == [id |-> <<"new", p>>, ver |-> 1, current |-> IsCurrent(p, 1)]
             c == [pc |-> "trim", todo |-> consumer.todo, at |-> u]
  <1>1. Lists /\ Events /\ Consuming /\ consumer.pc = "fan" /\ u \in consumer.todo
    BY DEF IInv, PushCreated
  <1>2. /\ Head(queue).kind = "CREATED" /\ consumer' = c
        /\ feed' = [feed EXCEPT ![u] = <<new>> \o feed[u]]
        /\ UNCHANGED <<posts, used, wal, replica, queue, unacked, writer, reader, lost>>
    BY DEF PushCreated, Pushes
  <1>3. queue # <<>> /\ consumer.todo \subseteq Followers(Author[p]) /\ consumer.todo \in SUBSET User
    BY <1>1, ConsumerStates DEF Consuming
  <1>4. p \in Post /\ Reads(u, p)
    <2>1. Head(queue) \in Event
      BY <1>1, <1>3, Ends DEF Events
    <2> QED BY <1>1, <1>3, <2>1, EntryTypes DEF Followers, Reads
  <1>5. Consuming'
    <2>1. c \in ConsumerState
      BY <1>3 DEF ConsumerState, TrimState
    <2> QED BY <1>2, <1>3, <2>1 DEF Consuming
  <1> HIDE DEF p, c
  <1>6. PICK e \in Entry : e = new /\ e.id[2] = p /\ (e.current => ~Stale(e))
    <2>1. IsCurrent(p, 1) \in BOOLEAN
      BY DEF IsCurrent
    <2>2. <<"new", p>> \in Id /\ <<"new", p>>[2] = p
      BY <1>4 DEF Id
    <2>3. new \in Entry
      BY <2>1, <2>2 DEF Entry
    <2>4. new.current => ~Stale(new)
      BY <2>2 DEF Stale
    <2> QED BY <2>2, <2>3, <2>4
  <1> HIDE DEF new
  <1>7. /\ <<e>> \o feed[u] \in Seq(Entry)
        /\ DOMAIN (<<e>> \o feed[u]) = 1..(1 + Len(feed[u]))
        /\ \A i \in 1..(1 + Len(feed[u])) :
                (<<e>> \o feed[u])[i] = IF i <= 1 THEN e ELSE feed[u][i - 1]
        /\ DOMAIN feed[u] = 1..Len(feed[u]) /\ Len(feed[u]) \in Nat
    <2>1. feed[u] \in Seq(Entry)
      BY <1>1 DEF Lists
    <2>2. <<e>> \in Seq(Entry) /\ Len(<<e>>) = 1 /\ <<e>>[1] = e
      OBVIOUS
    <2> QED BY <2>1, <2>2, ConcatProperties, LenProperties
  <1>8. /\ feed'[u] = <<e>> \o feed[u] /\ \A v \in User \ {u} : feed'[v] = feed[v]
        /\ feed' \in [User -> Seq(Entry)]
    BY <1>1, <1>2, <1>6, <1>7 DEF Lists
  <1>9. \A v \in User : \A i \in DOMAIN feed'[v] :
            \/ \E j \in DOMAIN feed[v] : feed'[v][i] = feed[v][j]
            \/ v = u /\ feed'[v][i] = e
    <2>1. ASSUME NEW i \in DOMAIN feed'[u], i # 1
          PROVE  i - 1 \in DOMAIN feed[u] /\ feed'[u][i] = feed[u][i - 1]
      BY <1>7, <1>8, <2>1
    <2>2. 1 \in DOMAIN feed'[u] => feed'[u][1] = e
      BY <1>7, <1>8
    <2> QED BY <1>8, <2>1, <2>2
  <1>10. Lists'
    <2>1. ASSUME NEW v \in User, NEW i \in DOMAIN feed'[v]
          PROVE  Reads(v, feed'[v][i].id[2])
      <3>1. CASE v = u /\ feed'[v][i] = e
        BY <1>4, <1>6, <3>1
      <3>2. CASE \E j \in DOMAIN feed[v] : feed'[v][i] = feed[v][j]
        BY <1>1, <3>2 DEF Lists
      <3> QED BY <1>9, <3>1, <3>2
    <2> QED BY <1>8, <2>1 DEF Lists, Reads
  <1>11. e.current => ~Stale(e)'
    BY <1>2, <1>6 DEF Stale, IsCurrent, Rows
  <1>12. \A v \in User, x \in Entry : In(v, x)' => In(v, x) \/ (x.current => ~Stale(x)')
    <2> SUFFICES ASSUME NEW v \in User, NEW x \in Entry, In(v, x)', ~In(v, x)
                 PROVE  x = e
      BY <1>11
    <2> QED BY <1>9 DEF In
  <1> QED BY <1>2, <1>5, <1>10, <1>12, ConsumerKeeps

LEMMA TrimKeeps == IInv /\ TrimFeed => IInv'
  <1> SUFFICES ASSUME IInv, TrimFeed
               PROVE  IInv'
    OBVIOUS
  <1> DEFINE u == consumer.at
             len == IF Len(feed[u]) < FeedLength + 1 THEN Len(feed[u]) ELSE FeedLength + 1
             c == [pc |-> "fan", todo |-> consumer.todo \ {u}]
  <1>1. Lists /\ Consuming /\ consumer.pc = "trim"
    BY DEF IInv, TrimFeed
  <1>2. /\ feed' = [feed EXCEPT ![u] = SubSeq(feed[u], 1, len)] /\ consumer' = c
        /\ UNCHANGED <<posts, used, wal, replica, queue, unacked, writer, reader, lost>>
    BY DEF TrimFeed
  <1>3. /\ u \in User /\ consumer.todo \subseteq User /\ Head(queue).kind = "CREATED"
        /\ queue # <<>> /\ consumer.todo \subseteq Followers(Author[Head(queue).post])
    BY <1>1, ConsumerStates DEF Consuming
  <1>4. Consuming'
    <2>1. c \in ConsumerState /\ c.todo \subseteq consumer.todo /\ c.pc = "fan"
      BY <1>3 DEF ConsumerState, FanState
    <2> QED BY <1>2, <1>3, <2>1 DEF Consuming
  <1> HIDE DEF u, c
  <1>5. /\ Len(feed[u]) \in Nat /\ DOMAIN feed[u] = 1..Len(feed[u])
        /\ \A i \in 1..Len(feed[u]) : feed[u][i] \in Entry
    <2>1. feed[u] \in Seq(Entry)
      BY <1>1, <1>3 DEF Lists
    <2> QED BY <2>1, LenProperties, ElementOfSeq
  <1>6. len \in Nat /\ len <= Len(feed[u])
    BY <1>5
  <1> HIDE DEF len
  <1>7. /\ SubSeq(feed[u], 1, len) \in Seq(Entry)
        /\ \A i \in DOMAIN SubSeq(feed[u], 1, len) :
                i \in DOMAIN feed[u] /\ SubSeq(feed[u], 1, len)[i] = feed[u][i]
    <2>1. /\ SubSeq(feed[u], 1, len) \in Seq(Entry)
          /\ Len(SubSeq(feed[u], 1, len)) = IF 1 <= len THEN len - 1 + 1 ELSE 0
          /\ \A i \in 1..(len - 1 + 1) : SubSeq(feed[u], 1, len)[i] = feed[u][1 + i - 1]
      BY <1>5, <1>6, SubSeqProperties
    <2>2. DOMAIN SubSeq(feed[u], 1, len) = 1..len
      BY <1>6, <2>1, LenProperties
    <2> QED BY <1>5, <1>6, <2>1, <2>2
  <1>8. /\ feed' \in [User -> Seq(Entry)]
        /\ \A v \in User : \A i \in DOMAIN feed'[v] : i \in DOMAIN feed[v] /\ feed'[v][i] = feed[v][i]
    BY <1>1, <1>2, <1>3, <1>7 DEF Lists
  <1>9. Lists'
    BY <1>1, <1>8 DEF Lists, Reads
  <1>10. \A v \in User, e \in Entry : In(v, e)' => In(v, e)
    BY <1>8 DEF In
  <1> QED BY <1>2, <1>3, <1>4, <1>9, <1>10, ConsumerKeeps

LEMMA DeleteFeedKeeps == IInv /\ (\E u \in User : DeleteFeed(u)) => IInv'
  <1> SUFFICES ASSUME IInv, NEW u \in User, DeleteFeed(u)
               PROVE  IInv'
    OBVIOUS
  <1>1. Lists /\ Consuming /\ consumer.pc = "fan"
    BY DEF IInv, DeleteFeed
  <1>2. /\ feed' = [feed EXCEPT ![u] = <<>>]
        /\ consumer' = [consumer EXCEPT !.todo = consumer.todo \ {u}]
        /\ UNCHANGED <<posts, used, wal, replica, queue, unacked, writer, reader, lost>>
    BY DEF DeleteFeed
  <1>3. /\ consumer \in FanState /\ consumer.todo \subseteq User
        /\ queue # <<>> /\ consumer.todo \subseteq Followers(Author[Head(queue).post])
    BY <1>1, ConsumerStates DEF Consuming
  <1>4. /\ consumer' \in FanState /\ consumer'.pc = "fan" /\ consumer'.todo = consumer.todo \ {u}
    BY <1>2, <1>3 DEF FanState
  <1>5. Consuming'
    BY <1>2, <1>3, <1>4 DEF Consuming, ConsumerState
  <1>6. feed'[u] = <<>> /\ \A v \in User \ {u} : feed'[v] = feed[v]
    BY <1>1, <1>2 DEF Lists
  <1>7. Lists'
    <2>1. <<>> \in Seq(Entry) /\ DOMAIN <<>> = {}
      OBVIOUS
    <2>2. feed' \in [User -> Seq(Entry)]
      BY <1>1, <1>2, <2>1 DEF Lists
    <2> QED BY <1>1, <1>6, <2>1, <2>2 DEF Lists, Reads
  <1>8. \A v \in User, e \in Entry : In(v, e)' => In(v, e)
    <2>1. ~\E i \in DOMAIN feed'[u] : TRUE
      BY <1>6
    <2> QED BY <1>6, <2>1 DEF In
  <1>9. ASSUME NEW v \in User, feed'[v] # <<>>, v \in consumer.todo
        PROVE  v \in consumer'.todo
    BY <1>4, <1>6, <1>9
  <1> QED BY <1>1, <1>2, <1>5, <1>7, <1>8, <1>9, ConsumerKeeps

\* Events leave the queue or return to it while the consumer stops: each is still queued
\* or delivered, or its lists are done, and what is not published is counted as lost.
LEMMA EventsKeep ==
  ASSUME IInv, UNCHANGED <<posts, used, wal, replica, feed>>,
         Events', Handlers', lost \subseteq lost',
         consumer' \in ConsumerState, consumer'.pc \notin {"fan", "trim"},
         \A w \in Writer : writer[w].pc = "publish" =>
            writer'[w] = writer[w] \/ writer[w].event.post \in lost',
         \A i \in DOMAIN unacked : unacked[i] \in Range(unacked') \union Range(queue'),
         \A i \in DOMAIN queue :
            \/ queue[i] \in Range(unacked') \union Range(queue')
            \/ i = 1 /\ consumer.pc = "fan" /\ consumer.todo = {}
  PROVE  IInv'
  <1>1. Tables /\ Lists /\ CurrentUntilInvalidated
    BY DEF IInv
  <1>2. Tables' /\ Lists' /\ Consuming'
    BY <1>1 DEF Tables, Rows, Lists, Reads, Consuming
  <1>3. ASSUME NEW u \in User, NEW p \in Post, Pending(u, p)
        PROVE  Pending(u, p)' \/ p \in lost'
    <2>1. ASSUME NEW event \in Range(unacked') \union Range(queue'), Invalidates(event, p)
          PROVE  Pending(u, p)'
      <3>1. CASE event \in Range(unacked')
        BY <2>1, <3>1 DEF Range, Pending, Invalidates
      <3>2. CASE event \in Range(queue')
        BY <2>1, <3>2 DEF Range, Pending, Invalidates
      <3> QED BY <3>1, <3>2
    <2>2. CASE \E w \in Writer : writer[w].pc = "publish" /\ Invalidates(writer[w].event, p)
      <3>1. PICK w \in Writer : writer[w].pc = "publish" /\ Invalidates(writer[w].event, p)
        BY <2>2
      <3>2. writer'[w] = writer[w] \/ p \in lost'
        BY <3>1 DEF Invalidates
      <3> QED BY <3>1, <3>2 DEF Pending, Invalidates
    <2>3. CASE \E i \in DOMAIN unacked : Invalidates(unacked[i], p)
      BY <2>1, <2>3
    <2>4. CASE \E i \in DOMAIN queue :
                /\ Invalidates(queue[i], p)
                /\ i = 1 /\ consumer.pc \in {"fan", "trim"} => u \in consumer.todo
      BY <2>1, <2>4
    <2> QED BY <1>3, <2>2, <2>3, <2>4 DEF Pending
  <1>4. \A e \in Entry : Stale(e)' => Stale(e)
    BY DEF Stale, IsCurrent, Rows
  <1>5. \A u \in User, e \in Entry : In(u, e)' => In(u, e)
    BY DEF In
  <1>6. CurrentUntilInvalidated'
    BY <1>1, <1>2, <1>3, <1>4, <1>5, StaysCurrent
  <1> QED BY <1>2, <1>6, IInvPrime

\* All but the first element are in the tail.
LEMMA TailRange ==
  ASSUME NEW S, NEW s \in Seq(S), s # <<>>
  PROVE  \A i \in DOMAIN s \ {1} : s[i] \in Range(Tail(s))
  <1> SUFFICES ASSUME NEW i \in DOMAIN s \ {1}
               PROVE  s[i] \in Range(Tail(s))
    OBVIOUS
  <1>1. i - 1 \in DOMAIN Tail(s) /\ s[i] = Tail(s)[i - 1]
    BY Ends
  <1> QED BY <1>1 DEF Range

LEMMA ConcatRange ==
  ASSUME NEW S, NEW s \in Seq(S), NEW t \in Seq(S)
  PROVE  /\ s \o t \in Seq(S)
         /\ \A i \in DOMAIN s : s[i] \in Range(s \o t)
         /\ \A i \in DOMAIN t : t[i] \in Range(s \o t)
  <1>1. /\ s \o t \in Seq(S) /\ Len(s \o t) = Len(s) + Len(t)
        /\ \A i \in 1..(Len(s) + Len(t)) : (s \o t)[i] = IF i <= Len(s) THEN s[i] ELSE t[i - Len(s)]
    BY ConcatProperties
  <1>2. /\ Len(s) \in Nat /\ Len(t) \in Nat /\ DOMAIN s = 1..Len(s) /\ DOMAIN t = 1..Len(t)
        /\ DOMAIN (s \o t) = 1..(Len(s) + Len(t))
    BY <1>1, LenProperties
  <1>3. ASSUME NEW i \in DOMAIN s
        PROVE  i \in DOMAIN (s \o t) /\ (s \o t)[i] = s[i]
    BY <1>1, <1>2
  <1>4. ASSUME NEW i \in DOMAIN t
        PROVE  i + Len(s) \in DOMAIN (s \o t) /\ (s \o t)[i + Len(s)] = t[i]
    BY <1>1, <1>2
  <1> QED BY <1>1, <1>3, <1>4 DEF Range

LEMMA AckKeeps == IInv /\ AckEvent => IInv'
  <1> SUFFICES ASSUME IInv, AckEvent
               PROVE  IInv'
    OBVIOUS
  <1>1. Events /\ Consuming /\ Handlers
    BY DEF IInv
  <1>2. /\ consumer.pc = "fan" /\ consumer.todo = {} /\ queue' = Tail(queue) /\ consumer' = Idle
        /\ UNCHANGED <<posts, used, wal, replica, feed, unacked, writer, reader, lost>>
    BY DEF AckEvent
  <1>3. queue \in Seq(Event) /\ queue # <<>>
    BY <1>1, <1>2 DEF Events, Consuming
  <1>4. queue' \in Seq(Event) /\ \A i \in DOMAIN queue \ {1} : queue[i] \in Range(queue')
    BY <1>2, <1>3, Ends, TailRange
  <1>5. \A i \in DOMAIN unacked : unacked[i] \in Range(unacked')
    BY <1>2 DEF Range
  <1>6. Events' /\ Handlers'
    BY <1>1, <1>2, <1>4 DEF Events, Handlers, Reads
  <1>7. Idle \in ConsumerState /\ Idle.pc \notin {"fan", "trim"}
    BY DEF ConsumerState, Idle
  <1> QED BY <1>2, <1>4, <1>5, <1>6, <1>7, EventsKeep

LEMMA SkipKeeps == IInv /\ SkipEvent => IInv'
  <1> SUFFICES ASSUME IInv, SkipEvent
               PROVE  IInv'
    OBVIOUS
  <1>1. Events /\ Handlers
    BY DEF IInv
  <1>2. /\ consumer = Idle /\ queue # <<>>
        /\ unacked' = Append(unacked, Head(queue)) /\ queue' = Tail(queue)
        /\ UNCHANGED <<posts, used, wal, replica, feed, consumer, writer, reader, lost>>
    BY DEF SkipEvent
  <1>3. queue \in Seq(Event) /\ unacked \in Seq(Event)
    BY <1>1 DEF Events
  <1>4. /\ queue' \in Seq(Event) /\ Head(queue) = queue[1] /\ Head(queue) \in Event
        /\ \A i \in DOMAIN queue \ {1} : queue[i] \in Range(queue')
    BY <1>2, <1>3, Ends, TailRange
  <1>5. /\ unacked' \in Seq(Event) /\ queue[1] \in Range(unacked')
        /\ \A i \in DOMAIN unacked : unacked[i] \in Range(unacked')
    <2>1. /\ unacked' \in Seq(Event) /\ Len(unacked') = Len(unacked) + 1
          /\ \A i \in 1..Len(unacked) : unacked'[i] = unacked[i]
          /\ unacked'[Len(unacked) + 1] = queue[1]
      BY <1>2, <1>3, <1>4, AppendProperties
    <2>2. /\ Len(unacked) \in Nat /\ DOMAIN unacked = 1..Len(unacked)
          /\ DOMAIN unacked' = 1..(Len(unacked) + 1)
      BY <1>3, <2>1, LenProperties
    <2>3. Len(unacked) + 1 \in DOMAIN unacked' /\ \A i \in DOMAIN unacked : i \in DOMAIN unacked'
      BY <2>2
    <2>4. \A i \in DOMAIN unacked : unacked'[i] = unacked[i]
      BY <2>1, <2>2
    <2> QED BY <2>1, <2>3, <2>4 DEF Range
  <1>6. Events' /\ Handlers'
    BY <1>1, <1>2, <1>4, <1>5 DEF Events, Handlers, Reads
  <1>7. Idle \in ConsumerState /\ Idle.pc \notin {"fan", "trim"}
    BY DEF ConsumerState, Idle
  <1> QED BY <1>2, <1>4, <1>5, <1>6, <1>7, EventsKeep

LEMMA ChannelKeeps == IInv /\ ChannelCloses => IInv'
  <1> SUFFICES ASSUME IInv, ChannelCloses
               PROVE  IInv'
    OBVIOUS
  <1>1. Events /\ Handlers
    BY DEF IInv
  <1>2. /\ consumer' = [pc |-> "gone"] /\ queue' = unacked \o queue /\ unacked' = <<>>
        /\ UNCHANGED <<posts, used, wal, replica, feed, writer, reader, lost>>
    BY DEF ChannelCloses
  <1>3. /\ queue' \in Seq(Event)
        /\ \A i \in DOMAIN unacked : unacked[i] \in Range(queue')
        /\ \A i \in DOMAIN queue : queue[i] \in Range(queue')
    BY <1>1, <1>2, ConcatRange DEF Events
  <1>4. Events' /\ Handlers'
    BY <1>1, <1>2, <1>3 DEF Events, Handlers, Reads
  <1>5. consumer' \in ConsumerState /\ consumer'.pc \notin {"fan", "trim"}
    BY <1>2 DEF ConsumerState
  <1> QED BY <1>2, <1>3, <1>4, <1>5, EventsKeep

LEMMA RestartKeeps == IInv /\ BackendRestarts => IInv'
  <1> SUFFICES ASSUME IInv, BackendRestarts
               PROVE  IInv'
    OBVIOUS
  <1>1. Events /\ Handlers
    BY DEF IInv
  <1>2. /\ consumer' = Idle /\ queue' = unacked \o queue /\ unacked' = <<>>
        /\ lost' = lost \union {writer[w].event.post : w \in {w \in Writer : writer[w].pc = "publish"}}
        /\ writer' = [w \in Writer |-> Idle] /\ reader' = [r \in Reader |-> Idle]
        /\ UNCHANGED <<posts, used, wal, replica, feed>>
    BY DEF BackendRestarts
  <1>3. /\ queue' \in Seq(Event)
        /\ \A i \in DOMAIN unacked : unacked[i] \in Range(queue')
        /\ \A i \in DOMAIN queue : queue[i] \in Range(queue')
    BY <1>1, <1>2, ConcatRange DEF Events
  <1>4. lost' \subseteq Post
    <2>1. \A w \in Writer : writer[w].pc = "publish" => writer[w].event.post \in Post
      BY <1>1, WriterStates, EntryTypes DEF Handlers
    <2> QED BY <1>1, <1>2, <2>1 DEF Handlers
  <1>5. Events'
    BY <1>2, <1>3 DEF Events
  <1>6. Handlers'
    <2>1. Idle \in WriterState /\ Idle \in ReaderState /\ Idle.pc # "push"
      BY DEF WriterState, ReaderState, Idle
    <2> QED BY <1>2, <1>4, <2>1 DEF Handlers
  <1>7. consumer' \in ConsumerState /\ consumer'.pc \notin {"fan", "trim"}
    BY <1>2 DEF ConsumerState, Idle
  <1>8. /\ lost \subseteq lost'
        /\ \A w \in Writer : writer[w].pc = "publish" => writer[w].event.post \in lost'
    BY <1>2
  <1> QED BY <1>2, <1>3, <1>5, <1>6, <1>7, <1>8, EventsKeep

LEMMA ReplicateKeeps == IInv /\ Replicate => IInv'
  <1> SUFFICES ASSUME IInv, Replicate
               PROVE  IInv'
    OBVIOUS
  <1>1. Tables /\ Lists /\ Events /\ Consuming /\ Handlers /\ CurrentUntilInvalidated
    BY DEF IInv
  <1>2. /\ wal # <<>> /\ replica' = Head(wal) /\ wal' = Tail(wal)
        /\ UNCHANGED <<posts, used, feed, queue, unacked, consumer, writer, reader, lost>>
    BY DEF Replicate
  <1>3. Head(wal) \in Seq(Row) /\ Tail(wal) \in Seq(Seq(Row))
    BY <1>1, <1>2, HeadTailProperties DEF Tables
  <1>4. Tables' /\ Lists' /\ Events' /\ Consuming' /\ Handlers'
    BY <1>1, <1>2, <1>3 DEF Tables, Rows, Lists, Reads, Events, Consuming, Handlers
  <1>5. CurrentUntilInvalidated'
    BY <1>1, <1>2 DEF CurrentUntilInvalidated, Stale, IsCurrent, Rows, Pending, Invalidates
  <1> QED BY <1>4, <1>5, IInvPrime

-----------------------------------------------------------------------------
(* The theorems.                                                            *)

LEMMA InitIInv == Init => IInv
  <1> SUFFICES ASSUME Init
               PROVE  IInv
    OBVIOUS
  <1>1. /\ <<>> \in Seq(Row) /\ <<>> \in Seq(Seq(Row)) /\ <<>> \in Seq(Entry) /\ <<>> \in Seq(Event)
        /\ DOMAIN <<>> = {}
    OBVIOUS
  <1>2. Tables
    BY <1>1 DEF Init, Tables, Unique, Rows, Range
  <1>3. Lists
    BY <1>1 DEF Init, Lists
  <1>4. Events
    BY <1>1 DEF Init, Events
  <1>5. Consuming
    BY DEF Init, Consuming, ConsumerState, Idle
  <1>6. Handlers
    BY DEF Init, Handlers, WriterState, ReaderState, Idle
  <1>7. CurrentUntilInvalidated
    BY <1>1 DEF Init, CurrentUntilInvalidated
  <1> QED BY <1>2, <1>3, <1>4, <1>5, <1>6, <1>7 DEF IInv

LEMMA NextKeeps == IInv /\ [Next]_vars => IInv'
  <1> SUFFICES ASSUME IInv, [Next]_vars
               PROVE  IInv'
    OBVIOUS
  <1>1. CASE \E w \in Writer, p \in Post : post_create(w, p)
    BY <1>1, CreateKeeps
  <1>2. CASE \E w \in Writer, p \in Post : ReadPost(w, p, "update") \/ ReadPost(w, p, "delete")
    BY <1>2, ReadKeeps
  <1>3. CASE \E w \in Writer : WriterStep(w) \/ PublishFails(w)
    BY <1>3, UpdateKeeps, DeleteKeeps, PublishKeeps, PublishFailsKeeps DEF WriterStep
  <1>4. CASE \E r \in Reader : ReaderStep(r) \/ \E u \in User : CacheMiss(r, u)
    BY <1>4, ReaderStepsKeep, PushRowKeeps DEF ReaderStep
  <1>5. CASE ConsumerStep
    BY <1>5, TakeKeeps, TrimKeeps, AckKeeps, PushCreatedKeeps, DeleteFeedKeeps DEF ConsumerStep
  <1>6. CASE Replicate \/ SkipEvent \/ ChannelCloses \/ BackendRestarts
    BY <1>6, ReplicateKeeps, SkipKeeps, ChannelKeeps, RestartKeeps
  <1>7. CASE UNCHANGED vars
    BY <1>7 DEF vars, IInv, Tables, Rows, Lists, Reads, Events, Consuming, Handlers,
            CurrentUntilInvalidated, Stale, IsCurrent, Pending, Invalidates
  <1> QED BY <1>1, <1>2, <1>3, <1>4, <1>5, <1>6, <1>7 DEF Next

LEMMA IInvInvariant == Spec => []IInv
  BY InitIInv, NextKeeps, PTL DEF Spec

\* No post gets two rows, whichever handlers run at once, and the lists, events and
\* handlers hold what post_create, post_update, post_delete, get_feed and FeedConsumer
\* put there.
THEOREM FeedTypes == Spec => []TypeOK
  BY IInvInvariant, TypesCorrect, PTL

\* A post in a list that was current when it was pushed and is not any more has its
\* UPDATED or DELETED event with a handler, in the queue before the consumer has done
\* the list, or delivered without an acknowledgement, however many events, faults and
\* restarts there have been; or a handler ended without publishing it.
THEOREM StaleIsOnItsWay == Spec => []CurrentUntilInvalidated
  <1>1. IInv => CurrentUntilInvalidated
    BY DEF IInv
  <1> QED BY <1>1, IInvInvariant, PTL
=================================================================================
