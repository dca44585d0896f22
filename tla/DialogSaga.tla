------------------------------ MODULE DialogSaga ------------------------------
(***************************************************************************)
(* The saga that moves a dialog message from the unread service to the     *)
(* dialogs service (the service of the read messages), orchestrated by the *)
(* gateway:                                                                *)
(*                                                                         *)
(*   unread/src    dialog_send, dialog_messages_get_by_ids,                *)
(*                 dialog_messages_remove over table dialog_messages       *)
(*   dialogs/src   dialog_send_messages_vec over its own dialog_messages   *)
(*   backend/src   dialog_mark_as_read, one call per element of Request    *)
(*                                                                         *)
(* Every SQL statement commits on its own and is one step; the gateway's   *)
(* three HTTP calls, and the inserts of one batch, interleave with those   *)
(* of the other calls.  A message is its id: nothing rewrites the sender,  *)
(* the receiver or the text on the way.                                    *)
(***************************************************************************)
EXTENDS Naturals, FiniteSets

CONSTANTS
    Message,        \* the ids Uuid::new_v4 draws in the unread service
    Request,        \* calls of the gateway's dialog_mark_as_read
    SagaFault,      \* the faults that may happen
    Overlapping     \* may two calls in progress name the same message?

\* Every fault the handlers have a branch for, or a missing one.
SagaFaultKind ==
    { "get",        \* /messages/get fails: no parsable answer
      "refuse",     \* dialogs answers 400 or 500 before its first INSERT
      "insert",     \* an INSERT of the batch fails in the database
      "die",        \* the dialogs handler dies before it answers
      "proxy",      \* nginx answers 502/504 in place of the dialogs or the unread handler
      "remove",     \* /messages/remove answers an error and deletes nothing
      "stop" }      \* the gateway handler panics or its process dies

ASSUME FaultAssumption == SagaFault \subseteq SagaFaultKind
ASSUME OverlappingAssumption == Overlapping \in BOOLEAN

VARIABLES
    sent,           \* ids drawn so far (new_v4 never repeats one)
    unread,         \* rows of the unread service's dialog_messages
    read,           \* rows of the dialogs service's dialog_messages
    gateway,        \* where each dialog_mark_as_read call is
    ids,            \* its payload_data.ids
    batch,          \* its messages that the dialogs service has not saved
    service,        \* the dialogs handler that serves its batch
    remover         \* the unread handler that serves its remove

sagaVars == <<sent, unread, read, gateway, ids, batch, service, remover>>

\* "idle": not called; then before /messages/get, before and during
\* /send_messages_vec, during /messages/remove; then how the call ended:
\* "ok", "error" (the 500 answer) or "stopped" (no answer at all).
GatewayState == {"idle", "get", "post", "wait", "remove", "ok", "error", "stopped"}
InProgress == {"get", "post", "wait", "remove"}

\* "saving": in the loop over payload_data.messages; "ok"/"error": answered;
\* "dead": the handler is gone without an answer.
ServiceState == {"none", "saving", "ok", "error", "dead"}

\* "removing": called, its DELETE may commit; "done": it has; "failed": it has answered
\* an error.
RemoverState == {"none", "removing", "done", "failed"}

SagaInit ==
    /\ sent = {}
    /\ unread = {}
    /\ read = {}
    /\ gateway = [r \in Request |-> "idle"]
    /\ ids = [r \in Request |-> {}]
    /\ batch = [r \in Request |-> {}]
    /\ service = [r \in Request |-> "none"]
    /\ remover = [r \in Request |-> "none"]

-----------------------------------------------------------------------------
(* The unread service takes a message.                                      *)

\* Mutant: the service keeps the id a client chose, so a repeated send may
\* store a message again.
SendWithClientId(m) ==
    /\ m \notin unread
    /\ sent' = sent \union {m}
    /\ unread' = unread \union {m}
    /\ UNCHANGED <<read, gateway, ids, batch, service, remover>>

dialog_send(m) ==
    /\ m \notin sent
    /\ sent' = sent \union {m}
    /\ unread' = unread \union {m}
    /\ UNCHANGED <<read, gateway, ids, batch, service, remover>>

-----------------------------------------------------------------------------
(* The gateway's dialog_mark_as_read.                                       *)

\* A client names ids it has seen in a listing, so ids already sent; it may
\* name again those of an earlier call (a retry).
dialog_mark_as_read(r, S) ==
    /\ gateway[r] = "idle"
    /\ S \subseteq sent
    /\ Overlapping \/ \A q \in Request : gateway[q] \in InProgress => ids[q] \cap S = {}
    /\ gateway' = [gateway EXCEPT ![r] = "get"]
    /\ ids' = [ids EXCEPT ![r] = S]
    /\ UNCHANGED <<sent, unread, read, batch, service, remover>>

\* Mutant: the SELECT returns at most one message.
GetOneById(r) ==
    /\ gateway[r] = "get"
    /\ \E S \in SUBSET (ids[r] \cap unread) :
        /\ Cardinality(S) <= 1
        /\ batch' = [batch EXCEPT ![r] = S]
    /\ gateway' = [gateway EXCEPT ![r] = "post"]
    /\ UNCHANGED <<sent, unread, read, ids, service, remover>>

dialog_messages_get_by_ids(r) ==
    /\ gateway[r] = "get"
    /\ batch' = [batch EXCEPT ![r] = ids[r] \cap unread]
    /\ gateway' = [gateway EXCEPT ![r] = "post"]
    /\ UNCHANGED <<sent, unread, read, ids, service, remover>>

\* An answer that is no array of messages ends the handler: both unwrap.
GetFails(r) ==
    /\ "get" \in SagaFault
    /\ gateway[r] = "get"
    /\ gateway' = [gateway EXCEPT ![r] = "stopped"]
    /\ UNCHANGED <<sent, unread, read, ids, batch, service, remover>>

PostMessages(r) ==
    /\ gateway[r] = "post"
    /\ gateway' = [gateway EXCEPT ![r] = "wait"]
    /\ service' = [service EXCEPT ![r] = "saving"]
    /\ UNCHANGED <<sent, unread, read, ids, batch, remover>>

\* Answered before any INSERT: payload overflow, bad JSON, no connection
\* in the pool.
PostRefused(r) ==
    /\ "refuse" \in SagaFault
    /\ gateway[r] = "post"
    /\ gateway' = [gateway EXCEPT ![r] = "wait"]
    /\ service' = [service EXCEPT ![r] = "error"]
    /\ UNCHANGED <<sent, unread, read, ids, batch, remover>>

\* The status of the answer is compared with OK and nothing depends on it: the
\* unread service is called.
Proceed(r) ==
    /\ gateway[r] = "wait"
    /\ gateway' = [gateway EXCEPT ![r] = "remove"]
    /\ remover' = [remover EXCEPT ![r] = "removing"]
    /\ UNCHANGED <<sent, unread, read, ids, batch, service>>

\* Mutant: only an OK answer is noticed.
PostAnsweredOk(r) == service[r] = "ok" /\ Proceed(r)

\* Mutant: the post is sent and not awaited.
PostNotAwaited(r) == Proceed(r)

PostAnswered(r) == service[r] \in {"ok", "error"} /\ Proceed(r)

\* nginx: the upstream is dead (502), or slower than the read timeout (504)
\* and then its handler goes on.
PostAnsweredByProxy(r) ==
    /\ "proxy" \in SagaFault
    /\ service[r] \in {"saving", "dead"}
    /\ Proceed(r)

\* No proxy in between: the connection to the dead handler breaks.
ConnectionLost(r) ==
    /\ gateway[r] = "wait"
    /\ service[r] = "dead"
    /\ gateway' = [gateway EXCEPT ![r] = "stopped"]
    /\ UNCHANGED <<sent, unread, read, ids, batch, service, remover>>

\* The unread handler is done; the gateway gets its answer if it waits for it.
DeleteCommits(r, S) ==
    /\ remover[r] = "removing"
    /\ unread' = unread \ S
    /\ remover' = [remover EXCEPT ![r] = "done"]
    /\ gateway' = [gateway EXCEPT ![r] = IF @ = "remove" THEN "ok" ELSE @]
    /\ UNCHANGED <<sent, read, ids, batch, service>>

\* Mutant: nothing is removed unless the save was confirmed.
RemoveIfSaved(r) == DeleteCommits(r, IF service[r] = "ok" THEN ids[r] ELSE {})

\* Mutant: the messages left in the batch are removed, not those of the payload.
RemoveBatch(r) == DeleteCommits(r, batch[r])

\* The ids of the payload are removed, whatever was fetched and saved.
dialog_messages_remove(r) == DeleteCommits(r, ids[r])

RemoveFails(r) ==
    /\ "remove" \in SagaFault
    /\ gateway[r] = "remove"
    /\ remover' = [remover EXCEPT ![r] = "failed"]
    /\ gateway' = [gateway EXCEPT ![r] = "error"]
    /\ UNCHANGED <<sent, unread, read, ids, batch, service>>

\* nginx answers here as well, and the DELETE may be executed nevertheless.
RemoveAnsweredByProxy(r) ==
    /\ "proxy" \in SagaFault
    /\ gateway[r] = "remove"
    /\ gateway' = [gateway EXCEPT ![r] = "error"]
    /\ UNCHANGED <<sent, unread, read, ids, batch, service, remover>>

\* The unwrap of a failed connection, or a crash, at any await of the handler.
\* What it has called goes on.
GatewayStops(r) ==
    /\ "stop" \in SagaFault
    /\ gateway[r] \in InProgress
    /\ gateway' = [gateway EXCEPT ![r] = "stopped"]
    /\ UNCHANGED <<sent, unread, read, ids, batch, service, remover>>

-----------------------------------------------------------------------------
(* The dialogs service's dialog_send_messages_vec: one INSERT after         *)
(* another, no transaction, in the order SELECT happened to return.         *)

\* Mutant: a saved message gets an id of its own, as in the unread service.
InsertUnderNewId(r, m) ==
    /\ service[r] = "saving"
    /\ m \in batch[r]
    /\ \E id \in Message : read' = read \union {id}
    /\ batch' = [batch EXCEPT ![r] = @ \ {m}]
    /\ UNCHANGED <<sent, unread, gateway, ids, service, remover>>

Insert(r, m) ==
    /\ service[r] = "saving"
    /\ m \in batch[r] \ read
    /\ read' = read \union {m}
    /\ batch' = [batch EXCEPT ![r] = @ \ {m}]
    /\ UNCHANGED <<sent, unread, gateway, ids, service, remover>>

\* The first INSERT that fails ends the loop with a 500: a row with the id
\* is there already (primary key), or the database fails.
InsertFails(r) ==
    /\ service[r] = "saving"
    /\ batch[r] \cap read /= {} \/ ("insert" \in SagaFault /\ batch[r] /= {})
    /\ service' = [service EXCEPT ![r] = "error"]
    /\ UNCHANGED <<sent, unread, read, gateway, ids, batch, remover>>

AllSaved(r) ==
    /\ service[r] = "saving"
    /\ batch[r] = {}
    /\ service' = [service EXCEPT ![r] = "ok"]
    /\ UNCHANGED <<sent, unread, read, gateway, ids, batch, remover>>

ServiceDies(r) ==
    /\ "die" \in SagaFault
    /\ service[r] = "saving"
    /\ service' = [service EXCEPT ![r] = "dead"]
    /\ UNCHANGED <<sent, unread, read, gateway, ids, batch, remover>>

-----------------------------------------------------------------------------

\* What a call does without being interrupted, and what its batch does.
GatewayStep(r) ==
    \/ dialog_messages_get_by_ids(r) \/ GetFails(r)
    \/ PostMessages(r) \/ PostRefused(r)
    \/ PostAnswered(r) \/ PostAnsweredByProxy(r) \/ ConnectionLost(r)
    \/ gateway[r] = "remove" /\ dialog_messages_remove(r)
    \/ RemoveFails(r) \/ RemoveAnsweredByProxy(r)

ServiceStep(r) ==
    \/ \E m \in Message : Insert(r, m)
    \/ InsertFails(r)
    \/ AllSaved(r)

\* The DELETE of a call that has ended without its answer; it may also never come.
LateRemove(r) == gateway[r] /= "remove" /\ dialog_messages_remove(r)

Crash(r) == GatewayStops(r) \/ ServiceDies(r)

SagaNext ==
    \/ \E m \in Message : dialog_send(m)
    \/ \E r \in Request :
        \/ \E S \in SUBSET Message : dialog_mark_as_read(r, S)
        \/ GatewayStep(r)
        \/ ServiceStep(r)
        \/ LateRemove(r)
        \/ Crash(r)

SagaSpec == SagaInit /\ [][SagaNext]_sagaVars

\* The runtimes poll a handler that is ready; a call waiting for a handler
\* that is gone is answered by nginx or sees its connection close.  Nobody
\* has to send, to mark, or to crash, and a DELETE nobody waits for need not end.
Fairness ==
    \A r \in Request : WF_sagaVars(GatewayStep(r)) /\ WF_sagaVars(ServiceStep(r))

FairSpec == SagaSpec /\ Fairness
==============================================================================
