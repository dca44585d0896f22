---------------------------- MODULE DialogSagaProps ----------------------------
(***************************************************************************)
(* What the mark-as-read saga guarantees, and what its documentation says  *)
(* of it.                                                                  *)
(***************************************************************************)
EXTENDS DialogSaga

SagaTypeOK ==
    /\ sent \subseteq Message
    /\ unread \subseteq sent
    /\ read \subseteq sent
    /\ gateway \in [Request -> GatewayState]
    /\ ids \in [Request -> SUBSET sent]
    /\ batch \in [Request -> SUBSET sent]
    /\ service \in [Request -> ServiceState]
    /\ remover \in [Request -> RemoverState]

\* Messages no store holds.
Missing == sent \ (unread \union read)

\* A message that is in neither store was in the batch of a call whose remove was
\* executed although its batch was not saved: the status of /send_messages_vec is
\* compared with OK and ignored (main.rs:1173-1175).  No other interleaving, fault,
\* crash or late DELETE of the saga loses a message.
LossNeedsIgnoredStatus ==
    \A m \in Missing : \E r \in Request :
        /\ m \in batch[r]
        /\ service[r] /= "ok"
        /\ remover[r] = "done"

\* A message is in both stores (a listing shows it twice) only while a call
\* that named it is between its save and its remove, or if such a call ended
\* and its remove has not been executed.
DuplicateHasCause ==
    \A m \in unread \cap read : \E r \in Request :
        /\ m \in ids[r]
        /\ service[r] /= "none"
        /\ remover[r] /= "done"
        /\ gateway[r] \in {"wait", "remove", "error", "stopped"}

\* Case 3 of report/lesson_29/README.md: the remove is sent after the dialogs
\* service has confirmed the save, so a message leaves the unread store only
\* when the read store has it.
RemovedOnlyWhenSaved == [][unread \ unread' \subseteq read]_sagaVars

\* Nothing a client has sent disappears.
NothingLost == Missing = {}

\* The answer "ok" of dialog_mark_as_read means that every message of the
\* payload is among the read messages and none is unread any more.
OkMeansRead ==
    \A r \in Request : gateway[r] = "ok" => ids[r] \subseteq read \ unread

\* A call comes to an end, whatever fails on the way: nginx or a broken
\* connection ends the wait for a handler that died.
CallEnds ==
    \A r \in Request :
        gateway[r] = "get" ~> gateway[r] \in {"ok", "error", "stopped"}

\* A marked message ends up read and leaves the unread counter, unless its
\* call stops at /messages/get.
MarkedIsRead ==
    \A r \in Request, m \in Message :
        gateway[r] = "get" /\ m \in ids[r]
            ~> m \in read \ unread \/ (gateway[r] = "stopped" /\ service[r] = "none")

\* The unread and the read store as one abstract life cycle per message: it
\* is never unread again, never leaves the read store, and (unless two calls
\* overlap or something fails) leaves the unread store only for the read one.
StageOf(m) ==
    CASE m \in unread \cap read -> "both"
      [] m \in unread \ read    -> "unread"
      [] m \in read \ unread    -> "read"
      [] m \in Missing          -> "gone"
      [] OTHER                  -> "new"

Life == INSTANCE MessageLifecycle WITH
            stage <- [m \in Message |-> StageOf(m)],
            Lossy <- Overlapping \/ ~(SagaFault \subseteq {"get"})

ImplementsLifecycle == Life!Spec
==============================================================================
