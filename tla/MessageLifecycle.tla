--------------------------- MODULE MessageLifecycle ---------------------------
(***************************************************************************)
(* What the dialog services promise about one message, with the two        *)
(* stores and the saga of the gateway abstracted away                      *)
(* (report/lesson_29/README.md, cases 1 and 3): a message is sent once,    *)
(* becomes unread, is copied to the read messages and only then leaves     *)
(* the unread ones.  No step takes it back.                                *)
(*                                                                         *)
(* Lossy admits the life cycle the code adds to the documented one:        *)
(* the message leaves the unread store although the read store has not got *)
(* it ("gone"), and may or may not be saved there afterwards.              *)
(***************************************************************************)

CONSTANTS
    Message,    \* message ids
    Lossy       \* a Boolean: may a message leave the unread store unsaved?

VARIABLE stage    \* where each message is

Init == stage = [m \in Message |-> "new"]

Send(m) ==
    /\ stage[m] = "new"
    /\ stage' = [stage EXCEPT ![m] = "unread"]

\* The stage a message that is not in the read store yet gets by being saved.
Saved == [s \in {"unread", "gone"} |-> IF s = "unread" THEN "both" ELSE "read"]

Save(m) ==
    /\ stage[m] \in DOMAIN Saved
    /\ stage' = [stage EXCEPT ![m] = Saved[@]]

\* The messages of S leave the unread store together.
Remove(S) ==
    /\ \A m \in S : stage[m] = "both" \/ (Lossy /\ stage[m] = "unread")
    /\ stage' = [m \in Message |->
                    IF m \notin S THEN stage[m]
                    ELSE IF stage[m] = "both" THEN "read" ELSE "gone"]

Next ==
    \/ \E m \in Message : Send(m) \/ Save(m)
    \/ \E S \in SUBSET Message : Remove(S)

Spec == Init /\ [][Next]_stage
==============================================================================
