----------------------------- MODULE MCDialogSaga -----------------------------
(* Instances of DialogSaga for TLC. *)
EXTENDS DialogSagaProps, TLC

\* Messages are alike for every property checked without fairness, and so
\* are calls.
Symmetry == Permutations(Message) \union Permutations(Request)
==============================================================================
