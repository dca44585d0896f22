---------------------------- MODULE MCPatroniRewind ----------------------------
(***************************************************************************)
(* Three nodes, of which two may rewind and one copies; a node that rewinds *)
(* leads at the beginning.                                                 *)
(***************************************************************************)
EXTENDS PatroniRewind

CONSTANTS n1, n2, n3

Configurations == {[n \in Node |-> IF n = n2 THEN "reinitialize" ELSE "rewind"]}
================================================================================
