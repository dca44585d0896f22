------------------------------ MODULE MCWebSocket ------------------------------
(* Instances of WebSocket for TLC. *)
EXTENDS WebSocketProps, TLC

CONSTANTS alice, c1, c2

\* One user, who connects twice.
Owner == [c \in Conn |-> alice]
==============================================================================
