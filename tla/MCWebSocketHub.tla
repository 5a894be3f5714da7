--------------------------- MODULE MCWebSocketHub ---------------------------
(* Constants of WebSocketHub for TLC. *)
EXTENDS WebSocketHub, TLC

\* Connections, and users, are interchangeable.
HubSymmetry == Permutations(Conn) \cup Permutations(User)
=============================================================================
