-------------------------- MODULE MCWebSocketClient --------------------------
(* Instances of WebSocketClient for TLC. *)
EXTENDS WebSocketClient, TLC

\* Invocations are interchangeable.
Symmetry == Permutations(Calls)
=============================================================================
