---------------------------- MODULE MCWebSocket -----------------------------
(* Constants for model checking the streaming adapter.                     *)
EXTENDS WebSocket

MCConns == 1..2
=============================================================================
