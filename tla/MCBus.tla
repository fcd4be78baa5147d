------------------------------- MODULE MCBus -------------------------------
(* Start and two loops on a bus made with a buffer of 0 or of 2.           *)
EXTENDS Bus

CONSTANTS start, loop1, loop2

MCPublishers == {start, loop1, loop2}
MCBuffers == {0, 2}
=============================================================================
