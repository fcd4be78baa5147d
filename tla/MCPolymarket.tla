---------------------------- MODULE MCPolymarket ----------------------------
(* Constants for model checking the polling adapter.                       *)
EXTENDS Polymarket

MCAnonymous == {2}
=============================================================================
