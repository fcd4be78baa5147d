------------------------------- MODULE MCRtds -------------------------------
(* Constants for model checking the real-time data client.                 *)
EXTENDS Rtds

MCTopics == {"crypto_prices"}
=============================================================================
