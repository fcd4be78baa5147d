----------------------------- MODULE MCBreaker ------------------------------
(* Constants for model checking the circuit breaker.                       *)
EXTENDS Breaker, TLC

CONSTANTS t1, t2, m1, m2
MCTraders == {t1, t2}
MCMarkets == {m1, m2}
Symmetry == Permutations(MCTraders)
=============================================================================
