------------------------------ MODULE MCDedup ------------------------------
(* Constants for model checking the deduplicator.                          *)
EXTENDS Dedup, TLC

Symmetry == Permutations(Acqs)
=============================================================================
