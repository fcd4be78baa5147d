------------------------------ MODULE MCMerge -------------------------------
(* Model checking of the merging of pairs; the constants are in the cfg.   *)
EXTENDS Merge
=============================================================================
