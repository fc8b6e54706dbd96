------------------------- MODULE MCMergeCompletion -------------------------
(* MergeCompletion for TLC: the callers are interchangeable.               *)
EXTENDS MergeCompletion, TLC

Symmetry == Permutations(Callers)
=============================================================================
