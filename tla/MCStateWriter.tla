--------------------------- MODULE MCStateWriter ---------------------------
(* Model values of the runs of StateWriter.                                *)
EXTENDS StateWriter, TLC

Symmetry == Permutations(Writers) \cup Permutations(Runs)
=============================================================================
