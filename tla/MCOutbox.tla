------------------------------ MODULE MCOutbox ------------------------------
(* Outbox for TLC: the dispatcher incarnations are interchangeable.        *)
EXTENDS Outbox, TLC

Symmetry == Permutations(Relays)
=============================================================================
