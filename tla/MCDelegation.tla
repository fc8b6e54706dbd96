---------------------------- MODULE MCDelegation ----------------------------
(* Delegation for TLC: every kind of registry row, and each misuse with a  *)
(* row on which it matters. Tasks and appliers are interchangeable.        *)
EXTENDS Delegation, TLC

MCScenarios ==
    { <<"self_edit", {}>>, <<"local", {}>>, <<"mirror", {}>>, <<"url", {}>>,
      <<"placeholder", {}>>, <<"url", {"overlap"}>>,
      <<"placeholder", {"unreadable", "forced"}>>, <<"unknown", {"forced"}>> }

Symmetry == Permutations(Tasks) \cup Permutations(Appliers)
=============================================================================
