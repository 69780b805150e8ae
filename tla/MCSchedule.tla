----------------------------- MODULE MCSchedule -----------------------------
(* Symmetry for the safety run of Schedule. *)
EXTENDS Schedule, TLC

Symmetry == Permutations(Editors)
=============================================================================
