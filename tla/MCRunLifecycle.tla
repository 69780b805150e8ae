--------------------------- MODULE MCRunLifecycle ---------------------------
(* Symmetry for the safety runs of RunLifecycle. *)
EXTENDS RunLifecycle, TLC

Symmetry == Permutations(LiveWorkers) \cup Permutations(PlanWorkers) \cup Permutations(Requests)
=============================================================================
