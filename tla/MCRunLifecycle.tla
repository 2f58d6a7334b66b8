--------------------------- MODULE MCRunLifecycle ---------------------------
(* Model values and symmetry for the runs of RunLifecycle. *)
EXTENDS RunLifecycle, TLC

Symmetry ==
  Permutations(Workers) \cup Permutations(Operators) \cup Permutations(Schedulers)
=============================================================================
