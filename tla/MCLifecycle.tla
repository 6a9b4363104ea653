---------------------------- MODULE MCLifecycle ----------------------------
(* Lifecycle for TLC: requests are interchangeable, a symmetry for the runs *)
(* that check no liveness.                                                  *)
EXTENDS Lifecycle, TLC

RequestSymmetry == Permutations(Requests)
=============================================================================
