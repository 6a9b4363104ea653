----------------------------- MODULE MCPipeline -----------------------------
(* Pipeline for TLC: requests are interchangeable, a symmetry for the runs  *)
(* that check no liveness.                                                  *)
EXTENDS Pipeline, TLC

RequestSymmetry == Permutations(Requests)
=============================================================================
