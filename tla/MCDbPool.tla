------------------------------ MODULE MCDbPool ------------------------------
(* DbPool for TLC: sessions are interchangeable, a symmetry for the runs    *)
(* that check no liveness.                                                  *)
EXTENDS DbPool, TLC

SessionSymmetry == Permutations(Sessions)
=============================================================================
