----------------------------- MODULE MCService -----------------------------
(* Service for TLC: one connection for two requests.  Liveness is checked,   *)
(* so requests are not a symmetry set.                                       *)
EXTENDS Service
=============================================================================
