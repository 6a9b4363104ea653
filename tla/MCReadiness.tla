---------------------------- MODULE MCReadiness ----------------------------
(* Readiness for TLC.  One tick is a second, and the timeouts are the       *)
(* defaults of health.py and RedisSettings.  Two waits are a connection and *)
(* a PING, or two PINGs on an idle connection, or more than the budget.     *)
(* Probers are interchangeable, a symmetry for the runs that check no       *)
(* liveness.                                                                *)
EXTENDS Readiness, TLC

DefaultBudget == 3
DefaultConnectTimeout == 2
DefaultSocketTimeout == 2

ProberSymmetry == Permutations(Probers)
=============================================================================
