---------------------------- MODULE MCRequestWork ----------------------------
(* RequestWork for TLC: one request whose handler nests scopes, and another  *)
(* one beside it whose handler uses none.                                    *)
EXTENDS RequestWork, TLC

CONSTANTS r1, r2

MCDepth == (r1 :> 3) @@ (r2 :> 1)

Backpressure(micros) ==
    [kind |-> "BackpressureError", idempotent |-> FALSE, retryAfter |-> micros]

MCRaised == {ClassifyException("timeout", FALSE),
             Backpressure(400000), Backpressure(2000400)}
=============================================================================
