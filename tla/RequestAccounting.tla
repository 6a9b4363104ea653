------------------------- MODULE RequestAccounting -------------------------
(***************************************************************************)
(* What the HTTP metrics promise whoever scrapes them                      *)
(* (app/observability/metrics.py, http_requests_in_flight and              *)
(* http_requests_total): a request is in flight, then counted once under   *)
(* one status, in the same step in which it stops being in flight; only    *)
(* then its client is told, and told the status that was counted.          *)
(***************************************************************************)
EXTENDS Integers

CONSTANTS
    Clients,   \* the requests of the clients
    Codes,     \* the statuses
    NoCode     \* none of them

VARIABLES
    inside,    \* the requests being served
    gauge,     \* http_requests_in_flight
    counted,   \* the status under which each was added to http_requests_total
    told       \* the status its client got

accountVars == <<inside, gauge, counted, told>>

AccountInit ==
    /\ inside = {}
    /\ gauge = 0
    /\ counted = [c \in Clients |-> NoCode]
    /\ told = [c \in Clients |-> NoCode]

\* A request comes in.
Enter(c) ==
    /\ c \notin inside
    /\ counted[c] = NoCode
    /\ inside' = inside \cup {c}
    /\ gauge' = gauge + 1
    /\ UNCHANGED <<counted, told>>

\* It is served, and counted.
Count(c) ==
    /\ c \in inside
    /\ inside' = inside \ {c}
    /\ gauge' = gauge - 1
    /\ \E code \in Codes : counted' = [counted EXCEPT ![c] = code]
    /\ UNCHANGED told

\* Its client hears the status it was counted under.
Tell(c) ==
    /\ counted[c] # NoCode
    /\ told[c] = NoCode
    /\ told' = [told EXCEPT ![c] = counted[c]]
    /\ UNCHANGED <<inside, gauge, counted>>

AccountNext == \E c \in Clients : Enter(c) \/ Count(c) \/ Tell(c)

AccountSpec == AccountInit /\ [][AccountNext]_accountVars
=============================================================================
