-------------------------- MODULE ConnectionBudget --------------------------
(***************************************************************************)
(* What DatabaseSettings promises of the pool (app/config/settings.py, the *)
(* fields pool_size and max_overflow): whoever asks, and however the       *)
(* sessions and probes interleave and fail, the process never has more     *)
(* than Limit connections open on the server, a connection is used by one  *)
(* caller at a time, and an idle connection is one somebody returned.      *)
(***************************************************************************)
EXTENDS Naturals, FiniteSets

CONSTANTS
    Callers,   \* the units of work that may use the database
    Limit      \* pool_size + max_overflow

VARIABLES
    using,     \* the callers that hold (or are opening) a connection
    spare      \* how many open connections nobody holds

budgetVars == <<using, spare>>

BudgetInit == using = {} /\ spare = 0

\* A caller gets a spare connection.
Reuse(c) ==
    /\ c \notin using
    /\ spare > 0
    /\ using' = using \cup {c}
    /\ spare' = spare - 1

\* A caller opens one more connection, within the limit.
Open(c) ==
    /\ c \notin using
    /\ Cardinality(using) + spare < Limit
    /\ using' = using \cup {c}
    /\ spare' = spare

\* A caller is through with its connection, which is kept or closed.
GiveBack(c) ==
    /\ c \in using
    /\ using' = using \ {c}
    /\ spare' \in {spare, spare + 1}

BudgetNext == \E c \in Callers : Reuse(c) \/ Open(c) \/ GiveBack(c)

BudgetSpec == BudgetInit /\ [][BudgetNext]_budgetVars

\* The limit itself.
WithinBudget == Cardinality(using) + spare <= Limit
=============================================================================
