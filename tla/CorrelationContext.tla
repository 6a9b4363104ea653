------------------------- MODULE CorrelationContext -------------------------
(***************************************************************************)
(* The correlation context (app/observability/context.py): context         *)
(* variables, of which every task has its own copy, bound for the duration *)
(* of nested scopes.                                                       *)
(*                                                                         *)
(* scopes[t] is the stack of scopes task t is in, innermost last.  A scope *)
(* has the tokens bind_context returned (the old value of each field it    *)
(* set) and, kept only to state what is right, what it bound and which     *)
(* fields a failing bind has overwritten in it for good.  The first one    *)
(* stands for the copy the task was started with; it is never left.        *)
(***************************************************************************)
EXTENDS Naturals, Sequences

CONSTANTS
    Tasks,      \* the tasks
    Fields,     \* the keys of _ALL_VARS
    Values,     \* the values a field can have
    Bound,      \* bound: those among them that scopes bind
    MaxDepth    \* bound: how deep the scopes of each task are nested

ASSUME BoundAssumption == Bound \subseteq Values /\ MaxDepth \in [Tasks -> Nat \ {0}]

Unset == "unset"

VARIABLES
    ctx,        \* the context variables in the copy of each task
    scopes      \* the scopes each task has open; none: it does not run

ctxVars == <<ctx, scopes>>

Bindings == UNION {[S -> Bound] : S \in SUBSET Fields}

Running(t) == scopes[t] # <<>>
Depth(t) == Len(scopes[t])

CtxInit ==
    /\ ctx = [t \in Tasks |-> [f \in Fields |-> Unset]]
    /\ scopes = [t \in Tasks |-> <<>>]

Base(copy) == [bound |-> copy, tokens |-> <<>>, lost |-> {}]

\* A task starts with a copy of the context of whoever starts it.
StartTask(t, copy) ==
    /\ ~Running(t)
    /\ ctx' = [ctx EXCEPT ![t] = copy]
    /\ scopes' = [scopes EXCEPT ![t] = <<Base(copy)>>]

Overwrite(t, b) ==
    ctx' = [ctx EXCEPT ![t] = [f \in Fields |-> IF f \in DOMAIN b THEN b[f] ELSE @[f]]]

\* A variant: the tokens are taken after the values were set.
EnterScope_LateTokens(t) ==
    /\ Running(t) /\ Depth(t) < MaxDepth[t]
    /\ \E b \in Bindings :
        /\ Overwrite(t, b)
        /\ scopes' = [scopes EXCEPT ![t] =
               Append(@, [bound |-> b, tokens |-> b, lost |-> {}])]

\* bind_context with known fields: those given as None are left alone.
EnterScope(t) ==
    /\ Running(t) /\ Depth(t) < MaxDepth[t]
    /\ \E b \in Bindings :
        /\ Overwrite(t, b)
        /\ scopes' = [scopes EXCEPT ![t] =
               Append(@, [bound  |-> b,
                          tokens |-> [f \in DOMAIN b |-> ctx[t][f]],
                          lost   |-> {}])]

\* bind_context with an unknown field behind known ones: these are set, then
\* KeyError is raised and their tokens are gone.
BindFails(t) ==
    /\ Running(t) /\ Depth(t) < MaxDepth[t]
    /\ \E b \in Bindings :
        /\ Overwrite(t, b)
        /\ scopes' = [scopes EXCEPT ![t][Depth(t)].lost = @ \cup DOMAIN b]

\* The stack without its innermost scope; what was overwritten in it and not
\* reset stays overwritten around it.
Leave(s) ==
    LET top == s[Len(s)]
        n == Len(s) - 1
    IN  [SubSeq(s, 1, n) EXCEPT ![n].lost = @ \cup (top.lost \ DOMAIN top.tokens)]

\* A variant: the fields are unset instead of reset.
ExitScope_Unsets(t) ==
    /\ Depth(t) > 1
    /\ Overwrite(t, [f \in DOMAIN scopes[t][Depth(t)].tokens |-> Unset])
    /\ scopes' = [scopes EXCEPT ![t] = Leave(@)]

\* _ContextTokens.restore, on every way out of the scope.
ExitScope(t) ==
    /\ Depth(t) > 1
    /\ Overwrite(t, scopes[t][Depth(t)].tokens)
    /\ scopes' = [scopes EXCEPT ![t] = Leave(@)]

-----------------------------------------------------------------------------
(* Properties.                                                             *)

Scope == [bound : UNION {[S -> Values \cup {Unset}] : S \in SUBSET Fields},
          tokens : UNION {[S -> Values \cup {Unset}] : S \in SUBSET Fields},
          lost : SUBSET Fields]

CtxTypeOK ==
    /\ ctx \in [Tasks -> [Fields -> Values \cup {Unset}]]
    /\ \A t \in Tasks : scopes[t] \in Seq(Scope) /\ Depth(t) <= MaxDepth[t]

\* The innermost scope of a task that binds a field.
Binder(t, f) ==
    CHOOSE i \in 1 .. Depth(t) :
        /\ f \in DOMAIN scopes[t][i].bound
        /\ \A j \in i + 1 .. Depth(t) : f \notin DOMAIN scopes[t][j].bound

\* Binding is lexical: however scopes were entered and left, by return or by
\* exception, a field has in each task the value
\* of the innermost open scope that binds it, else the one the task was
\* started with - unless a bind that failed half-way overwrote it there.
InnermostWins ==
    \A t \in Tasks, f \in Fields : Running(t) =>
        LET i == Binder(t, f)
        IN  (\A j \in i .. Depth(t) : f \notin scopes[t][j].lost)
                => ctx[t][f] = scopes[t][i].bound[f]
=============================================================================
