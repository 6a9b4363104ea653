--------------------------- MODULE ContextProofs ---------------------------
(***************************************************************************)
(* Proofs about CorrelationContext, for any tasks, fields and values and   *)
(* any nesting: what every operation on the context keeps true.            *)
(* RequestWorkProofs carries it over to the requests that use them.        *)
(***************************************************************************)
EXTENDS CorrelationContext, SequenceTheorems, TLAPS

\* Among the first n scopes of the stack s, scope i is the innermost one that
\* binds f.
Binds(s, f, i, n) ==
    /\ f \in DOMAIN s[i].bound
    /\ \A j \in i + 1 .. n : f \notin DOMAIN s[j].bound

\* No bind that failed has overwritten f in the scopes i to n.
Intact(s, f, i, n) == \A j \in i .. n : f \notin s[j].lost

\* The stack s explains the context c, now and after every exit to come: the
\* tokens of a scope hold what the scopes below it bind.
Lexical(s, c) ==
    /\ \A n \in 1 .. Len(s), f \in Fields : \E i \in 1 .. n : Binds(s, f, i, n)
    /\ \A k \in 2 .. Len(s) : DOMAIN s[k].tokens = DOMAIN s[k].bound
    /\ \A f \in Fields, i \in 1 .. Len(s) :
           Binds(s, f, i, Len(s)) /\ Intact(s, f, i, Len(s)) => c[f] = s[i].bound[f]
    /\ \A k \in 2 .. Len(s), f \in Fields, i \in 1 .. Len(s) :
           /\ i < k
           /\ f \in DOMAIN s[k].tokens
           /\ Binds(s, f, i, k - 1)
           /\ Intact(s, f, i, k - 1)
           => s[k].tokens[f] = s[i].bound[f]

\* The first n scopes of the stacks r and s differ only in what they have
\* lost: r has lost L in scope n, and what s has below it.
SameBindings(r, s, n) ==
    \A j \in 1 .. n : r[j].bound = s[j].bound /\ r[j].tokens = s[j].tokens

LosesOnTop(r, s, n, L) ==
    \A j \in 1 .. n : r[j].lost = IF j = n THEN L ELSE s[j].lost

CtxInv ==
    /\ CtxTypeOK
    /\ scopes \in [Tasks -> Seq(Scope)]
    /\ \A t \in Tasks : Lexical(scopes[t], ctx[t])

-----------------------------------------------------------------------------
(* Bindings and scopes.                                                    *)

Partial == UNION {[S -> Values \cup {Unset}] : S \in SUBSET Fields}

LEMMA BindingsArePartial ==
    ASSUME NEW b \in Bindings
    PROVE  b \in Partial /\ DOMAIN b \subseteq Fields
           /\ \A f \in DOMAIN b : b[f] \in Values
  BY BoundAssumption DEF Bindings, Partial

\* What Overwrite makes of a context.
LEMMA OverwriteValue ==
    ASSUME CtxTypeOK, NEW t \in Tasks, NEW b, Overwrite(t, b),
           \A f \in DOMAIN b : b[f] \in Values \cup {Unset}
    PROVE  /\ ctx' \in [Tasks -> [Fields -> Values \cup {Unset}]]
           /\ \A u \in Tasks : u # t => ctx'[u] = ctx[u]
           /\ \A f \in Fields : ctx'[t][f] = IF f \in DOMAIN b THEN b[f] ELSE ctx[t][f]
<1>1. ctx \in [Tasks -> [Fields -> Values \cup {Unset}]]
  BY DEF CtxTypeOK
<1>2. DEFINE c == [f \in Fields |-> IF f \in DOMAIN b THEN b[f] ELSE ctx[t][f]]
<1>3. c \in [Fields -> Values \cup {Unset}]
  BY <1>1
<1>4. ctx' = [ctx EXCEPT ![t] = c]
  BY DEF Overwrite
<1>5. HIDE DEF c
<1>6. ctx' \in [Tasks -> [Fields -> Values \cup {Unset}]] /\ ctx'[t] = c
      /\ \A u \in Tasks : u # t => ctx'[u] = ctx[u]
  BY <1>1, <1>3, <1>4
<1>7. \A f \in Fields : c[f] = IF f \in DOMAIN b THEN b[f] ELSE ctx[t][f]
  BY DEF c
<1>8. QED
  BY <1>6, <1>7

LEMMA LoseOfScope ==
    ASSUME NEW x \in Scope, NEW D \in SUBSET Fields
    PROVE  LET y == [x EXCEPT !.lost = @ \cup D]
           IN  y \in Scope /\ y.bound = x.bound /\ y.tokens = x.tokens
               /\ y.lost = x.lost \cup D
  BY DEF Scope

\* A failed bind changes nothing of a stack but what its top scope has lost.
LEMMA LoseTop ==
    ASSUME NEW s \in Seq(Scope), s # <<>>, NEW D \in SUBSET Fields
    PROVE  LET r == [s EXCEPT ![Len(s)].lost = @ \cup D]
           IN  /\ r \in Seq(Scope) /\ Len(r) = Len(s)
               /\ SameBindings(r, s, Len(s))
               /\ LosesOnTop(r, s, Len(s), s[Len(s)].lost \cup D)
<1>1. Len(s) \in 1 .. Len(s) /\ Len(s) \in Nat
  BY EmptySeq, LenProperties
<1>2. s[Len(s)] \in Scope
  BY <1>1, ElementOfSeq
<1>3. DEFINE top == [s[Len(s)] EXCEPT !.lost = @ \cup D]
<1>4. top \in Scope /\ top.bound = s[Len(s)].bound /\ top.tokens = s[Len(s)].tokens
      /\ top.lost = s[Len(s)].lost \cup D
  BY <1>2, LoseOfScope
<1>5. DEFINE r == [s EXCEPT ![Len(s)].lost = @ \cup D]
<1>6. r = [s EXCEPT ![Len(s)] = top]
  OBVIOUS
<1>7. HIDE DEF top, r
<1>8. /\ r \in Seq(Scope) /\ Len(r) = Len(s)
      /\ \A j \in 1 .. Len(s) : r[j] = IF j = Len(s) THEN top ELSE s[j]
  BY <1>1, <1>4, <1>6, ExceptSeq
<1>9. SameBindings(r, s, Len(s)) /\ LosesOnTop(r, s, Len(s), s[Len(s)].lost \cup D)
  BY <1>4, <1>8 DEF SameBindings, LosesOnTop
<1>10. QED
  BY <1>8, <1>9 DEF r

\* Leaving a scope: the stack below it, where the scope it returns to has
\* lost what the scope itself lost and does not reset.
LEMMA LeaveBelow ==
    ASSUME NEW s \in Seq(Scope), NEW n \in Nat \ {0}, Len(s) = n + 1
    PROVE  LET r == Leave(s)
               D == s[n + 1].lost \ DOMAIN s[n + 1].tokens
           IN  /\ r \in Seq(Scope) /\ Len(r) = n
               /\ SameBindings(r, s, n)
               /\ LosesOnTop(r, s, n, s[n].lost \cup D)
<1>1. DEFINE q == SubSeq(s, 1, n)
             D == s[n + 1].lost \ DOMAIN s[n + 1].tokens
             r == Leave(s)
<1>2. n \in 1 .. Len(s) /\ n + 1 \in 1 .. Len(s) /\ Len(s) - 1 = n
  OBVIOUS
<1>3. \A i \in 1 .. n : s[i] \in Scope
  BY ElementOfSeq
<1>4. q \in Seq(Scope) /\ Len(q) = n /\ \A i \in 1 .. n : q[i] = s[i]
  <2>1. /\ q \in Seq(Scope) /\ Len(q) = IF 1 <= n THEN n - 1 + 1 ELSE 0
        /\ \A i \in 1 .. n - 1 + 1 : q[i] = s[1 + i - 1]
    BY <1>3, SubSeqProperties
  <2>2. QED
    BY <2>1
<1>5. s[n + 1] \in Scope
  BY <1>2, ElementOfSeq
<1>6. D \in SUBSET Fields
  BY <1>5 DEF Scope
<1>7. r = [q EXCEPT ![Len(q)].lost = @ \cup D]
  BY <1>2, <1>4 DEF Leave
<1>8. HIDE DEF D, q, r
<1>9. q # <<>>
  <2>1. Len(q) # 0
    BY <1>4
  <2>2. QED
    BY <2>1
<1>10. /\ r \in Seq(Scope) /\ Len(r) = n
       /\ SameBindings(r, q, n) /\ LosesOnTop(r, q, n, q[n].lost \cup D)
  BY <1>4, <1>6, <1>7, <1>9, LoseTop
<1>11. q[n] = s[n]
  BY <1>4
<1>12. SameBindings(r, s, n) /\ LosesOnTop(r, s, n, s[n].lost \cup D)
  BY <1>4, <1>10, <1>11 DEF SameBindings, LosesOnTop
<1>13. QED
  BY <1>10, <1>12 DEF D, r

-----------------------------------------------------------------------------
(* The operations.                                                         *)

\* A step of task t that makes its stack s.
LEMMA StackChanged ==
    ASSUME CtxInv, NEW t \in Tasks, NEW s \in Seq(Scope), Len(s) <= MaxDepth[t],
           scopes' = [scopes EXCEPT ![t] = s],
           ctx' \in [Tasks -> [Fields -> Values \cup {Unset}]],
           \A u \in Tasks : u # t => ctx'[u] = ctx[u],
           Lexical(s, ctx'[t])
    PROVE  CtxInv' /\ scopes'[t] = s /\ \A u \in Tasks : u # t => scopes'[u] = scopes[u]
<1>1. scopes \in [Tasks -> Seq(Scope)]
  BY DEF CtxInv
<1>2. /\ scopes' \in [Tasks -> Seq(Scope)] /\ scopes'[t] = s
      /\ \A u \in Tasks : u # t => scopes'[u] = scopes[u]
  BY <1>1
<1>3. CtxTypeOK'
  BY <1>2 DEF CtxInv, CtxTypeOK, Depth
<1>4. ASSUME NEW u \in Tasks PROVE Lexical(scopes'[u], ctx'[u])
  BY <1>2 DEF CtxInv
<1>5. (\A u \in Tasks : Lexical(scopes[u], ctx[u]))'
  BY <1>4 DEF Lexical, Binds, Intact
<1>6. QED
  BY <1>2, <1>3, <1>5 DEF CtxInv

\* A task that starts is in one scope, which binds every field.
LEMMA StartTaskOK ==
    ASSUME CtxInv, NEW t \in Tasks,
           NEW copy \in [Fields -> Values \cup {Unset}], StartTask(t, copy)
    PROVE  /\ CtxInv'
           /\ Len(scopes'[t]) = 1 /\ scopes'[t][1].bound = copy
           /\ \A u \in Tasks : u # t => scopes'[u] = scopes[u]
<1>1. ctx' = [ctx EXCEPT ![t] = copy] /\ scopes' = [scopes EXCEPT ![t] = <<Base(copy)>>]
  BY DEF StartTask
<1>2. ctx \in [Tasks -> [Fields -> Values \cup {Unset}]]
  BY DEF CtxInv, CtxTypeOK
<1>3. ctx' \in [Tasks -> [Fields -> Values \cup {Unset}]] /\ ctx'[t] = copy
      /\ \A u \in Tasks : u # t => ctx'[u] = ctx[u]
  BY <1>1, <1>2
<1>4. DEFINE s == <<Base(copy)>>
<1>5. s \in Seq(Scope)
  <2>1. <<>> \in [{} -> Values \cup {Unset}]
    OBVIOUS
  <2>2. <<>> \in UNION {[S -> Values \cup {Unset}] : S \in SUBSET Fields}
    BY <2>1
  <2>3. Base(copy) \in Scope
    BY <2>2 DEF Base, Scope
  <2>4. QED
    BY <2>3
<1>6. Len(s) = 1 /\ s[1].bound = copy /\ s[1].lost = {}
  BY DEF Base
<1>7. Lexical(s, ctx'[t])
  BY <1>3, <1>6 DEF Lexical, Binds, Intact
<1>8. Len(s) <= MaxDepth[t]
  BY <1>6, BoundAssumption
<1>9. HIDE DEF s
<1>10. QED
  BY <1>1, <1>3, <1>5, <1>6, <1>7, <1>8, StackChanged DEF s

\* A scope on top of the stack: its tokens are what the stack below explains.
LEMMA EnterScopeOK ==
    ASSUME CtxInv, NEW t \in Tasks, EnterScope(t)
    PROVE  /\ CtxInv'
           /\ scopes[t] # <<>> /\ scopes'[t] # <<>> /\ scopes'[t][1] = scopes[t][1]
           /\ \A u \in Tasks : u # t => scopes'[u] = scopes[u]
<1>1. PICK b \in Bindings :
          /\ Overwrite(t, b)
          /\ scopes' = [scopes EXCEPT ![t] =
                 Append(@, [bound  |-> b,
                            tokens |-> [f \in DOMAIN b |-> ctx[t][f]],
                            lost   |-> {}])]
  BY DEF EnterScope
<1>2. DEFINE s == scopes[t]
             new == [bound |-> b, tokens |-> [f \in DOMAIN b |-> ctx[t][f]], lost |-> {}]
             r == Append(s, new)
<1>3. /\ CtxTypeOK /\ scopes \in [Tasks -> Seq(Scope)] /\ Lexical(s, ctx[t])
      /\ s # <<>> /\ Len(s) < MaxDepth[t]
  BY DEF CtxInv, EnterScope, Running, Depth
<1>4. s \in Seq(Scope) /\ Len(s) \in Nat \ {0}
  BY <1>3, EmptySeq, LenProperties
<1>5. b \in Partial /\ DOMAIN b \subseteq Fields /\ \A f \in DOMAIN b : b[f] \in Values
  BY BindingsArePartial
<1>6. /\ ctx' \in [Tasks -> [Fields -> Values \cup {Unset}]]
      /\ \A u \in Tasks : u # t => ctx'[u] = ctx[u]
      /\ \A f \in Fields : ctx'[t][f] = IF f \in DOMAIN b THEN b[f] ELSE ctx[t][f]
  BY <1>1, <1>3, <1>5, OverwriteValue
<1>7. new \in Scope
  <2>1. ctx[t] \in [Fields -> Values \cup {Unset}]
    BY <1>3 DEF CtxTypeOK
  <2>2. [f \in DOMAIN b |-> ctx[t][f]] \in Partial
    BY <1>5, <2>1 DEF Partial
  <2>3. QED
    BY <1>5, <2>2 DEF Scope, Partial
<1>8. /\ new.bound = b /\ DOMAIN new.tokens = DOMAIN b /\ new.lost = {}
      /\ \A f \in DOMAIN b : new.tokens[f] = ctx[t][f]
  OBVIOUS
<1>9. HIDE DEF new
<1>10. /\ r \in Seq(Scope) /\ Len(r) = Len(s) + 1 /\ r # <<>>
       /\ \A i \in 1 .. Len(s) : r[i] = s[i]
       /\ r[Len(s) + 1] = new
  BY <1>4, <1>7, AppendProperties
<1>11. scopes' = [scopes EXCEPT ![t] = r]
  BY <1>1 DEF new
<1>12. HIDE DEF r, s
<1>13. Lexical(r, ctx'[t])
  <2>1. ASSUME NEW n \in 1 .. Len(r), NEW f \in Fields
        PROVE  \E i \in 1 .. n : Binds(r, f, i, n)
    <3>1. CASE n <= Len(s)
      <4>1. PICK i \in 1 .. n : Binds(s, f, i, n)
        BY <1>3, <1>4, <3>1 DEF Lexical
      <4>2. Binds(r, f, i, n)
        BY <1>4, <1>10, <3>1, <4>1 DEF Binds
      <4>3. QED
        BY <4>2
    <3>2. CASE n = Len(s) + 1 /\ f \in DOMAIN b
      BY <1>4, <1>8, <1>10, <3>2 DEF Binds
    <3>3. CASE n = Len(s) + 1 /\ f \notin DOMAIN b
      <4>1. PICK i \in 1 .. Len(s) : Binds(s, f, i, Len(s))
        BY <1>3, <1>4 DEF Lexical
      <4>2. Binds(r, f, i, n)
        BY <1>4, <1>8, <1>10, <3>3, <4>1 DEF Binds
      <4>3. QED
        BY <1>4, <3>3, <4>2
    <3>4. QED
      BY <1>4, <1>10, <3>1, <3>2, <3>3
  <2>2. ASSUME NEW k \in 2 .. Len(r) PROVE DOMAIN r[k].tokens = DOMAIN r[k].bound
    BY <1>3, <1>4, <1>8, <1>10 DEF Lexical
  <2>3. ASSUME NEW f \in Fields, NEW i \in 1 .. Len(r),
               Binds(r, f, i, Len(r)), Intact(r, f, i, Len(r))
        PROVE  ctx'[t][f] = r[i].bound[f]
    <3>1. CASE i = Len(s) + 1
      BY <1>6, <1>8, <1>10, <2>3, <3>1 DEF Binds
    <3>2. CASE i \in 1 .. Len(s)
      <4>1. f \notin DOMAIN b
        BY <1>4, <1>8, <1>10, <2>3, <3>2 DEF Binds
      <4>2. Binds(s, f, i, Len(s)) /\ Intact(s, f, i, Len(s))
        BY <1>4, <1>10, <2>3, <3>2 DEF Binds, Intact
      <4>3. QED
        BY <1>3, <1>6, <1>10, <3>2, <4>1, <4>2 DEF Lexical
    <3>3. QED
      BY <1>4, <1>10, <3>1, <3>2
  <2>4. ASSUME NEW k \in 2 .. Len(r), NEW f \in Fields, NEW i \in 1 .. Len(r),
               i < k, f \in DOMAIN r[k].tokens, Binds(r, f, i, k - 1), Intact(r, f, i, k - 1)
        PROVE  r[k].tokens[f] = r[i].bound[f]
    <3>1. i \in 1 .. Len(s) /\ k - 1 \in 1 .. Len(s)
      BY <1>4, <1>10, <2>4
    <3>2. Binds(s, f, i, k - 1) /\ Intact(s, f, i, k - 1)
      BY <1>4, <1>10, <2>4, <3>1 DEF Binds, Intact
    <3>3. CASE k = Len(s) + 1
      <4>1. s[i].bound[f] = ctx[t][f]
        BY <1>3, <1>4, <3>1, <3>2, <3>3 DEF Lexical
      <4>2. QED
        BY <1>8, <1>10, <2>4, <3>1, <3>3, <4>1
    <3>4. CASE k \in 2 .. Len(s)
      BY <1>3, <1>10, <2>4, <3>1, <3>2, <3>4 DEF Lexical
    <3>5. QED
      BY <1>4, <1>10, <3>3, <3>4
  <2>5. QED
    BY <2>1, <2>2, <2>3, <2>4 DEF Lexical
<1>14. Len(r) <= MaxDepth[t]
  BY <1>3, <1>4, <1>10, BoundAssumption
<1>15. CtxInv' /\ scopes'[t] = r /\ \A u \in Tasks : u # t => scopes'[u] = scopes[u]
  BY <1>6, <1>10, <1>11, <1>13, <1>14, StackChanged
<1>16. QED
  BY <1>3, <1>4, <1>10, <1>15 DEF s

LEMMA SameBinds ==
    ASSUME NEW r, NEW s, NEW n \in Nat, SameBindings(r, s, n),
           NEW f, NEW m \in 1 .. n, NEW i \in 1 .. m
    PROVE  Binds(r, f, i, m) <=> Binds(s, f, i, m)
  BY DEF SameBindings, Binds

LEMMA LosesMore ==
    ASSUME NEW r, NEW s, NEW n \in Nat, NEW L, LosesOnTop(r, s, n, s[n].lost \cup L),
           NEW f, NEW m \in 1 .. n, NEW i \in 1 .. m, Intact(r, f, i, m)
    PROVE  Intact(s, f, i, m)
<1>1. ASSUME NEW j \in i .. m PROVE f \notin s[j].lost
  <2>1. f \notin r[j].lost /\ j \in 1 .. n
    BY DEF Intact
  <2>2. QED
    BY <2>1 DEF LosesOnTop
<1>2. QED
  BY <1>1 DEF Intact

\* What a failed bind overwrote is lost in the scope it happened in.
LEMMA LoseLexical ==
    ASSUME NEW s \in Seq(Scope), NEW r \in Seq(Scope), NEW D, NEW c, NEW d,
           Len(s) \in Nat \ {0}, Len(r) = Len(s),
           SameBindings(r, s, Len(s)), LosesOnTop(r, s, Len(s), s[Len(s)].lost \cup D),
           Lexical(s, c), \A f \in Fields : f \notin D => d[f] = c[f]
    PROVE  Lexical(r, d)
<1>1. ASSUME NEW f, NEW n \in 1 .. Len(s), NEW i \in 1 .. n
      PROVE  /\ Binds(r, f, i, n) <=> Binds(s, f, i, n)
             /\ Intact(r, f, i, n) => Intact(s, f, i, n)
  BY LosesMore, SameBinds
<1>2. ASSUME NEW n \in 1 .. Len(r), NEW f \in Fields
      PROVE  \E i \in 1 .. n : Binds(r, f, i, n)
  BY <1>1 DEF Lexical
<1>3. ASSUME NEW k \in 2 .. Len(r) PROVE DOMAIN r[k].tokens = DOMAIN r[k].bound
  BY DEF Lexical, SameBindings
<1>4. ASSUME NEW f \in Fields, NEW i \in 1 .. Len(r),
             Binds(r, f, i, Len(r)), Intact(r, f, i, Len(r))
      PROVE  d[f] = r[i].bound[f]
  <2>1. f \notin D
    BY <1>4 DEF Intact, LosesOnTop
  <2>2. Binds(s, f, i, Len(s)) /\ Intact(s, f, i, Len(s))
    BY <1>1, <1>4
  <2>3. QED
    BY <2>1, <2>2 DEF Lexical, SameBindings
<1>5. ASSUME NEW k \in 2 .. Len(r), NEW f \in Fields, NEW i \in 1 .. Len(r),
             i < k, f \in DOMAIN r[k].tokens, Binds(r, f, i, k - 1), Intact(r, f, i, k - 1)
      PROVE  r[k].tokens[f] = r[i].bound[f]
  <2>1. k - 1 \in 1 .. Len(s) /\ i \in 1 .. k - 1 /\ k \in 2 .. Len(s) /\ i \in 1 .. Len(s)
    BY <1>5
  <2>2. Binds(s, f, i, k - 1) /\ Intact(s, f, i, k - 1)
    BY <1>1, <1>5, <2>1
  <2>3. r[k].tokens = s[k].tokens /\ r[i].bound = s[i].bound
    BY <2>1 DEF SameBindings
  <2>4. QED
    BY <1>5, <2>1, <2>2, <2>3 DEF Lexical
<1>6. QED
  BY <1>2, <1>3, <1>4, <1>5 DEF Lexical

\* A bind that fails concerns no other scope and no other task.
LEMMA BindFailsOK ==
    ASSUME CtxInv, NEW t \in Tasks, BindFails(t)
    PROVE  /\ CtxInv'
           /\ scopes[t] # <<>> /\ scopes'[t] # <<>>
           /\ scopes'[t][1].bound = scopes[t][1].bound
           /\ \A u \in Tasks : u # t => scopes'[u] = scopes[u]
<1>1. PICK b \in Bindings :
          /\ Overwrite(t, b)
          /\ scopes' = [scopes EXCEPT ![t][Len(scopes[t])].lost = @ \cup DOMAIN b]
  BY DEF BindFails, Depth
<1>2. PICK s : s = scopes[t]
  OBVIOUS
<1>3. PICK r : r = [s EXCEPT ![Len(s)].lost = @ \cup DOMAIN b]
  OBVIOUS
<1>4. /\ CtxTypeOK /\ Lexical(s, ctx[t]) /\ s \in Seq(Scope)
      /\ s # <<>> /\ Len(s) < MaxDepth[t]
  BY <1>2 DEF CtxInv, BindFails, Running, Depth
<1>5. Len(s) \in Nat \ {0}
  BY <1>4, EmptySeq, LenProperties
<1>6. b \in Partial /\ DOMAIN b \subseteq Fields /\ \A f \in DOMAIN b : b[f] \in Values
  BY BindingsArePartial
<1>7. /\ ctx' \in [Tasks -> [Fields -> Values \cup {Unset}]]
      /\ \A u \in Tasks : u # t => ctx'[u] = ctx[u]
      /\ \A f \in Fields : ctx'[t][f] = IF f \in DOMAIN b THEN b[f] ELSE ctx[t][f]
  BY <1>1, <1>4, <1>6, OverwriteValue
<1>8. scopes' = [scopes EXCEPT ![t] = r]
  BY <1>1, <1>2, <1>3
<1>9. /\ r \in Seq(Scope) /\ Len(r) = Len(s)
      /\ SameBindings(r, s, Len(s))
      /\ LosesOnTop(r, s, Len(s), s[Len(s)].lost \cup DOMAIN b)
  BY <1>3, <1>4, <1>6, LoseTop
<1>10. \A f \in Fields : f \notin DOMAIN b => ctx'[t][f] = ctx[t][f]
  BY <1>7
<1>11. Lexical(r, ctx'[t])
  BY <1>4, <1>5, <1>9, <1>10, LoseLexical
<1>12. Len(r) <= MaxDepth[t]
  BY <1>4, <1>5, <1>9, BoundAssumption
<1>13. CtxInv' /\ scopes'[t] = r /\ \A u \in Tasks : u # t => scopes'[u] = scopes[u]
  BY <1>7, <1>8, <1>9, <1>11, <1>12, StackChanged
<1>14. r # <<>> /\ r[1].bound = s[1].bound
  BY <1>5, <1>9 DEF SameBindings
<1>15. QED
  BY <1>2, <1>4, <1>13, <1>14

\* The tokens of the scope that is left are what the stack below explains,
\* whatever was bound, left or lost above it meanwhile.
LEMMA LeaveLexical ==
    ASSUME NEW s \in Seq(Scope), NEW r \in Seq(Scope), NEW D, NEW c, NEW d, NEW n \in Nat \ {0},
           n + 1 = Len(s), Len(r) = n,
           D = DOMAIN s[n + 1].tokens, D \subseteq Fields,
           SameBindings(r, s, n), LosesOnTop(r, s, n, s[n].lost \cup (s[n + 1].lost \ D)),
           Lexical(s, c),
           \A f \in Fields : d[f] = IF f \in D THEN s[n + 1].tokens[f] ELSE c[f]
    PROVE  Lexical(r, d)
<1>1. D = DOMAIN s[n + 1].bound
  BY DEF Lexical
<1>2. ASSUME NEW f, NEW m \in 1 .. n, NEW i \in 1 .. m
      PROVE  /\ Binds(r, f, i, m) <=> Binds(s, f, i, m)
             /\ Intact(r, f, i, m) => Intact(s, f, i, m)
  BY LosesMore, SameBinds
<1>3. ASSUME NEW m \in 1 .. Len(r), NEW f \in Fields
      PROVE  \E i \in 1 .. m : Binds(r, f, i, m)
  BY <1>2 DEF Lexical
<1>4. ASSUME NEW k \in 2 .. Len(r) PROVE DOMAIN r[k].tokens = DOMAIN r[k].bound
  BY DEF Lexical, SameBindings
<1>5. ASSUME NEW f \in Fields, NEW i \in 1 .. Len(r),
             Binds(r, f, i, Len(r)), Intact(r, f, i, Len(r))
      PROVE  d[f] = r[i].bound[f]
  <2>1. Binds(s, f, i, n) /\ Intact(s, f, i, n) /\ r[i].bound = s[i].bound
    BY <1>2, <1>5 DEF SameBindings
  <2>2. CASE f \in D
    <3>1. n + 1 \in 2 .. Len(s) /\ i \in 1 .. Len(s) /\ i < n + 1 /\ (n + 1) - 1 = n
      OBVIOUS
    <3>2. s[n + 1].tokens[f] = s[i].bound[f]
      BY <2>1, <2>2, <3>1 DEF Lexical
    <3>3. QED
      BY <2>1, <2>2, <3>2
  <2>3. CASE f \notin D
    <3>1. f \notin s[n + 1].lost
      BY <1>5, <2>3 DEF Intact, LosesOnTop
    <3>2. Binds(s, f, i, n + 1)
      <4>1. f \notin DOMAIN s[n + 1].bound
        BY <1>1, <2>3
      <4>2. f \in DOMAIN s[i].bound /\ \A j \in i + 1 .. n : f \notin DOMAIN s[j].bound
        BY <2>1 DEF Binds
      <4>3. ASSUME NEW j \in i + 1 .. n + 1 PROVE f \notin DOMAIN s[j].bound
        <5>1. j = n + 1 \/ j \in i + 1 .. n
          OBVIOUS
        <5>2. QED
          BY <4>1, <4>2, <5>1
      <4>4. QED
        BY <4>2, <4>3 DEF Binds
    <3>3. Intact(s, f, i, n + 1)
      BY <2>1, <3>1 DEF Intact
    <3>4. c[f] = s[i].bound[f]
      BY <3>2, <3>3 DEF Lexical
    <3>5. QED
      BY <2>1, <2>3, <3>4
  <2>4. QED
    BY <2>2, <2>3
<1>6. ASSUME NEW k \in 2 .. Len(r), NEW f \in Fields, NEW i \in 1 .. Len(r),
             i < k, f \in DOMAIN r[k].tokens, Binds(r, f, i, k - 1), Intact(r, f, i, k - 1)
      PROVE  r[k].tokens[f] = r[i].bound[f]
  <2>1. k - 1 \in 1 .. n /\ i \in 1 .. k - 1 /\ k \in 2 .. Len(s) /\ i \in 1 .. Len(s)
    BY <1>6
  <2>2. Binds(s, f, i, k - 1) /\ Intact(s, f, i, k - 1)
    BY <1>2, <1>6, <2>1
  <2>3. r[k].tokens = s[k].tokens /\ r[i].bound = s[i].bound
    BY <2>1 DEF SameBindings
  <2>4. QED
    BY <1>6, <2>1, <2>2, <2>3 DEF Lexical
<1>7. QED
  BY <1>3, <1>4, <1>5, <1>6 DEF Lexical

\* Leaving a scope restores what the stack below it binds.
LEMMA ExitScopeOK ==
    ASSUME CtxInv, NEW t \in Tasks, ExitScope(t)
    PROVE  /\ CtxInv'
           /\ scopes[t] # <<>> /\ scopes'[t] # <<>>
           /\ scopes'[t][1].bound = scopes[t][1].bound
           /\ \A u \in Tasks : u # t => scopes'[u] = scopes[u]
<1>1. PICK s : s = scopes[t]
  OBVIOUS
<1>2. PICK r : r = Leave(s)
  OBVIOUS
<1>3. /\ CtxTypeOK /\ Lexical(s, ctx[t]) /\ s \in Seq(Scope)
      /\ Len(s) > 1 /\ Len(s) <= MaxDepth[t]
      /\ Overwrite(t, s[Len(s)].tokens)
      /\ scopes' = [scopes EXCEPT ![t] = r]
  BY <1>1, <1>2 DEF CtxInv, CtxTypeOK, ExitScope, Depth
<1>4. Len(s) \in Nat
  BY <1>3, LenProperties
<1>5. PICK n \in Nat \ {0} : n + 1 = Len(s) /\ n = Len(s) - 1
  BY <1>3, <1>4
<1>6. PICK D : D = DOMAIN s[n + 1].tokens
  OBVIOUS
<1>7. /\ r \in Seq(Scope) /\ Len(r) = n
      /\ SameBindings(r, s, n)
      /\ LosesOnTop(r, s, n, s[n].lost \cup (s[n + 1].lost \ D))
  BY <1>2, <1>3, <1>5, <1>6, LeaveBelow
<1>8. D \subseteq Fields /\ \A f \in D : s[n + 1].tokens[f] \in Values \cup {Unset}
  <2>1. s[n + 1] \in Scope
    BY <1>3, <1>4, <1>5, ElementOfSeq
  <2>2. QED
    BY <1>6, <2>1 DEF Scope
<1>9. /\ ctx' \in [Tasks -> [Fields -> Values \cup {Unset}]]
      /\ \A u \in Tasks : u # t => ctx'[u] = ctx[u]
      /\ \A f \in Fields : ctx'[t][f] = IF f \in D THEN s[n + 1].tokens[f] ELSE ctx[t][f]
  BY <1>3, <1>5, <1>6, <1>8, OverwriteValue
<1>10. Lexical(r, ctx'[t])
  <2>1. \A f \in Fields : ctx'[t][f] = IF f \in D THEN s[n + 1].tokens[f] ELSE ctx[t][f]
    BY <1>9
  <2>2. s \in Seq(Scope) /\ r \in Seq(Scope) /\ Lexical(s, ctx[t]) /\ D \subseteq Fields
        /\ n + 1 = Len(s) /\ Len(r) = n
    BY <1>3, <1>5, <1>7, <1>8
  <2>3. SameBindings(r, s, n) /\ LosesOnTop(r, s, n, s[n].lost \cup (s[n + 1].lost \ D))
    BY <1>7
  <2>4. QED
    BY <1>6, <2>1, <2>2, <2>3, LeaveLexical
<1>11. Len(r) <= MaxDepth[t]
  BY <1>3, <1>4, <1>5, <1>7, BoundAssumption
<1>12. CtxInv' /\ scopes'[t] = r /\ \A u \in Tasks : u # t => scopes'[u] = scopes[u]
  BY <1>3, <1>7, <1>9, <1>10, <1>11, StackChanged
<1>13. r # <<>> /\ s # <<>> /\ r[1].bound = s[1].bound
  BY <1>3, <1>5, <1>7 DEF SameBindings
<1>14. QED
  BY <1>1, <1>12, <1>13

-----------------------------------------------------------------------------
(* What follows.                                                           *)

\* The innermost scope that binds a field exists, so Binder names it.
LEMMA BinderBinds ==
    ASSUME CtxInv, NEW t \in Tasks, NEW f \in Fields, Running(t)
    PROVE  Binder(t, f) \in 1 .. Depth(t)
           /\ Binds(scopes[t], f, Binder(t, f), Depth(t))
<1>1. Depth(t) \in 1 .. Len(scopes[t])
  BY EmptySeq, LenProperties DEF CtxInv, Running, Depth
<1>2. \E i \in 1 .. Depth(t) : Binds(scopes[t], f, i, Depth(t))
  BY <1>1 DEF CtxInv, Lexical
<1>3. Binder(t, f) = CHOOSE i \in 1 .. Depth(t) : Binds(scopes[t], f, i, Depth(t))
  BY DEF Binder, Binds
<1>4. QED
  BY <1>2, <1>3

LEMMA LexicalBinding == CtxInv => InnermostWins
<1>1. ASSUME CtxInv, NEW t \in Tasks, NEW f \in Fields, Running(t),
             \A j \in Binder(t, f) .. Depth(t) : f \notin scopes[t][j].lost
      PROVE  ctx[t][f] = scopes[t][Binder(t, f)].bound[f]
  <2>1. Lexical(scopes[t], ctx[t])
    BY <1>1 DEF CtxInv
  <2>2. QED
    BY <1>1, <2>1, BinderBinds DEF Lexical, Intact, Depth
<1>2. QED
  BY <1>1 DEF InnermostWins
=============================================================================
