-------------------------- MODULE ComponentsProofs --------------------------
(***************************************************************************)
(* Theorems about the components that share no state with any other: for   *)
(* each of them an inductive invariant, and what follows from it, for all  *)
(* values of its constants.                                                *)
(*                                                                         *)
(* In order: Contexts, arithmetic, Sampling, Identifiers, AttributeValues, *)
(* LocalSpanStore, RunningSpanStore, Registrations, StackdriverStats.      *)
(***************************************************************************)
EXTENDS ComponentProperties, SequenceTheorems, FiniteSetTheorems, TLAPS

----------------------------------------------------------------------------
----------------------------------------------------------------------------
\* Contexts: any threads, spans and tag maps, and any number of scopes.

Kinds == {"context", "span", "tags"}
Scope == [kind : Kinds, cond : BOOLEAN, end_span : BOOLEAN, swapped : Context,
          before : Context, given : Context]

ContextTypeOK ==
  /\ current \in [Threads -> Context]
  /\ scopes \in [Threads -> Seq(Scope)]
  /\ wrapped \in Seq(Context)

\* The context in which scope n + 1 of t was constructed, or the present one.
At(t, n) == IF n = Len(scopes[t]) THEN current[t] ELSE scopes[t][n + 1].before

\* A scope gives back what it found to the context that it left, and governs its
\* part of that one.
Undoes(scope, ctx) ==
  /\ SwapIn(scope, ctx) = scope.before
  /\ scope.cond =>
       /\ scope.kind \in {"context", "span"} => ctx.span = scope.given.span
       /\ scope.kind \in {"context", "tags"} => ctx.tags = scope.given.tags

\* The scopes of a thread are a chain.
Chained(t) == \A n \in DOMAIN scopes[t] : Undoes(scopes[t][n], At(t, n))

ContextInv == ContextTypeOK /\ \A t \in Threads : Chained(t)

----------------------------------------------------------------------------
\* Swapping in and out keeps the types.
LEMMA SwapTypes ==
  ASSUME NEW scope \in Scope, NEW ctx \in Context
  PROVE  SwapIn(scope, ctx) \in Context /\ SwapOut(scope, ctx) \in Scope
  BY DEF SwapIn, SwapOut, Scope, Context, Kinds

\* What Enter leaves in the scope undoes what it left in the context.
LEMMA SwapUndoes ==
  ASSUME NEW kind \in Kinds, NEW ctx \in Context, NEW cond \in BOOLEAN,
         NEW end_span \in BOOLEAN, NEW found \in Context,
         NEW scope, scope = [kind |-> kind, cond |-> cond, end_span |-> end_span,
           swapped |-> IF kind = "context" /\ ~cond THEN DefaultContext ELSE ctx,
           before |-> found, given |-> ctx]
  PROVE  /\ scope \in Scope
         /\ SwapOut(scope, found).before = found
         /\ Undoes(SwapOut(scope, found), SwapIn(scope, found))
<1>1. scope \in Scope
  BY DEF Scope, Kinds, DefaultContext, Context
<1>2. CASE ~cond
  BY <1>1, <1>2 DEF SwapIn, SwapOut, Undoes
<1>3. CASE cond /\ kind = "context"
  BY <1>1, <1>3 DEF SwapIn, SwapOut, Undoes, Scope
<1>4. CASE cond /\ kind = "span"
  <2>1. SwapOut(scope, found) = [scope EXCEPT !.swapped = [ctx EXCEPT !.span = found.span]]
    BY <1>1, <1>4 DEF SwapOut, Scope, Context
  <2>2. SwapIn(scope, found) = [found EXCEPT !.span = ctx.span]
    BY <1>1, <1>4 DEF SwapIn, Scope
  <2>3. /\ scope.kind = "span" /\ scope.cond /\ scope.before = found
        /\ scope.given = ctx
    BY <1>4
  <2>4. [[found EXCEPT !.span = ctx.span] EXCEPT !.span = found.span] = found
    BY DEF Context
  <2>5. [found EXCEPT !.span = ctx.span].span = ctx.span
    BY DEF Context
  <2>6. ASSUME NEW left, left = SwapOut(scope, found)
        PROVE  /\ left.kind = "span" /\ left.cond /\ left.before = found
               /\ left.given = ctx /\ left.swapped.span = found.span
    BY <1>1, <2>1, <2>3, <2>6 DEF Scope, Context
  <2>7. ASSUME NEW left, left = SwapOut(scope, found)
        PROVE  SwapIn(left, [found EXCEPT !.span = ctx.span]) = found
    BY <2>4, <2>6, <2>7 DEF SwapIn
  <2>8. ASSUME NEW left, left = SwapOut(scope, found),
               NEW now, now = [found EXCEPT !.span = ctx.span]
        PROVE  Undoes(left, now)
    BY <2>5, <2>6, <2>7, <2>8 DEF Undoes
  <2> QED
    BY <1>1, <2>2, <2>6, <2>8
<1>5. CASE cond /\ kind = "tags"
  <2>1. SwapOut(scope, found) = [scope EXCEPT !.swapped = [ctx EXCEPT !.tags = found.tags]]
    BY <1>1, <1>5 DEF SwapOut, Scope, Context
  <2>2. SwapIn(scope, found) = [found EXCEPT !.tags = ctx.tags]
    BY <1>1, <1>5 DEF SwapIn, Scope
  <2>3. /\ scope.kind = "tags" /\ scope.cond /\ scope.before = found
        /\ scope.given = ctx
    BY <1>5
  <2>4. [[found EXCEPT !.tags = ctx.tags] EXCEPT !.tags = found.tags] = found
    BY DEF Context
  <2>5. [found EXCEPT !.tags = ctx.tags].tags = ctx.tags
    BY DEF Context
  <2>6. ASSUME NEW left, left = SwapOut(scope, found)
        PROVE  /\ left.kind = "tags" /\ left.cond /\ left.before = found
               /\ left.given = ctx /\ left.swapped.tags = found.tags
    BY <1>1, <2>1, <2>3, <2>6 DEF Scope, Context
  <2>7. ASSUME NEW left, left = SwapOut(scope, found)
        PROVE  SwapIn(left, [found EXCEPT !.tags = ctx.tags]) = found
    BY <2>4, <2>6, <2>7 DEF SwapIn
  <2>8. ASSUME NEW left, left = SwapOut(scope, found),
               NEW now, now = [found EXCEPT !.tags = ctx.tags]
        PROVE  Undoes(left, now)
    BY <2>5, <2>6, <2>7, <2>8 DEF Undoes
  <2> QED
    BY <1>1, <2>2, <2>6, <2>8
<1> QED
  BY <1>2, <1>3, <1>4, <1>5 DEF Kinds

\* No scope is open at the start.
LEMMA ContextInvInit == ContextInit => ContextInv
  BY DEF ContextInit, ContextInv, ContextTypeOK, Chained, Context, DefaultContext

\* A scope that is entered extends the chain of its thread.
LEMMA EnterChains ==
  ASSUME ContextInv, NEW t \in Threads, NEW kind \in Kinds, NEW ctx \in Context,
         NEW cond \in BOOLEAN, NEW end_span \in BOOLEAN,
         Enter(t, kind, ctx, cond, end_span), wrapped' \in Seq(Context)
  PROVE  ContextInv'
<1> SUFFICES ASSUME NEW L, L = Len(scopes[t]), NEW found, found = current[t], NEW scope,
      scope = [kind |-> kind, cond |-> cond, end_span |-> end_span,
               swapped |-> IF kind = "context" /\ ~cond THEN DefaultContext ELSE ctx,
               before |-> found, given |-> ctx],
      NEW kept, kept = SwapOut(scope, found), NEW now, now = SwapIn(scope, found)
             PROVE  ContextInv'
  OBVIOUS
<1>1. /\ current' = [current EXCEPT ![t] = now]
      /\ scopes' = [scopes EXCEPT ![t] = Append(@, kept)]
  BY Zenon DEF Enter, ContextInv, ContextTypeOK
<1>2. found \in Context /\ scopes[t] \in Seq(Scope) /\ L \in Nat
  BY DEF ContextInv, ContextTypeOK
<1>3. /\ scope \in Scope /\ kept.before = found /\ Undoes(kept, now)
      /\ now \in Context /\ kept \in Scope
  BY <1>2, SwapUndoes, SwapTypes
<1>4. ContextTypeOK'
  BY <1>1, <1>2, <1>3 DEF ContextInv, ContextTypeOK
<1>5. ASSUME NEW u \in Threads, u # t PROVE Chained(u)'
  <2>1. scopes'[u] = scopes[u] /\ current'[u] = current[u]
    BY <1>1, <1>5 DEF ContextInv, ContextTypeOK
  <2>2. Chained(u)
    BY DEF ContextInv
  <2> QED
    BY <2>1, <2>2 DEF Chained, At
<1>6. Chained(t)'
  <2>1. /\ scopes'[t] = Append(scopes[t], kept) /\ current'[t] = now
    BY <1>1 DEF ContextInv, ContextTypeOK
  <2>2. /\ Len(scopes'[t]) = L + 1 /\ DOMAIN scopes'[t] = 1 .. L + 1
        /\ \A n \in 1 .. L : scopes'[t][n] = scopes[t][n]
        /\ scopes'[t][L + 1] = kept
    BY <1>2, <1>3, <2>1
  <2>3. At(t, L + 1)' = now
    BY <2>1, <2>2 DEF At
  <2>4. ASSUME NEW n \in 1 .. L PROVE At(t, n)' = At(t, n)
    <3>1. n \in Nat /\ n # L + 1
      BY <1>2
    <3>2. CASE n = L
      BY <1>2, <1>3, <2>2, <3>2 DEF At
    <3>3. CASE n < L
      <4>1. n + 1 \in 1 .. L
        BY <1>2, <3>1, <3>3
      <4> QED
        BY <1>2, <2>2, <3>1, <3>3, <4>1 DEF At
    <3> QED
      BY <1>2, <3>2, <3>3
  <2>5. \A n \in 1 .. L : Undoes(scopes[t][n], At(t, n))
    BY <1>2 DEF ContextInv, Chained
  <2>6. Chained(t)' = \A n \in DOMAIN scopes'[t] : Undoes(scopes'[t][n], At(t, n)')
    BY DEF Chained, Undoes, SwapIn
  <2>7. \A n \in 1 .. L + 1 : n \in 1 .. L \/ n = L + 1
    BY <1>2
  <2> QED
    BY <1>3, <2>2, <2>3, <2>4, <2>5, <2>6, <2>7
<1> QED
  BY <1>4, <1>5, <1>6 DEF ContextInv

\* A thread that leaves its last scope finds the context of before it.
LEMMA LeaveChains ==
  ASSUME ContextInv, NEW t \in Threads, Leave(t)
  PROVE  ContextInv'
<1> SUFFICES ASSUME NEW L, L = Len(scopes[t]), NEW last, last = scopes[t][L]
             PROVE  ContextInv'
  OBVIOUS
<1>1. scopes[t] \in Seq(Scope) /\ current[t] \in Context /\ scopes[t] # <<>>
  BY DEF Leave, ContextInv, ContextTypeOK
<1>2. L \in Nat /\ L > 0 /\ last \in Scope /\ DOMAIN scopes[t] = 1 .. L
  BY <1>1
<1>3. /\ current' = [current EXCEPT ![t] = SwapIn(last, @)]
      /\ scopes' = [scopes EXCEPT ![t] = SubSeq(scopes[t], 1, L - 1)]
      /\ wrapped' = wrapped
  BY DEF Leave, Last, Front, ContextInv, ContextTypeOK
<1>4. SwapIn(last, current[t]) = last.before
  BY <1>2 DEF ContextInv, Chained, Undoes, At
<1>5. SwapIn(last, current[t]) \in Context
  BY <1>1, <1>2, SwapTypes
<1>6. /\ SubSeq(scopes[t], 1, L - 1) \in Seq(Scope)
      /\ Len(SubSeq(scopes[t], 1, L - 1)) = L - 1
      /\ \A n \in 1 .. L - 1 : SubSeq(scopes[t], 1, L - 1)[n] = scopes[t][n]
  BY <1>1, <1>2
<1>7. ContextTypeOK'
  BY <1>3, <1>5, <1>6 DEF ContextInv, ContextTypeOK
<1>8. ASSUME NEW u \in Threads, u # t PROVE Chained(u)'
  <2>1. scopes'[u] = scopes[u] /\ current'[u] = current[u]
    BY <1>3, <1>8 DEF ContextInv, ContextTypeOK
  <2>2. Chained(u)
    BY DEF ContextInv
  <2> QED
    BY <2>1, <2>2 DEF Chained, At
<1>9. Chained(t)'
  <2>1. scopes'[t] = SubSeq(scopes[t], 1, L - 1) /\ current'[t] = last.before
    BY <1>3, <1>4 DEF ContextInv, ContextTypeOK
  <2>2. \A n \in 1 .. L - 1 : At(t, n)' = At(t, n)
    BY <1>2, <1>6, <2>1 DEF At
  <2>3. \A n \in 1 .. L : Undoes(scopes[t][n], At(t, n))
    BY <1>2 DEF ContextInv, Chained
  <2>4. DOMAIN scopes'[t] = 1 .. L - 1
    BY <1>6, <1>2, <2>1
  <2>5. Chained(t)' = \A n \in DOMAIN scopes'[t] : Undoes(scopes'[t][n], At(t, n)')
    BY DEF Chained, Undoes, SwapIn
  <2> QED
    BY <1>2, <1>6, <2>1, <2>2, <2>3, <2>4, <2>5
<1> QED
  BY <1>7, <1>8, <1>9 DEF ContextInv

\* Entering a scope adds a link to its thread's chain, leaving it takes the last one, and
\* no other step touches a chain.
LEMMA ContextInvStep == ContextInv /\ [ContextNext]_contextVars => ContextInv'
<1> SUFFICES ASSUME ContextInv, [ContextNext]_contextVars PROVE ContextInv'
  OBVIOUS
<1>1. wrapped \in Seq(Context) /\ \A t \in Threads : current[t] \in Context
  BY DEF ContextInv, ContextTypeOK
<1>2. ASSUME NEW t \in Threads, NEW ctx \in {current[u] : u \in Threads},
             NEW cond \in BOOLEAN, WithContext(t, ctx, cond)
      PROVE  ContextInv'
  BY <1>1, <1>2, EnterChains DEF WithContext, Kinds
<1>3. ASSUME NEW t \in Threads, NEW span \in Spans, NEW cond \in BOOLEAN,
             NEW end_span \in BOOLEAN, WithSpan(t, span, cond, end_span)
      PROVE  ContextInv'
  <2>1. [DefaultContext EXCEPT !.span = span] \in Context
    BY DEF DefaultContext, Context
  <2> QED
    BY <1>1, <1>3, <2>1, EnterChains DEF WithSpan, Kinds
<1>4. ASSUME NEW t \in Threads, NEW tags \in TagMaps, NEW cond \in BOOLEAN,
             WithTagMap(t, tags, cond)
      PROVE  ContextInv'
  <2>1. [DefaultContext EXCEPT !.tags = tags] \in Context
    BY DEF DefaultContext, Context
  <2> QED
    BY <1>1, <1>4, <2>1, EnterChains DEF WithTagMap, Kinds
<1>5. ASSUME NEW t \in Threads, Wrap(t) PROVE ContextInv'
  BY <1>1, <1>5 DEF Wrap, ContextInv, ContextTypeOK, Chained, At
<1>6. ASSUME NEW t \in Threads, NEW i \in DOMAIN wrapped, CallWrapped(t, i)
      PROVE  ContextInv'
  <2>1. wrapped[i] \in Context
    BY <1>1
  <2> QED
    BY <1>1, <1>6, <2>1, EnterChains DEF CallWrapped, Kinds
<1>7. CASE UNCHANGED contextVars
  BY <1>7 DEF contextVars, ContextInv, ContextTypeOK, Chained, At
<1> QED
  BY <1>2, <1>3, <1>4, <1>5, <1>6, <1>7, LeaveChains DEF ContextNext

----------------------------------------------------------------------------
\* After folds the scopes that are left, from the last one on.
Swaps == INSTANCE FoldUnfolds WITH op <- SwapIn, choose <- Min

\* The fold over scopes goes from the first of an interval to the last.
LEMMA SmallestOfInterval ==
  ASSUME NEW m \in Int, NEW n \in Int
  PROVE  /\ IsFiniteSet(m .. n) /\ Swaps!Chooses(m .. n)
         /\ m <= n => Min(m .. n) = m /\ (m .. n) \ {m} = m + 1 .. n
<1>1. IsFiniteSet(m .. n)
  BY FS_Interval
<1>2. ASSUME NEW s \in SUBSET (m .. n), s # {} PROVE Min(s) \in s
  <2>1. \E x \in s : \A y \in s : x <= y
    <3> DEFINE N == {x - m : x \in s}
    <3>1. N \in SUBSET Nat /\ N # {}
      <4>1. ASSUME NEW x \in s PROVE x - m \in Nat
        <5>1. x \in m .. n
          BY <1>2
        <5> QED
          BY <5>1
      <4>2. N # {}
        BY <1>2
      <4> QED
        BY <4>1, <4>2
    <3>2. PICK k \in N : \A j \in N : k <= j
      <4> HIDE DEF N
      <4> QED
        BY <3>1, Swaps!SmallestNumber
    <3>3. PICK x \in s : k = x - m
      BY <3>2
    <3>4. ASSUME NEW y \in s PROVE x <= y
      <4>1. y - m \in N /\ x \in Int /\ y \in Int
        OBVIOUS
      <4>2. x - m <= y - m
        BY <3>2, <3>3, <4>1
      <4> QED
        BY <4>1, <4>2
    <3> QED
      BY <3>4
  <2> QED
    BY <2>1 DEF Min
<1>3. m <= n => Min(m .. n) = m /\ (m .. n) \ {m} = m + 1 .. n
  BY DEF Min
<1> QED
  BY <1>1, <1>2, <1>3 DEF Swaps!Chooses

\* The scopes after the first n undo one another, so that the context is again the
\* one in which scope n + 1 was constructed.
LEMMA AfterIsAt ==
  ASSUME ContextInv, NEW t \in Threads, NEW n \in 0 .. Len(scopes[t])
  PROVE  After(t, n) = At(t, n)
<1> DEFINE L == Len(scopes[t])
           Fold(k) == Swaps!Fold(scopes[t], current[t], k + 1 .. L)
           Wrong == {k \in 0 .. L : Fold(L - k) # At(t, L - k)}
<1>1. L \in Nat /\ DOMAIN scopes[t] = 1 .. L
  BY DEF ContextInv, ContextTypeOK
<1>2. \A k \in 0 .. L : After(t, k) = Fold(k)
  BY DEF After, Swaps!Fold, Swaps!MapThenFoldSet, MapThenFoldSet
<1>3. ASSUME NEW k \in 0 .. L
      PROVE  Fold(k) = IF k = L THEN current[t]
                       ELSE SwapIn(scopes[t][k + 1], Fold(k + 1))
  <2>1. IsFiniteSet(k + 1 .. L) /\ Swaps!Chooses(k + 1 .. L)
    BY <1>1, SmallestOfInterval
  <2>2. Swaps!Unfolds(scopes[t], current[t], k + 1 .. L)
    BY <2>1, Swaps!FoldUnfolds DEF IsFiniteSet, Swaps!IsFiniteSet
  <2>3. CASE k = L
    BY <1>1, <2>2, <2>3 DEF Swaps!Unfolds
  <2>4. CASE k < L
    <3>1. /\ Min(k + 1 .. L) = k + 1 /\ k + 1 .. L # {}
          /\ (k + 1 .. L) \ {k + 1} = (k + 1) + 1 .. L
      BY <1>1, <2>4, SmallestOfInterval
    <3>2. k # L
      BY <1>1, <2>4
    <3> QED
      BY <2>2, <3>1, <3>2 DEF Swaps!Unfolds
  <2> QED
    BY <1>1, <2>3, <2>4
<1> HIDE DEF Fold
<1>4. ASSUME NEW k \in 0 .. L, k < L, Fold(k + 1) = At(t, k + 1)
      PROVE  Fold(k) = At(t, k)
  <2>1. Undoes(scopes[t][k + 1], At(t, k + 1))
    BY <1>1, <1>4 DEF ContextInv, Chained
  <2> QED
    BY <1>1, <1>3, <1>4, <2>1 DEF Undoes, At
<1>5. Wrong = {}
  <2> SUFFICES ASSUME Wrong # {} PROVE FALSE
    OBVIOUS
  <2>1. PICK k \in Wrong : \A j \in Wrong : k <= j
    <3>1. Wrong \in SUBSET Nat
      BY <1>1
    <3> HIDE DEF Wrong
    <3> QED
      BY <3>1, Swaps!SmallestNumber
  <2>2. k # 0
    <3>1. L \in 0 .. L /\ Fold(L) = At(t, L)
      BY <1>1, <1>3 DEF At
    <3>2. L - 0 = L
      BY <1>1
    <3> QED
      BY <2>1, <3>1, <3>2
  <2>3. k - 1 \in 0 .. L /\ ~ (k - 1 \in Wrong)
    BY <1>1, <2>1, <2>2
  <2>4. Fold(L - (k - 1)) = At(t, L - (k - 1))
    BY <2>3
  <2>5. L - k \in 0 .. L /\ L - k < L /\ L - (k - 1) = (L - k) + 1
    BY <1>1, <2>1, <2>2
  <2>6. Fold(L - k) = At(t, L - k)
    BY <1>4, <2>4, <2>5
  <2> QED
    BY <2>1, <2>6
<1>6. L - n \in 0 .. L /\ L - (L - n) = n
  BY <1>1
<1> QED
  BY <1>2, <1>5, <1>6

\* A WithContext, WithSpan or WithTagMap leaves the context that it found, whatever
\* was nested in it, and governs its part of the context until then.
THEOREM ScopesAreRestored == ContextSpec => []ScopesRestore
<1>1. ContextInv => ScopesRestore
  <2> SUFFICES ASSUME ContextInv, NEW t \in Threads, NEW n \in DOMAIN scopes[t]
               PROVE  /\ After(t, n - 1) = scopes[t][n].before
                      /\ Undoes(scopes[t][n], After(t, n))
    BY DEF ScopesRestore, Undoes
  <2>1. n \in 1 .. Len(scopes[t]) /\ Len(scopes[t]) \in Nat
    BY DEF ContextInv, ContextTypeOK
  <2>2. After(t, n) = At(t, n) /\ After(t, n - 1) = At(t, n - 1)
    BY <2>1, AfterIsAt
  <2>3. At(t, n - 1) = scopes[t][n].before
    BY <2>1 DEF At
  <2> QED
    BY <2>2, <2>3 DEF ContextInv, Chained
<1> QED
  BY <1>1, ContextInvInit, ContextInvStep, PTL DEF ContextSpec

----------------------------------------------------------------------------
----------------------------------------------------------------------------
\* Division, for thresholds and for ids.

\* Division by a positive number.
LEMMA Division ==
  ASSUME NEW a \in Int, NEW d \in Nat, d > 0
  PROVE  /\ a \div d \in Int /\ a % d \in 0 .. d - 1
         /\ a = d * (a \div d) + (a % d)
  OBVIOUS

\* A quotient is determined by its bounds.
LEMMA QuotientIs ==
  ASSUME NEW q \in Int, NEW p \in Int, NEW d \in Nat, d > 0, NEW r \in Int, NEW t \in Int,
         d * q + r = d * p + t, 0 <= r, r < d, 0 <= t, t < d
  PROVE  q = p
<1>1. d * (q - p) = t - r
  OBVIOUS
<1>2. CASE q > p
  <2>1. d * (q - p) >= d
    BY <1>2
  <2> QED
    BY <1>1, <2>1
<1>3. CASE q < p
  <2>1. d * (q - p) <= -d
    BY <1>3
  <2> QED
    BY <1>1, <2>1
<1> QED
  BY <1>2, <1>3

\* The remainder is what is left.
LEMMA QuotientAndRest ==
  ASSUME NEW d \in Nat, d > 0, NEW q \in Nat, NEW r \in 0 .. d - 1
  PROVE  (d * q + r) \div d = q /\ (d * q + r) % d = r
<1> DEFINE a == d * q + r
<1>1. a \in Int
  OBVIOUS
<1>2. /\ a \div d \in Int /\ a % d \in 0 .. d - 1 /\ a = d * (a \div d) + (a % d)
  BY <1>1, Division
<1>3. a \div d = q
  <2> DEFINE p == a \div d  t == a % d
  <2>1. /\ p \in Int /\ q \in Int /\ t \in Int /\ r \in Int /\ d * p + t = d * q + r
        /\ 0 <= t /\ t < d /\ 0 <= r /\ r < d
    BY <1>2
  <2> HIDE DEF p, t
  <2>2. p = q
    BY <2>1, QuotientIs
  <2> QED
    BY <2>2 DEF p
<1>4. a % d = r
  <2> DEFINE m == a % d
  <2>1. d * q + r = d * q + m /\ m \in Int
    BY <1>2, <1>3
  <2> HIDE DEF m
  <2>2. m = r
    BY <2>1
  <2> QED
    BY <2>2 DEF m
<1> QED
  BY <1>3, <1>4

----------------------------------------------------------------------------
----------------------------------------------------------------------------
\* Sampling: any number of processes and spans.

\* A double is as near to the number it stands for as one part in Significands.
LEMMA RoundIs ==
  ASSUME NEW x \in 0 .. 2 * HalfRange * Denominator
  PROVE  /\ Round(x) \in Nat
         /\ Significands * (Round(x) - x) <= x
         /\ Significands * (x - Round(x)) <= x
         /\ \E u \in Ulps, k \in Nat : IsUlp(u, x) /\ k <= x /\ (Round(x) = x => x = u * k)
<1> DEFINE u == CHOOSE v \in Ulps : IsUlp(v, x)
           k == x \div u
           r == x % u
           up == ~(2 * r < u \/ (2 * r = u /\ k % 2 = 0))
<1>1. u \in Ulps /\ IsUlp(u, x)
  BY UlpAssumption
<1>2. /\ u \in Nat /\ u > 0 /\ x \in Int /\ x >= 0
      /\ Significands \in Nat /\ Significands >= 16
  <2> HIDE DEF u
  <2> QED
    BY <1>1, UlpAssumption, SamplingAssumption
<1>3. k \in Int /\ r \in 0 .. u - 1 /\ x = u * k + r
  <2> HIDE DEF u
  <2> QED
    BY <1>2, Division
<1>4. Round(x) = u * (IF up THEN k + 1 ELSE k)
  BY DEF Round
<1>5. u = 1 \/ Significands * u <= 2 * x
  BY <1>1 DEF IsUlp
<1>6. up => 2 * r >= u
  <2> HIDE DEF u, k, r
  <2> QED
    BY <1>2, <1>3 DEF up
<1>7. ~up => 2 * r <= u
  <2> HIDE DEF u, k, r
  <2> QED
    BY <1>2, <1>3 DEF up
<1> HIDE DEF up, u, k, r
<1>8. k \in Nat /\ k <= x
  <2>1. ~(k < 0)
    <3>1. k < 0 => u * k <= -u
      BY <1>2, <1>3
    <3> QED
      BY <1>2, <1>3, <3>1
  <2>2. u * k >= k
    BY <1>2, <1>3, <2>1
  <2> QED
    BY <1>2, <1>3, <2>1, <2>2
<1>9. CASE up
  <2>1. Round(x) - x = u - r /\ Round(x) \in Nat
    BY <1>2, <1>3, <1>4, <1>8, <1>9
  <2>2. 2 * (u - r) <= u /\ u - r \in Nat /\ u - r > 0
    BY <1>2, <1>3, <1>6, <1>9
  <2>3. u # 1
    BY <2>2, <1>3
  <2>4. Significands * (2 * (u - r)) <= Significands * u
    BY <1>2, <1>3, <2>2
  <2>5. Significands * (u - r) <= x /\ Significands * (u - r) >= 0
    BY <1>2, <1>3, <1>5, <2>2, <2>3, <2>4
  <2>6. x - Round(x) = -(u - r) /\ Significands * (-(u - r)) = -(Significands * (u - r))
    BY <1>2, <1>3, <2>1
  <2> QED
    BY <1>1, <1>2, <1>3, <1>8, <2>1, <2>2, <2>5, <2>6
<1>10. CASE ~up
  <2>1. x - Round(x) = r /\ Round(x) \in Nat /\ Round(x) = u * k
    BY <1>2, <1>3, <1>4, <1>8, <1>10
  <2>2. 2 * r <= u
    BY <1>7, <1>10
  <2>3. Significands * (2 * r) <= Significands * u
    BY <1>2, <1>3, <2>2
  <2>4. Significands * r <= x
    <3>1. CASE u = 1
      <4>1. r = 0
        BY <1>3, <3>1
      <4> QED
        BY <1>2, <4>1
    <3> QED
      BY <1>2, <1>3, <1>5, <2>3, <3>1
  <2>5. Significands * (-r) <= 0 /\ Round(x) - x = -r
    BY <1>2, <1>3, <2>1
  <2> QED
    BY <1>1, <1>2, <1>8, <2>1, <2>4, <2>5
<1> QED
  BY <1>9, <1>10

\* Below 1 there is no double but the multiples of the unit just below 1.
LEMMA DoubleBelowOne ==
  ASSUME NEW n \in 0 .. Denominator, n < Denominator, Round(n) = n
  PROVE  Significands * n <= (Significands - 1) * Denominator
<1> DEFINE S == Significands
           D == Denominator
<1>1. HalfRange \in Nat /\ HalfRange >= 4 /\ S \in Nat /\ S >= 16 /\ D \in Nat /\ D > 0
  BY SamplingAssumption
<1>2. n \in 0 .. 2 * HalfRange * D
  <2>1. 2 * HalfRange * D >= D
    BY <1>1
  <2> QED
    BY <1>1, <2>1
<1>3. PICK u \in Ulps, k \in Nat : IsUlp(u, n) /\ n = u * k
  <2> HIDE DEF D
  <2>1. n \in 0 .. 2 * HalfRange * Denominator
    BY <1>2 DEF D
  <2> QED
    BY <2>1, RoundIs
<1>4. PICK d \in Ulps : D = S * d
  BY UlpAssumption
<1>5. /\ u \in Nat /\ u > 0 /\ d \in Nat /\ d > 0
      /\ u < d => 2 * u <= d
      /\ d < u => 2 * d <= u
  BY UlpAssumption
<1>6. n < S * u /\ (u = 1 \/ S * u <= 2 * n) /\ n \in Int
  BY <1>3 DEF IsUlp
<1>7. n < D
  OBVIOUS
<1> HIDE DEF S, D
<1>8. CASE u = d
  <2>1. k <= S - 1
    <3>1. k >= S => u * k >= u * S
      BY <1>1, <1>3, <1>5
    <3> QED
      BY <1>1, <1>3, <1>4, <1>5, <1>7, <1>8, <3>1
  <2>2. u * k <= u * (S - 1)
    BY <1>1, <1>3, <1>5, <2>1
  <2>3. S * (u * k) <= S * (u * (S - 1))
    BY <1>1, <1>3, <1>5, <2>2
  <2>4. S * (u * (S - 1)) = (S - 1) * (S * u)
    BY <1>1, <1>5
  <2>5. S * n <= (S - 1) * D
    BY <1>3, <1>4, <1>8, <2>3, <2>4
  <2> QED
    BY <2>5 DEF S, D
<1>9. CASE u < d
  <2>1. S * (2 * u) <= S * d
    BY <1>1, <1>5, <1>9
  <2>2. 2 * n <= D
    BY <1>1, <1>4, <1>5, <1>6, <2>1
  <2>3. S * (2 * n) <= S * D
    BY <1>1, <1>6, <2>2
  <2>4. S * D >= 2 * D
    BY <1>1
  <2>5. (S - 1) * D = S * D - D /\ S * (2 * n) = 2 * (S * n) /\ S * n \in Int /\ S * D \in Int
    BY <1>1, <1>6
  <2>6. S * n <= (S - 1) * D
    BY <1>1, <2>3, <2>4, <2>5
  <2> QED
    BY <2>6 DEF S, D
<1>10. CASE d < u
  <2>1. S * (2 * d) <= S * u
    BY <1>1, <1>5, <1>10
  <2>2. S * u <= 2 * n
    BY <1>5, <1>6, <1>10
  <2> QED
    BY <1>1, <1>4, <1>5, <1>6, <1>7, <2>1, <2>2
<1> QED
  BY <1>5, <1>8, <1>9, <1>10

\* The product is below UINT32_MAX by more than it was rounded up.
LEMMA ProductBelow ==
  ASSUME NEW H \in Nat, NEW S \in Nat, NEW D \in Nat, NEW n \in Nat, NEW y \in Nat,
         H >= 4, S >= 16, S * (y - (H - 1) * n) <= (H - 1) * n, S * n <= (S - 1) * D
  PROVE  y <= (H - 1) * D
<1> DEFINE x == (H - 1) * n
<1>1. x \in Nat
  BY SMT
<1>2. S * x <= (H - 1) * ((S - 1) * D)
  <2>1. S * x = (H - 1) * (S * n)
    OBVIOUS
  <2>2. S * n \in Int /\ (S - 1) * D \in Int
    OBVIOUS
  <2>3. (H - 1) * (S * n) <= (H - 1) * ((S - 1) * D)
    <3> DEFINE a == S * n  b == (S - 1) * D
    <3>1. a \in Int /\ b \in Int /\ a <= b
      BY <2>2
    <3> HIDE DEF a, b
    <3>2. (H - 1) * a <= (H - 1) * b
      BY <3>1
    <3> QED
      BY <3>2 DEF a, b
  <2> QED
    BY <2>1, <2>3
<1> DEFINE m == (H - 1) * D
<1>3. m \in Nat /\ S * x <= (S - 1) * m
  <2>1. m \in Nat
    BY SMT
  <2>2. (H - 1) * ((S - 1) * D) = (S - 1) * ((H - 1) * D)
    OBVIOUS
  <2> QED
    BY <1>2, <2>1, <2>2
<1>4. S * (y - x) <= x
  OBVIOUS
<1> HIDE DEF x, m
<1>5. S * y <= (S + 1) * x
  BY <1>1, <1>4
<1>6. S * (S * y) <= (S + 1) * (S * x)
  <2>1. S * (S * y) <= S * ((S + 1) * x)
    <3> DEFINE a == S * y  b == (S + 1) * x
    <3>1. a \in Int /\ b \in Int /\ a <= b
      BY <1>1, <1>5
    <3> HIDE DEF a, b
    <3>2. S * a <= S * b
      BY <3>1
    <3> QED
      BY <3>2 DEF a, b
  <2> QED
    BY <1>1, <2>1
<1>7. (S + 1) * (S * x) <= (S + 1) * ((S - 1) * m)
  <2> DEFINE a == S * x  b == (S - 1) * m
  <2>1. a \in Int /\ b \in Int /\ a <= b
    BY <1>1, <1>3
  <2> HIDE DEF a, b
  <2>2. (S + 1) * a <= (S + 1) * b
    BY <2>1
  <2> QED
    BY <2>2 DEF a, b
<1>8. (S + 1) * ((S - 1) * m) = S * (S * m) - m
  BY <1>3
<1>9. S * (S * y) <= S * (S * m)
  <2> DEFINE a == S * (S * y)  b == (S + 1) * (S * x)  c == (S + 1) * ((S - 1) * m)  e == S * (S * m)
  <2>1. a \in Int /\ b \in Int /\ c \in Int /\ e \in Int /\ a <= b /\ b <= c /\ c = e - m
    BY <1>1, <1>3, <1>6, <1>7, <1>8
  <2> HIDE DEF a, b, c, e
  <2>2. a <= e
    BY <1>3, <2>1
  <2> QED
    BY <2>2 DEF a, e
<1>10. ~(y > m)
  <2>1. y > m => S * y > S * m
    BY <1>3
  <2>2. S * y > S * m => S * (S * y) > S * (S * m)
    <3> DEFINE a == S * y  b == S * m
    <3>1. a \in Int /\ b \in Int
      BY <1>3
    <3> HIDE DEF a, b
    <3>2. a > b => S * a > S * b
      BY <3>1
    <3> QED
      BY <3>2 DEF a, b
  <2>3. S * (S * y) \in Int /\ S * (S * m) \in Int
    BY <1>3
  <2> QED
    BY <1>3, <1>9, <2>1, <2>2, <2>3
<1> QED
  BY <1>3, <1>10 DEF m

\* The threshold of a fraction between 0 and 1, from the two halves: y is the product, w
\* the sum, and t what is cut off.
LEMMA HalvesAdd ==
  ASSUME NEW n \in 0 .. Denominator, 0 < n, n < Denominator
  PROVE  LET H == HalfRange  D == Denominator  S == Significands IN
         \E y, z, w \in Nat, t \in 0 .. D - 1, T \in Nat :
           /\ CalculateThreshold(n) = T % (UINT64_MAX + 1)
           /\ S * (y - (H - 1) * n) <= (H - 1) * n
           /\ S * ((H - 1) * n - y) <= (H - 1) * n
           /\ 2 * (w - z) <= D /\ 2 * (z - w) <= D
           /\ D * T = (H + 1) * y + (w - z) - t
<1> DEFINE H == HalfRange
           D == Denominator
           S == Significands
           x == (H - 1) * n
           y == Round(x)
           hi == y \div D
           f == y % D
           z == f * H + y
           w == Round(z)
           lo == w \div D
           t == w % D
           T == hi * H + lo
<1>1. /\ H \in Nat /\ H >= 4 /\ D \in Nat /\ D > 0 /\ S \in Nat /\ S >= 4 * H
      /\ n \in Nat /\ n > 0 /\ n < D
  BY SamplingAssumption
<1>2. x \in Nat /\ x <= (H - 1) * D /\ (H - 1) * D <= 2 * H * D
  <2> HIDE DEF H, D
  <2>1. (H - 1) * n <= (H - 1) * D
    BY <1>1
  <2>2. (H - 1) * D = H * D - D /\ 2 * H * D = H * D + H * D /\ H * D \in Nat /\ (H - 1) * n \in Nat
    BY <1>1
  <2> QED
    BY <1>1, <2>1, <2>2
<1>3. y \in Nat /\ S * (y - x) <= x /\ S * (x - y) <= x
  <2> HIDE DEF x
  <2>1. x \in 0 .. 2 * HalfRange * Denominator
    <3>1. (H - 1) * D \in Int /\ 2 * H * D \in Int
      <4> HIDE DEF H, D
      <4> QED
        BY <1>1
    <3>2. x <= 2 * H * D
      <4> DEFINE a == (H - 1) * D  b == 2 * H * D
      <4>1. a \in Int /\ b \in Int /\ x <= a /\ a <= b /\ x \in Nat
        BY <1>2, <3>1
      <4> HIDE DEF a, b
      <4>2. x <= b
        BY <4>1
      <4> QED
        BY <4>2 DEF b
    <3> QED
      BY <1>2, <3>1, <3>2
  <2> QED
    BY <2>1, RoundIs DEF y, S
<1>4. hi \in Int /\ f \in 0 .. D - 1 /\ y = D * hi + f
  <2> HIDE DEF y, D
  <2> QED
    BY <1>1, <1>3, Division
<1>5. z \in Nat /\ z <= 2 * H * D
  <2> HIDE DEF x, y, f, H, D, S
  <2>1. f * H \in Nat /\ f * H <= (D - 1) * H
    BY <1>1, <1>4
  <2>2. 4 * (y - x) <= D
    <3>1. CASE y <= x
      BY <1>1, <1>2, <1>3, <3>1
    <3>2. CASE y > x
      <4>1. (4 * H) * (y - x) <= S * (y - x)
        BY <1>1, <1>2, <1>3, <3>2
      <4>2. (H - 1) * D <= H * D /\ H * D \in Int /\ (4 * H) * (y - x) = H * (4 * (y - x))
        BY <1>1, <1>2, <1>3
      <4>3. H * (4 * (y - x)) <= H * D /\ 4 * (y - x) \in Int
        BY <1>2, <1>3, <4>1, <4>2, <1>1
      <4>4. 4 * (y - x) > D => H * (4 * (y - x)) > H * D
        <5> DEFINE a == 4 * (y - x)
        <5>1. a \in Int
          BY <4>3
        <5> HIDE DEF a
        <5>2. a > D => H * a > H * D
          BY <1>1, <5>1
        <5> QED
          BY <5>2 DEF a
      <4> QED
        BY <1>1, <4>2, <4>3, <4>4
    <3> QED
      BY <1>2, <1>3, <3>1, <3>2
  <2>3. (D - 1) * H = H * D - H /\ (H - 1) * D = H * D - D /\ 2 * H * D = H * D + H * D /\ H * D \in Int
    BY <1>1
  <2> QED
    BY <1>1, <1>2, <1>3, <2>1, <2>2, <2>3 DEF z
<1>6. w \in Nat /\ 2 * (w - z) <= D /\ 2 * (z - w) <= D
  <2>1. w \in Nat /\ S * (w - z) <= z /\ S * (z - w) <= z
    <3>1. z \in 0 .. 2 * HalfRange * Denominator
      BY <1>5 DEF H, D
    <3> HIDE DEF z
    <3> QED
      BY <3>1, RoundIs DEF w, S
  <2> HIDE DEF w, z, H, D, S
  <2>2. ASSUME NEW e \in Int, S * e <= z PROVE 2 * e <= D
    <3>1. CASE e <= 0
      BY <1>1, <3>1
    <3>2. CASE e > 0
      <4>1. (4 * H) * e <= S * e
        BY <1>1, <3>2
      <4>2. (4 * H) * e = (2 * H) * (2 * e) /\ 2 * H * D = (2 * H) * D /\ (2 * H) * (2 * e) \in Int
            /\ (2 * H) * D \in Int /\ S * e \in Int
        BY <1>1
      <4>3. (2 * H) * (2 * e) <= (2 * H) * D
        BY <1>5, <2>2, <4>1, <4>2
      <4>4. 2 * e > D => (2 * H) * (2 * e) > (2 * H) * D
        <5> DEFINE a == 2 * e  b == 2 * H
        <5>1. a \in Int /\ b \in Int /\ b > 0
          BY <1>1
        <5> HIDE DEF a, b
        <5>2. a > D => b * a > b * D
          BY <1>1, <5>1
        <5> QED
          BY <5>2 DEF a, b
      <4> QED
        BY <1>1, <4>2, <4>3, <4>4
    <3> QED
      BY <3>1, <3>2
  <2>3. w - z \in Int /\ z - w \in Int
    BY <1>5, <2>1
  <2> QED
    BY <2>1, <2>2, <2>3
<1>7. lo \in Int /\ t \in 0 .. D - 1 /\ w = D * lo + t
  <2> HIDE DEF w, D
  <2> QED
    BY <1>1, <1>6, Division
<1>8. hi \in Nat /\ lo \in Nat
  <2> HIDE DEF y, w, hi, lo, f, t, D
  <2>1. ASSUME NEW q \in Int, NEW r \in 0 .. D - 1, D * q + r >= 0 PROVE q \in Nat
    <3>1. q < 0 => D * q <= -D
      BY <1>1
    <3> QED
      BY <1>1, <2>1, <3>1
  <2> QED
    BY <1>3, <1>4, <1>6, <1>7, <2>1
<1>9. T \in Nat /\ D * T = (H + 1) * y + (w - z) - t
  <2> HIDE DEF y, w, hi, lo, f, t, H, D
  <2>1. hi * H \in Nat
    BY <1>1, <1>8
  <2>2. T \in Nat
    BY <1>8, <2>1 DEF T
  <2>3. D * T = D * hi * H + D * lo
    BY <1>1, <1>8 DEF T
  <2>4. D * hi * H = (y - f) * H
    BY <1>4, <1>1, <1>3
  <2>5. (y - f) * H = H * y - f * H /\ (H + 1) * y = H * y + y /\ f * H \in Int /\ H * y \in Int
    BY <1>1, <1>3, <1>4
  <2>6. z = f * H + y
    BY DEF z
  <2>7. D * lo = w - t
    BY <1>1, <1>6, <1>7
  <2> HIDE DEF z, T
  <2> QED
    BY <1>1, <1>3, <1>5, <1>6, <1>7, <2>2, <2>3, <2>4, <2>5, <2>6, <2>7
<1>10. CalculateThreshold(n) = T % (UINT64_MAX + 1)
  <2>1. ~(n <= 0) /\ ~(n >= Denominator)
    BY <1>1 DEF D
  <2> QED
    BY <2>1 DEF CalculateThreshold, UINT32_MAX
<1> HIDE DEF x, y, hi, f, z, w, lo, t, T
<1> QED
  BY <1>3, <1>5, <1>6, <1>7, <1>9, <1>10 DEF x

\* The thresholds at the ends, and the range of all others.
LEMMA ThresholdIs ==
  ASSUME NEW n \in Int
  PROVE  /\ UINT64_MAX \in Nat /\ UINT64_MAX > 0
         /\ CalculateThreshold(n) \in 0 .. UINT64_MAX
         /\ n <= 0 => CalculateThreshold(n) = 0
         /\ n >= Denominator => CalculateThreshold(n) = UINT64_MAX
<1>1. HalfRange \in Nat /\ HalfRange >= 4 /\ Denominator \in Nat /\ Denominator > 0
  BY SamplingAssumption
<1>2. UINT64_MAX \in Nat /\ UINT64_MAX > 0
  <2>1. HalfRange * HalfRange >= 4 * HalfRange /\ HalfRange * HalfRange \in Nat
    BY <1>1
  <2> QED
    BY <1>1, <2>1 DEF UINT64_MAX
<1>3. n <= 0 => CalculateThreshold(n) = 0
  BY DEF CalculateThreshold
<1>4. n >= Denominator => CalculateThreshold(n) = UINT64_MAX
  BY <1>1 DEF CalculateThreshold
<1>5. CASE 0 < n /\ n < Denominator
  <2>1. PICK T \in Nat : CalculateThreshold(n) = T % (UINT64_MAX + 1)
    <3>1. n \in 0 .. Denominator
      BY <1>1, <1>5
    <3> QED
      BY <1>5, <3>1, HalvesAdd
  <2> DEFINE m == UINT64_MAX + 1
  <2>2. m \in Nat /\ m > 0 /\ UINT64_MAX = m - 1
    BY <1>2
  <2> HIDE DEF m
  <2>3. T % m \in 0 .. m - 1
    BY <2>2, Division
  <2> QED
    BY <1>2, <1>3, <1>4, <2>1, <2>2, <2>3 DEF m
<1> QED
  BY <1>1, <1>2, <1>3, <1>4, <1>5

\* How many ids a threshold lets through.
LEMMA IdsSampled ==
  ASSUME NEW threshold \in 0 .. UINT64_MAX, UINT64_MAX \in Nat
  PROVE  Cardinality({id \in 0 .. UINT64_MAX : ShouldSample(threshold, id)})
           = IF threshold = 0 THEN 0 ELSE threshold + 1
<1> DEFINE ids == {id \in 0 .. UINT64_MAX : ShouldSample(threshold, id)}
<1>1. CASE threshold = 0
  <2>1. ids = {}
    BY <1>1 DEF ShouldSample
  <2> QED
    BY <1>1, <2>1, FS_EmptySet
<1>2. CASE threshold # 0
  <2>1. ids = 0 .. threshold
    BY <1>2 DEF ShouldSample
  <2>2. threshold \in Nat /\ 0 \in Int /\ threshold \in Int
    OBVIOUS
  <2>3. Cardinality(0 .. threshold) = IF 0 > threshold THEN 0 ELSE threshold - 0 + 1
    BY <2>2, FS_Interval
  <2>4. Cardinality(0 .. threshold) = threshold + 1
    BY <2>2, <2>3
  <2>5. Cardinality(ids) = Cardinality(0 .. threshold)
    <3> HIDE DEF ids
    <3> QED
      BY <2>1
  <2> QED
    BY <1>2, <2>4, <2>5
<1> QED
  BY <1>1, <1>2

\* CalculateThreshold, which adds up two rounded halves, lets through the share of the ids
\* that the probability asks for, to one part in 2^53 and two ids, for any width of a half
\* and any probability that is a double.
THEOREM SharesAreExact == SharesExact
<1> SUFFICES ASSUME NEW n \in 0 .. Denominator, Round(n) = n
    PROVE  LET share == Denominator * Cardinality({id \in 0 .. UINT64_MAX :
                          ShouldSample(CalculateThreshold(n), id)})
               exact == n * (UINT64_MAX + 1)
               allowed == exact + 2 * Significands * Denominator
           IN /\ n \in {0, Denominator} => share = exact
              /\ Significands * (share - exact) <= allowed
              /\ Significands * (exact - share) <= allowed
  BY DEF SharesExact
<1> DEFINE T == CalculateThreshold(n)
           H == HalfRange
           D == Denominator
           S == Significands
           U == UINT64_MAX
           C == Cardinality({id \in 0 .. UINT64_MAX : ShouldSample(CalculateThreshold(n), id)})
<1>1. /\ D \in Nat /\ D > 0 /\ U \in Nat /\ U > 0 /\ n \in Nat /\ n <= D
      /\ S \in Nat /\ S >= 16 /\ H \in Nat /\ H >= 4 /\ U = H * H - 1
  <2>1. n \in Int
    BY SamplingAssumption
  <2>2. U \in Nat /\ U > 0
    BY <2>1, ThresholdIs
  <2> QED
    BY <2>2, SamplingAssumption DEF UINT64_MAX
<1>2. /\ T \in 0 .. U
      /\ n <= 0 => T = 0
      /\ n >= D => T = U
  BY <1>1, ThresholdIs
<1>3. C = IF T = 0 THEN 0 ELSE T + 1
  BY <1>1, <1>2, IdsSampled
<1>4. n < D => S * n <= (S - 1) * D
  BY DoubleBelowOne
<1>5. 0 < n /\ n < D =>
        \E y, z, w \in Nat, t \in 0 .. D - 1, Q \in Nat :
           /\ T = Q % (U + 1)
           /\ S * (y - (H - 1) * n) <= (H - 1) * n
           /\ S * ((H - 1) * n - y) <= (H - 1) * n
           /\ 2 * (w - z) <= D /\ 2 * (z - w) <= D
           /\ D * Q = (H + 1) * y + (w - z) - t
  BY HalvesAdd
<1> HIDE DEF T, H, D, S, U, C
<1>6. SUFFICES /\ n \in {0, D} => D * C = n * (U + 1)
               /\ S * (D * C - n * (U + 1)) <= n * (U + 1) + 2 * S * D
               /\ S * (n * (U + 1) - D * C) <= n * (U + 1) + 2 * S * D
  BY DEF D, S, U, C
<1>7. S * D \in Nat /\ 2 * S * D = 2 * (S * D) /\ n * (U + 1) \in Nat
  BY <1>1
<1>8. CASE n \in {0, D}
  <2>1. D * C = n * (U + 1)
    BY <1>1, <1>2, <1>3, <1>8
  <2>2. D * C - n * (U + 1) = 0 /\ n * (U + 1) - D * C = 0 /\ S * 0 = 0
    BY <1>1, <1>7, <2>1
  <2>3. S * (D * C - n * (U + 1)) = 0 /\ S * (n * (U + 1) - D * C) = 0
    BY <2>2
  <2> QED
    BY <1>7, <2>1, <2>3
<1>9. CASE 0 < n /\ n < D
  <2>1. PICK y \in Nat, z \in Nat, w \in Nat, t \in 0 .. D - 1, Q \in Nat :
           /\ T = Q % (U + 1)
           /\ S * (y - (H - 1) * n) <= (H - 1) * n
           /\ S * ((H - 1) * n - y) <= (H - 1) * n
           /\ 2 * (w - z) <= D /\ 2 * (z - w) <= D
           /\ D * Q = (H + 1) * y + (w - z) - t
    BY <1>5, <1>9
  <2> DEFINE x == (H - 1) * n
  <2>2. x \in Nat /\ (H + 1) * x = n * (U + 1) - n
    <3>1. (H + 1) * ((H - 1) * n) = n * (H * H) - n /\ U + 1 = H * H
      BY <1>1
    <3> QED
      BY <1>1, <3>1
  <2>3. y <= (H - 1) * D
    BY <1>1, <1>4, <1>9, <2>1, ProductBelow
  \* Nothing wraps.
  <2>4. Q < H * H
    <3>1. (H + 1) * y <= (H + 1) * ((H - 1) * D)
      <4> DEFINE m == (H - 1) * D
      <4>1. m \in Int /\ y <= m
        BY <1>1, <2>3
      <4> HIDE DEF m
      <4>2. (H + 1) * y <= (H + 1) * m
        BY <1>1, <4>1
      <4> QED
        BY <4>2 DEF m
    <3>2. (H + 1) * ((H - 1) * D) = D * (H * H) - D /\ D * (H * H) \in Int /\ (H + 1) * y \in Int
      BY <1>1
    <3>3. D * Q < D * (H * H)
      <4>1. w - z < D
        BY <1>1, <2>1
      <4> QED
        BY <1>1, <2>1, <3>1, <3>2, <4>1
    <3>4. Q >= H * H => D * Q >= D * (H * H)
      <4> DEFINE m == H * H
      <4>1. m \in Int
        BY <1>1
      <4> HIDE DEF m
      <4>2. Q >= m => D * Q >= D * m
        BY <1>1, <4>1
      <4> QED
        BY <4>2 DEF m
    <3>5. D * Q \in Int /\ D * (H * H) \in Int /\ H * H \in Int
      BY <1>1
    <3> QED
      BY <3>3, <3>4, <3>5
  <2>5. T = Q
    <3> DEFINE m == U + 1
    <3>1. m \in Nat /\ m > 0 /\ Q < m
      BY <1>1, <2>4
    <3> HIDE DEF m
    <3>2. Q % m = Q
      BY <3>1, QuotientAndRest
    <3> QED
      BY <2>1, <3>2 DEF m
  <2> HIDE DEF x
  \* What both roundings come to.
  <2> DEFINE e == y - x
             d == w - z
  <2>6. /\ e \in Int /\ d \in Int /\ S * e <= x /\ S * (-e) <= x /\ 2 * d <= D /\ 2 * (-d) <= D
        /\ t \in Int /\ 0 <= t /\ t < D
    <3>1. -e = x - y /\ -d = z - w
      BY <2>2
    <3> QED
      BY <1>1, <2>1, <2>2, <3>1 DEF x
  <2>7. D * T = n * (U + 1) - n + (H + 1) * e + d - t
    <3>1. (H + 1) * y = (H + 1) * x + (H + 1) * e
      BY <1>1, <2>2
    <3> QED
      BY <1>1, <2>1, <2>2, <2>5, <3>1
  <2>8. S * ((H + 1) * e) <= n * (U + 1) - n /\ -(S * ((H + 1) * e)) <= n * (U + 1) - n
    <3> HIDE DEF e
    <3>1. S * ((H + 1) * e) = (H + 1) * (S * e) /\ -(S * ((H + 1) * e)) = (H + 1) * (S * (-e))
      BY <1>1, <2>6
    <3>2. ASSUME NEW a \in Int, a <= x PROVE (H + 1) * a <= (H + 1) * x
      BY <1>1, <2>2, <3>2
    <3>3. S * e \in Int /\ S * (-e) \in Int
      BY <1>1, <2>6
    <3>4. (H + 1) * (S * e) <= (H + 1) * x /\ (H + 1) * (S * (-e)) <= (H + 1) * x
      BY <2>6, <3>2, <3>3
    <3> QED
      BY <2>2, <3>1, <3>4
  <2> HIDE DEF e, d
  <2> DEFINE X == n * (U + 1)
             g == (H + 1) * e
  <2>9. X \in Nat /\ g \in Int /\ S * g <= X - n /\ -(S * g) <= X - n /\ D * T = X - n + g + d - t
    BY <1>1, <1>7, <2>6, <2>7, <2>8
  <2> HIDE DEF X, g
  <2>10. CASE T # 0
    <3>1. D * C = D * T + D
      BY <1>1, <1>2, <1>3, <2>10
    <3>2. D * C - X = g + d - t - n + D
      BY <1>1, <2>6, <2>9, <3>1
    <3>3. S * (D * C - X) = S * g + S * (d - t - n + D)
      BY <1>1, <2>6, <2>9, <3>2
    <3>4. S * (X - D * C) = -(S * g) + S * (-(d - t - n + D))
      <4> DEFINE a == d - t - n + D
      <4>1. a \in Int /\ D * C - X = g + a /\ D * C \in Int
        BY <1>1, <2>6, <2>9, <3>1, <3>2
      <4> HIDE DEF a
      <4>2. X - D * C = (-g) + (-a)
        BY <2>9, <4>1
      <4>3. S * ((-g) + (-a)) = -(S * g) + S * (-a)
        BY <1>1, <2>9, <4>1
      <4> QED
        BY <4>2, <4>3 DEF a
    <3>5. d - t - n + D <= 2 * D /\ -(d - t - n + D) <= 2 * D
      BY <1>1, <1>9, <2>6
    <3>6. S * (d - t - n + D) <= S * (2 * D) /\ S * (-(d - t - n + D)) <= S * (2 * D)
      <4> DEFINE a == d - t - n + D
      <4>1. a \in Int /\ a <= 2 * D /\ -a <= 2 * D
        BY <1>1, <2>6, <3>5
      <4> HIDE DEF a
      <4>2. S * a <= S * (2 * D) /\ S * (-a) <= S * (2 * D)
        BY <1>1, <4>1
      <4> QED
        BY <4>2 DEF a
    <3>7. S * (2 * D) = 2 * (S * D) /\ S * g \in Int /\ S * (d - t - n + D) \in Int
          /\ S * (-(d - t - n + D)) \in Int
      BY <1>1, <2>6, <2>9
    <3>8. S * (D * C - X) <= X + 2 * (S * D) /\ S * (X - D * C) <= X + 2 * (S * D)
      BY <1>1, <1>7, <2>9, <3>3, <3>4, <3>6, <3>7
    <3> QED
      BY <1>7, <1>9, <3>8 DEF X
  <2>11. CASE T = 0
    <3>1. D * C = 0 /\ D * T = 0 /\ C = 0
      BY <1>1, <1>3, <2>11
    <3>2. X = n - g - d + t
      BY <1>1, <2>6, <2>9, <3>1
    \* So small a fraction is less than a half.
    <3>3. 2 * n <= D
      <4>1. (H + 1) * y = t - d
        BY <1>1, <2>1, <2>5, <3>1, <2>6 DEF d
      <4>2. 5 * y <= (H + 1) * y
        BY <1>1
      <4>3. 10 * y <= 3 * D
        BY <1>1, <2>6, <4>1, <4>2
      <4>4. x <= 2 * y
        <5>1. CASE x - y <= 0
          BY <2>2, <5>1
        <5>2. CASE x - y > 0
          <6>1. 2 * (x - y) <= S * (x - y)
            BY <1>1, <2>2, <5>2
          <6>2. S * (x - y) <= x /\ S * (x - y) \in Int
            BY <1>1, <2>1, <2>2 DEF x
          <6> QED
            BY <2>2, <6>1, <6>2
        <5> QED
          BY <2>2, <5>1, <5>2
      <4>5. 3 * n <= x
        BY <1>1 DEF x
      <4> QED
        BY <1>1, <2>2, <4>3, <4>4, <4>5
    <3>4. S * X = -(S * g) + S * (n - d + t)
      BY <1>1, <2>6, <2>9, <3>2
    <3>5. n - d + t <= 2 * D
      BY <1>1, <2>6, <3>3
    <3>6. S * (n - d + t) <= S * (2 * D)
      <4> DEFINE a == n - d + t
      <4>1. a \in Int /\ a <= 2 * D
        BY <1>1, <2>6, <3>5
      <4> HIDE DEF a
      <4>2. S * a <= S * (2 * D)
        BY <1>1, <4>1
      <4> QED
        BY <4>2 DEF a
    <3>7. S * (2 * D) = 2 * (S * D) /\ S * g \in Int /\ S * (n - d + t) \in Int /\ S * X \in Nat
      BY <1>1, <2>6, <2>9
    <3>8. S * X <= X + 2 * (S * D) /\ -(S * X) <= X + 2 * (S * D)
      BY <1>1, <1>7, <2>9, <3>4, <3>6, <3>7
    <3>9. S * (D * C - X) = -(S * X) /\ S * (X - D * C) = S * X
      BY <1>1, <2>9, <3>1
    <3> QED
      BY <1>7, <1>9, <3>8, <3>9 DEF X
  <2> QED
    BY <2>10, <2>11
<1> QED
  BY <1>1, <1>8, <1>9

----------------------------------------------------------------------------
Start == [parent : SpanNames \cup {NoParent}, id : TraceIds, sampler : Int, sampled : BOOLEAN]

SamplingTypeOK ==
  /\ probability \in [Processes -> Numerators]
  /\ DOMAIN started_ \subseteq SpanNames
  /\ started_ \in [DOMAIN started_ -> Start]
  /\ WithParents(DOMAIN started_)

\* What the sampler of a span says of its trace.
Chosen(s) == ShouldSample(CalculateThreshold(started_[s].sampler), started_[s].id)

\* Along the ancestry of a span there is one trace; the span is sampled if a sampler of
\* one of them chose it.
SamplingInv ==
  /\ SamplingTypeOK
  /\ \A span \in DOMAIN started_ :
       /\ \A s \in Ancestry(span) : started_[s].id = started_[span].id
       /\ started_[span].sampled <=> \E s \in Ancestry(span) : Chosen(s)

\* A span is in its ancestry, with the ancestries of all in it.
LEMMA AncestryCloses ==
  ASSUME WithParents(DOMAIN started_), NEW span \in DOMAIN started_
  PROVE  /\ span \in Ancestry(span) /\ Ancestry(span) \subseteq DOMAIN started_
         /\ WithParents(Ancestry(span))
         /\ \A s \in Ancestry(span) : Ancestry(s) \subseteq Ancestry(span)
<1>1. span \in Ancestry(span) /\ Ancestry(span) \subseteq DOMAIN started_
  BY DEF Ancestry
<1>2. ASSUME NEW s \in Ancestry(span), started_[s].parent # NoParent
      PROVE  started_[s].parent \in Ancestry(span)
  BY <1>2, <1>1 DEF Ancestry, WithParents
<1>3. WithParents(Ancestry(span))
  BY <1>2 DEF WithParents
<1>4. ASSUME NEW s \in Ancestry(span), NEW r \in Ancestry(s) PROVE r \in Ancestry(span)
  BY <1>1, <1>3, <1>4 DEF Ancestry
<1> QED
  BY <1>1, <1>3, <1>4

\* What the start of a span changes of the ancestries: nothing of those of the others.
LEMMA AncestryOfNew ==
  ASSUME SamplingTypeOK, NEW new \in SpanNames \ DOMAIN started_,
         NEW parent \in DOMAIN started_ \cup {NoParent},
         DOMAIN started_' = DOMAIN started_ \cup {new},
         \A s \in DOMAIN started_ : started_'[s] = started_[s],
         started_'[new].parent = parent
  PROVE  /\ \A span \in DOMAIN started_ : Ancestry(span)' = Ancestry(span)
         /\ Ancestry(new)' = {new} \cup (IF parent = NoParent THEN {} ELSE Ancestry(parent))
<1> DEFINE D == DOMAIN started_
           Closed(spans) == \A s \in spans : started_'[s].parent \in spans \cup {NoParent}
<1>1. \A span : Ancestry(span)' =
        {s \in D \cup {new} : \A spans \in SUBSET (D \cup {new}) :
           span \in spans /\ Closed(spans) => s \in spans}
  BY DEF Ancestry, WithParents
<1>2. \A spans \in SUBSET D : Closed(spans) <=> WithParents(spans)
  BY DEF WithParents
<1>3. WithParents(D) /\ new \notin D /\ NoParent \notin SpanNames /\ D \subseteq SpanNames
  BY SamplingAssumption DEF SamplingTypeOK
<1>4. ASSUME NEW spans \in SUBSET (D \cup {new}), Closed(spans)
      PROVE  WithParents(spans \ {new})
  <2> SUFFICES ASSUME NEW s \in spans \ {new}
               PROVE  started_[s].parent \in (spans \ {new}) \cup {NoParent}
    BY DEF WithParents
  <2>1. s \in D /\ started_'[s] = started_[s]
    OBVIOUS
  <2>2. started_[s].parent \in spans \cup {NoParent}
    BY <1>4, <2>1
  <2>3. started_[s].parent # new
    BY <1>3, <2>1 DEF WithParents
  <2> QED
    BY <2>2, <2>3
<1>5. ASSUME NEW span \in D PROVE Ancestry(span)' = Ancestry(span)
  <2>1. ASSUME NEW s \in Ancestry(span)' PROVE s \in Ancestry(span)
    <3>1. s \in D
      <4>1. Closed(D) /\ D \in SUBSET (D \cup {new}) /\ span \in D
        BY <1>2, <1>3
      <4> HIDE DEF D, Closed
      <4> QED
        BY <1>1, <2>1, <4>1
    <3>2. ASSUME NEW spans \in SUBSET D, span \in spans, WithParents(spans) PROVE s \in spans
      <4>1. Closed(spans) /\ spans \in SUBSET (D \cup {new})
        BY <1>2, <3>2
      <4> HIDE DEF D, Closed
      <4> QED
        BY <1>1, <2>1, <3>2, <4>1
    <3> QED
      BY <3>1, <3>2 DEF Ancestry
  <2>2. ASSUME NEW s \in Ancestry(span) PROVE s \in Ancestry(span)'
    <3>1. s \in D
      BY <2>2 DEF Ancestry
    <3>2. ASSUME NEW spans \in SUBSET (D \cup {new}), span \in spans, Closed(spans) PROVE s \in spans
      <4>1. spans \ {new} \in SUBSET D /\ span \in spans \ {new} /\ WithParents(spans \ {new})
        BY <1>3, <1>4, <3>2
      <4> QED
        BY <2>2, <4>1 DEF Ancestry
    <3> HIDE DEF Closed, D
    <3> QED
      BY <1>1, <3>1, <3>2
  <2> QED
    BY <2>1, <2>2
<1> DEFINE line == {new} \cup (IF parent = NoParent THEN {} ELSE Ancestry(parent))
<1>6. line \in SUBSET (D \cup {new}) /\ new \in line /\ Closed(line)
  <2>1. CASE parent = NoParent
    BY <2>1
  <2>2. CASE parent # NoParent
    <3>1. /\ parent \in Ancestry(parent) /\ Ancestry(parent) \subseteq D
          /\ WithParents(Ancestry(parent))
      BY <1>3, <2>2, AncestryCloses
    <3>2. Closed(Ancestry(parent))
      <4> HIDE DEF Closed
      <4> QED
        BY <1>2, <3>1
    <3>3. line = {new} \cup Ancestry(parent)
      BY <2>2
    <3> QED
      BY <3>1, <3>2, <3>3
  <2> QED
    BY <2>1, <2>2
<1>7. ASSUME NEW spans \in SUBSET (D \cup {new}), new \in spans, Closed(spans)
      PROVE  line \subseteq spans
  <2>1. CASE parent = NoParent
    BY <1>7, <2>1
  <2>2. CASE parent # NoParent
    <3>1. parent \in spans \ {new} /\ WithParents(spans \ {new}) /\ spans \ {new} \in SUBSET D
      BY <1>3, <1>4, <1>7, <2>2
    <3>2. Ancestry(parent) \subseteq spans \ {new}
      BY <3>1 DEF Ancestry
    <3> QED
      BY <1>7, <3>2
  <2> QED
    BY <2>1, <2>2
<1>8. Ancestry(new)' = line
  <2> HIDE DEF line, Closed
  <2> QED
    BY <1>1, <1>6, <1>7
<1> QED
  BY <1>5, <1>8

\* SamplingInv is an invariant: a span is sampled just if one of its ancestry was chosen by
\* its sampler.
THEOREM SamplingInvHolds == SamplingSpec => []SamplingInv
<1>1. SamplingInit => SamplingInv
  BY DEF SamplingInit, SamplingInv, SamplingTypeOK, WithParents
<1>2. SamplingInv /\ [SamplingNext]_samplingVars => SamplingInv'
  <2> SUFFICES ASSUME SamplingInv, [SamplingNext]_samplingVars PROVE SamplingInv'
    OBVIOUS
  <2>1. ASSUME NEW p \in Processes, NEW numerator \in Numerators,
               SetCurrentTraceParams(p, numerator)
        PROVE  SamplingInv'
    BY <2>1 DEF SetCurrentTraceParams, SamplingInv, SamplingTypeOK, WithParents, Ancestry, Chosen
  <2>2. ASSUME NEW new \in SpanNames, NEW parent \in DOMAIN started_ \cup {NoParent},
               NEW id \in TraceIds, NEW sampler \in Int,
               parent # NoParent => id = started_[parent].id,
               StartSpan(new, parent, id, sampler)
        PROVE  SamplingInv'
    <3> DEFINE record == [parent |-> parent, id |-> id, sampler |-> sampler,
                          sampled |-> Decide(parent, id, sampler)]
    <3>1. /\ SamplingTypeOK /\ new \notin DOMAIN started_
          /\ DOMAIN started_' = DOMAIN started_ \cup {new}
          /\ \A s \in DOMAIN started_ : started_'[s] = started_[s]
          /\ started_'[new] = record
          /\ probability' = probability
          /\ NoParent \notin DOMAIN started_
      BY <2>2, SamplingAssumption DEF StartSpan, SamplingInv, SamplingTypeOK
    <3>2. record \in Start
      <4>1. Decide(parent, id, sampler) \in BOOLEAN
        <5>1. parent # NoParent => started_[parent] \in Start
          BY <3>1 DEF SamplingTypeOK
        <5> QED
          BY <5>1 DEF Decide, Start, ShouldSample
      <4>2. parent \in SpanNames \cup {NoParent}
        BY <3>1 DEF SamplingTypeOK
      <4> QED
        BY <4>1, <4>2 DEF Start
    <3>3. started_' \in [DOMAIN started_' -> Start]
      <4>1. started_' = [s \in DOMAIN started_' |-> started_'[s]]
        BY <2>2 DEF StartSpan
      <4>2. \A s \in DOMAIN started_' : started_'[s] \in Start
        BY <3>1, <3>2 DEF SamplingTypeOK
      <4> QED
        BY <4>1, <4>2
    <3>4. /\ \A span \in DOMAIN started_ : Ancestry(span)' = Ancestry(span)
          /\ Ancestry(new)' = {new} \cup (IF parent = NoParent THEN {} ELSE Ancestry(parent))
      <4>1. started_'[new].parent = parent
        BY <3>1
      <4> QED
        BY <3>1, <4>1, AncestryOfNew
    <3>5. SamplingTypeOK'
      <4>1. WithParents(DOMAIN started_)'
        BY <3>1 DEF SamplingTypeOK, WithParents
      <4> QED
        BY <3>1, <3>3, <4>1 DEF SamplingTypeOK
    <3>6. \A s \in DOMAIN started_ : Chosen(s)' = Chosen(s)
      BY <3>1 DEF Chosen
    <3>7. ASSUME NEW span \in DOMAIN started_
          PROVE  /\ Ancestry(span) \subseteq DOMAIN started_ /\ span \in Ancestry(span)
                 /\ \A s \in Ancestry(span) : started_[s].id = started_[span].id
                 /\ started_[span].sampled <=> \E s \in Ancestry(span) : Chosen(s)
      BY <3>1, AncestryCloses DEF SamplingInv, SamplingTypeOK
    <3>8. ASSUME NEW span \in DOMAIN started_
          PROVE  /\ \A s \in Ancestry(span)' : started_'[s].id = started_'[span].id
                 /\ started_'[span].sampled <=> \E s \in Ancestry(span)' : Chosen(s)'
      BY <3>1, <3>4, <3>6, <3>7
    <3>9. Chosen(new)' <=> ShouldSample(CalculateThreshold(sampler), id)
      BY <3>1 DEF Chosen
    <3>10. /\ \A s \in Ancestry(new)' : started_'[s].id = started_'[new].id
           /\ started_'[new].sampled <=> \E s \in Ancestry(new)' : Chosen(s)'
      <4>1. CASE parent = NoParent
        <5>1. Ancestry(new)' = {new}
          BY <3>4, <4>1
        <5>2. started_'[new].sampled <=> ShouldSample(CalculateThreshold(sampler), id)
          BY <3>1, <4>1 DEF Decide
        <5> QED
          BY <3>9, <5>1, <5>2
      <4>2. CASE parent # NoParent
        <5>1. Ancestry(new)' = {new} \cup Ancestry(parent) /\ parent \in DOMAIN started_
          BY <3>4, <4>2
        <5>2. started_'[new].sampled <=>
                started_[parent].sampled \/ ShouldSample(CalculateThreshold(sampler), id)
          BY <3>1, <4>2 DEF Decide
        <5>3. started_'[new].id = started_[parent].id
          BY <3>1, <2>2, <4>2
        <5>4. (\E s \in Ancestry(new)' : Chosen(s)') <=>
                Chosen(new)' \/ \E s \in Ancestry(parent) : Chosen(s)
          BY <3>6, <3>7, <5>1
        <5>5. \A s \in Ancestry(new)' : started_'[s].id = started_'[new].id
          BY <3>1, <3>7, <5>1, <5>3
        <5> QED
          BY <3>7, <3>9, <5>1, <5>2, <5>4, <5>5
      <4> QED
        BY <4>1, <4>2
    <3> QED
      BY <3>1, <3>5, <3>8, <3>10 DEF SamplingInv
  <2>3. CASE UNCHANGED samplingVars
    BY <2>3 DEF samplingVars, SamplingInv, SamplingTypeOK, WithParents, Ancestry, Chosen
  <2>4. ASSUME NEW p \in Processes, NEW sampler \in {probability[p], 0, Denominator}
        PROVE  sampler \in Int
    BY SamplingAssumption DEF SamplingInv, SamplingTypeOK
  <2>5. ASSUME NEW parent \in DOMAIN started_
        PROVE  parent # NoParent /\ started_[parent].id \in TraceIds
    BY SamplingAssumption DEF SamplingInv, SamplingTypeOK, Start
  <2> QED
    BY <2>1, <2>2, <2>3, <2>4, <2>5 DEF SamplingNext
<1> QED
  BY <1>1, <1>2, PTL DEF SamplingSpec

\* Under a sampled span all spans are sampled, and with one sampler all of a trace are
\* decided as its root, in any number of processes that change their parameters.
THEOREM SamplingIsConsistent == SamplingSpec => []SamplingConsistent
<1>1. SamplingInv => SamplingConsistent
  <2> SUFFICES ASSUME SamplingInv, NEW span \in DOMAIN started_
      PROVE  LET samplers == {started_[s].sampler : s \in Ancestry(span)}
                 sampled == started_[span].sampled IN
             /\ sampled <=> \E s \in Ancestry(span) :
                  ShouldSample(CalculateThreshold(started_[s].sampler), started_[span].id)
             /\ samplers = {0} => ~sampled
             /\ Denominator \in samplers => sampled
             /\ \A sampler \in samplers : samplers = {sampler} =>
                  \A s \in Ancestry(span) : started_[s].sampled = sampled
    BY SharesAreExact DEF SamplingConsistent
  <2> DEFINE samplers == {started_[s].sampler : s \in Ancestry(span)}
             sampled == started_[span].sampled
             By(sampler) == ShouldSample(CalculateThreshold(sampler), started_[span].id)
  <2>1. ASSUME NEW s \in DOMAIN started_
        PROVE  /\ s \in Ancestry(s) /\ Ancestry(s) \subseteq DOMAIN started_
               /\ \A r \in Ancestry(s) : Ancestry(r) \subseteq Ancestry(s)
               /\ \A r \in Ancestry(s) : started_[r].id = started_[s].id
               /\ started_[s].sampled <=> \E r \in Ancestry(s) : Chosen(r)
               /\ started_[s] \in Start
    BY AncestryCloses DEF SamplingInv, SamplingTypeOK
  <2>2. \A s \in Ancestry(span) : Chosen(s) <=> By(started_[s].sampler)
    BY <2>1 DEF Chosen
  <2>3. sampled <=> \E s \in Ancestry(span) : By(started_[s].sampler)
    BY <2>1, <2>2
  <2>4. ~By(0)
    BY ThresholdIs DEF ShouldSample
  <2>5. By(Denominator)
    <3>1. UINT64_MAX > 0 /\ UINT64_MAX \in Nat
      <4>1. HalfRange * HalfRange >= 2 * HalfRange /\ HalfRange * HalfRange \in Nat
        BY SamplingAssumption
      <4> QED
        BY <4>1, SamplingAssumption DEF UINT64_MAX
    <3>2. CalculateThreshold(Denominator) = UINT64_MAX
      BY SamplingAssumption, ThresholdIs
    <3>3. started_[span].id \in 0 .. UINT64_MAX
      BY <2>1, SamplingAssumption DEF Start, UINT64_MAX
    <3> QED
      BY <3>1, <3>2, <3>3 DEF ShouldSample
  <2> HIDE DEF By
  <2>6. samplers = {0} => ~sampled
    BY <2>3, <2>4
  <2>7. Denominator \in samplers => sampled
    BY <2>3, <2>5
  <2>8. ASSUME NEW sampler \in samplers, samplers = {sampler}, NEW s \in Ancestry(span)
        PROVE  started_[s].sampled = sampled
    <3>1. s \in DOMAIN started_ /\ started_[s].sampled \in BOOLEAN /\ sampled \in BOOLEAN
      BY <2>1 DEF Start
    <3>2. \A r \in Ancestry(s) : started_[r].sampler = sampler /\ r \in Ancestry(span)
      BY <2>1, <2>8
    <3>3. s \in Ancestry(s) /\ span \in Ancestry(span)
      BY <2>1, <3>1
    <3>4. started_[s].sampled <=> By(sampler)
      BY <2>1, <2>2, <3>1, <3>2, <3>3
    <3>5. sampled <=> By(sampler)
      BY <2>3, <2>8, <3>3
    <3> QED
      BY <3>1, <3>4, <3>5
  <2> QED
    BY <2>3, <2>6, <2>7, <2>8 DEF By
<1> QED
  BY <1>1, SamplingInvHolds, PTL

----------------------------------------------------------------------------
----------------------------------------------------------------------------
\* Identifiers: any number of SpanContexts, of words of any size.

\* The bytes of the n-th word that was drawn; those of 0 are zero.
Byte(n, j) == IF n = 0 THEN Zero ELSE <<n, j>>
SpanWord(n) == [k \in 1 .. SpanIdSize |-> Byte(n, k)]
TraceWords(m, n) ==
  [k \in 1 .. TraceIdSize |-> IF k <= WordBytes THEN Byte(m, k) ELSE Byte(n, k - WordBytes)]

\* GenerateRandomBuffer draws one word for a span id and two for a trace id.
LEMMA WordsInIds == WordsIn(SpanIdSize) = 1 /\ WordsIn(TraceIdSize) = 2
<1> DEFINE W == WordBytes
<1>1. W \in Nat /\ W > 0 /\ SpanIdSize = W /\ TraceIdSize = 2 * W
  BY SizesAssumption DEF SizesAssumption
<1> HIDE DEF W
<1>2. W - 1 \in 0 .. W - 1 /\ 1 \in Nat /\ 2 \in Nat
  BY <1>1
<1>3. W + W - 1 = W * 1 + (W - 1) /\ 2 * W + W - 1 = W * 2 + (W - 1)
  BY <1>1
<1>4. (W + W - 1) \div W = 1 /\ (2 * W + W - 1) \div W = 2
  <2>1. (W * 1 + (W - 1)) \div W = 1
    BY <1>1, <1>2, QuotientAndRest
  <2>2. (W * 2 + (W - 1)) \div W = 2
    BY <1>1, <1>2, QuotientAndRest
  <2> QED
    BY <1>3, <2>1, <2>2, Zenon
<1> QED
  BY <1>1, <1>4, Zenon DEF WordsIn, W

\* A word that is drawn is the n-th or zero.
LEMMA WordIs ==
  ASSUME NEW n \in Nat, n > 0, NEW w \in Random64(n)
  PROVE  \E m \in {0, n} : \A j \in 1 .. WordBytes : w[j] = Byte(m, j)
<1>1. CASE w = Word(n)
  <2>1. \A j \in 1 .. WordBytes : w[j] = Byte(n, j)
    BY <1>1 DEF Word, Byte
  <2> QED
    BY <2>1
<1>2. CASE w = ZeroWord
  <2>1. \A j \in 1 .. WordBytes : w[j] = Byte(0, j)
    BY <1>2 DEF ZeroWord, Byte
  <2> QED
    BY <2>1
<1> QED
  BY <1>1, <1>2 DEF Random64

\* Where the bytes of a buffer of a word or two come from.
LEMMA BytePlace ==
  /\ \A k \in 1 .. WordBytes : (k - 1) \div WordBytes = 0 /\ (k - 1) % WordBytes = k - 1
  /\ \A k \in WordBytes + 1 .. 2 * WordBytes :
       (k - 1) \div WordBytes = 1 /\ (k - 1) % WordBytes = k - WordBytes - 1
<1> DEFINE W == WordBytes
<1>1. W \in Nat /\ W > 0
  BY SizesAssumption DEF SizesAssumption
<1> HIDE DEF W
<1>2. ASSUME NEW k \in 1 .. W PROVE (k - 1) \div W = 0 /\ (k - 1) % W = k - 1
  <2>1. k - 1 \in 0 .. W - 1 /\ W * 0 + (k - 1) = k - 1 /\ 0 \in Nat
    BY <1>1
  <2>2. (W * 0 + (k - 1)) \div W = 0 /\ (W * 0 + (k - 1)) % W = k - 1
    BY <1>1, <2>1, QuotientAndRest
  <2> QED
    BY <2>1, <2>2, Zenon
<1>3. ASSUME NEW k \in W + 1 .. 2 * W PROVE (k - 1) \div W = 1 /\ (k - 1) % W = k - W - 1
  <2>1. k - W - 1 \in 0 .. W - 1 /\ W * 1 + (k - W - 1) = k - 1 /\ 1 \in Nat
    BY <1>1
  <2>2. (W * 1 + (k - W - 1)) \div W = 1 /\ (W * 1 + (k - W - 1)) % W = k - W - 1
    BY <1>1, <2>1, QuotientAndRest
  <2> QED
    BY <2>1, <2>2, Zenon
<1> QED
  BY <1>2, <1>3 DEF W

\* A random span id is the next word, or zero.
LEMMA RandomSpanIdIs ==
  ASSUME NEW n \in Nat, NEW id \in GenerateRandomBuffer(n, SpanIdSize)
  PROVE  \E m \in {0, n + 1} : id = SpanWord(m)
<1>1. PICK w \in [1 .. 1 -> UNION {Random64(m) : m \in n + 1 .. n + 1}] :
        id = Buffer(w, SpanIdSize) /\ w[1] \in Random64(n + 1)
  BY WordsInIds DEF GenerateRandomBuffer
<1>2. PICK m \in {0, n + 1} : \A j \in 1 .. WordBytes : w[1][j] = Byte(m, j)
  BY <1>1, WordIs
<1>3. /\ SpanIdSize = WordBytes /\ WordBytes \in Nat
      /\ \A k \in 1 .. WordBytes : 0 + 1 = 1 /\ (k - 1) + 1 = k
  BY SizesAssumption DEF SizesAssumption
<1>4. \A k \in 1 .. WordBytes :
        w[((k - 1) \div WordBytes) + 1][((k - 1) % WordBytes) + 1] = Byte(m, k)
  BY <1>2, <1>3, BytePlace
<1>5. Buffer(w, SpanIdSize) = SpanWord(m)
  BY <1>3, <1>4 DEF Buffer, SpanWord
<1> QED
  BY <1>1, <1>5

\* A random trace id is the next two words, each of which may be zero.
LEMMA RandomTraceIdIs ==
  ASSUME NEW n \in Nat, NEW id \in GenerateRandomBuffer(n, TraceIdSize)
  PROVE  \E m \in {0, n + 1}, p \in {0, n + 2} : id = TraceWords(m, p)
<1>1. PICK w \in [1 .. 2 -> UNION {Random64(m) : m \in n + 1 .. n + 2}] :
        id = Buffer(w, TraceIdSize) /\ w[1] \in Random64(n + 1) /\ w[2] \in Random64(n + 2)
  BY WordsInIds DEF GenerateRandomBuffer
<1>2. PICK m \in {0, n + 1} : \A j \in 1 .. WordBytes : w[1][j] = Byte(m, j)
  BY <1>1, WordIs
<1>3. PICK p \in {0, n + 2} : \A j \in 1 .. WordBytes : w[2][j] = Byte(p, j)
  BY <1>1, WordIs
<1>4. TraceIdSize = 2 * WordBytes /\ WordBytes \in Nat
  BY SizesAssumption DEF SizesAssumption
<1>5. ASSUME NEW k \in 1 .. TraceIdSize, k <= WordBytes
      PROVE  w[((k - 1) \div WordBytes) + 1][((k - 1) % WordBytes) + 1] = Byte(m, k)
  <2>1. k \in 1 .. WordBytes /\ 0 + 1 = 1 /\ (k - 1) + 1 = k
    BY <1>4, <1>5
  <2> QED
    BY <1>2, <2>1, BytePlace
<1>6. ASSUME NEW k \in 1 .. TraceIdSize, ~ (k <= WordBytes)
      PROVE  w[((k - 1) \div WordBytes) + 1][((k - 1) % WordBytes) + 1] = Byte(p, k - WordBytes)
  <2>1. /\ k \in WordBytes + 1 .. 2 * WordBytes /\ 1 + 1 = 2
        /\ (k - WordBytes - 1) + 1 = k - WordBytes /\ k - WordBytes \in 1 .. WordBytes
    BY <1>4, <1>6
  <2> QED
    BY <1>3, <2>1, BytePlace
<1>7. Buffer(w, TraceIdSize) = TraceWords(m, p)
  BY <1>5, <1>6 DEF Buffer, TraceWords
<1> QED
  BY <1>1, <1>7

----------------------------------------------------------------------------
SpanContexts == [trace_id : {TraceWords(m, n) : m \in Nat, n \in Nat},
             span_id : {SpanWord(n) : n \in Nat}, trace_options : Int]

ContextRecords == [context : SpanContexts, parent : Nat, generated : BOOLEAN]

\* The numbers of the words that an id was made of.
SpanNumber(span_id) == span_id[1][1]
FirstNumber(trace_id) == trace_id[1][1]
SecondNumber(trace_id) == trace_id[WordBytes + 1][1]

\* A byte tells which word it is of.
LEMMA ByteNumber == \A n \in Nat, j \in Nat : Byte(n, j)[1] = n
  BY DEF Byte, Zero

\* An id tells which words it is of.
LEMMA NumbersAre ==
  ASSUME NEW m \in Nat, NEW n \in Nat
  PROVE  /\ SpanNumber(SpanWord(n)) = n
         /\ FirstNumber(TraceWords(m, n)) = m /\ SecondNumber(TraceWords(m, n)) = n
<1>1. WordBytes \in Nat /\ WordBytes > 0 /\ SpanIdSize = WordBytes /\ TraceIdSize = 2 * WordBytes
  BY SizesAssumption DEF SizesAssumption
<1>2. /\ 1 \in 1 .. SpanIdSize /\ 1 \in 1 .. TraceIdSize /\ 1 <= WordBytes
      /\ WordBytes + 1 \in 1 .. TraceIdSize /\ ~ (WordBytes + 1 <= WordBytes)
      /\ WordBytes + 1 - WordBytes = 1
  BY <1>1
<1>3. SpanWord(n)[1] = Byte(n, 1)
  BY <1>2 DEF SpanWord
<1>4. TraceWords(m, n)[1] = Byte(m, 1)
  BY <1>2 DEF TraceWords
<1>5. TraceWords(m, n)[WordBytes + 1] = Byte(n, 1)
  <2> DEFINE k == WordBytes + 1
  <2>1. k \in 1 .. TraceIdSize /\ ~ (k <= WordBytes) /\ k - WordBytes = 1
    BY <1>1
  <2> HIDE DEF k
  <2>2. TraceWords(m, n)[k] = IF k <= WordBytes THEN Byte(m, k) ELSE Byte(n, k - WordBytes)
    BY <2>1, Zenon DEF TraceWords
  <2>3. TraceWords(m, n)[k] = Byte(n, k - WordBytes)
    BY <2>1, <2>2, Zenon
  <2> QED
    BY <2>1, <2>3, Zenon DEF k
<1> QED
  BY <1>3, <1>4, <1>5, ByteNumber DEF SpanNumber, FirstNumber, SecondNumber

\* Every SpanContext has a span id of one word and a trace id of two.
LEMMA ContextIs ==
  ASSUME NEW c \in SpanContexts
  PROVE  /\ \E m \in Nat, n \in Nat : c.trace_id = TraceWords(m, n)
         /\ \E n \in Nat : c.span_id = SpanWord(n)
         /\ SpanNumber(c.span_id) \in Nat /\ c.span_id = SpanWord(SpanNumber(c.span_id))
         /\ FirstNumber(c.trace_id) \in Nat /\ SecondNumber(c.trace_id) \in Nat
         /\ c.trace_id = TraceWords(FirstNumber(c.trace_id), SecondNumber(c.trace_id))
<1>1. /\ c.trace_id \in {TraceWords(m, n) : m \in Nat, n \in Nat}
      /\ c.span_id \in {SpanWord(n) : n \in Nat}
  BY DEF SpanContexts
<1>2. PICK m \in Nat, n \in Nat : c.trace_id = TraceWords(m, n)
  BY <1>1
<1>3. PICK k \in Nat : c.span_id = SpanWord(k)
  BY <1>1
<1>4. SpanNumber(c.span_id) = k /\ FirstNumber(c.trace_id) = m /\ SecondNumber(c.trace_id) = n
  BY <1>2, <1>3, NumbersAre
<1> QED
  BY <1>2, <1>3, <1>4

Span(i) == SpanNumber(span_contexts[i].context.span_id)
First(i) == FirstNumber(span_contexts[i].context.trace_id)
Second(i) == SecondNumber(span_contexts[i].context.trace_id)
Root(i) == span_contexts[i].generated /\ span_contexts[i].parent = 0

IdTypeOK == drawn \in Nat /\ span_contexts \in Seq(ContextRecords)

WordsDrawn ==
  \A i \in DOMAIN span_contexts : Span(i) <= drawn /\ First(i) <= drawn /\ Second(i) <= drawn

\* No word is in two spans, nor in a span and a trace, nor in a trace twice.
EachWordOnce ==
  /\ \A i, j \in DOMAIN span_contexts :
       i # j /\ span_contexts[i].generated /\ span_contexts[j].generated /\ Span(i) # 0
         => Span(i) # Span(j)
  /\ \A i, j \in DOMAIN span_contexts : Root(i) =>
       /\ First(i) # 0 => First(i) # Second(i) /\ First(i) # Span(j)
       /\ Second(i) # 0 => Second(i) # Span(j)

ParentsKept ==
  \A i \in DOMAIN span_contexts :
    LET c == span_contexts[i].context parent == span_contexts[span_contexts[i].parent].context IN
    span_contexts[i].generated /\ span_contexts[i].parent # 0 =>
      /\ span_contexts[i].parent \in DOMAIN span_contexts
      /\ c.trace_id = parent.trace_id
      /\ c.trace_options \div 2 = parent.trace_options \div 2
      /\ IsSampled(parent.trace_options) => IsSampled(c.trace_options)

IdentifierInv == IdTypeOK /\ WordsDrawn /\ EachWordOnce /\ ParentsKept

\* Adding a context whose words are new, or its parent's, keeps the invariant.
LEMMA NewContextKeepsInv ==
  ASSUME IdentifierInv, NEW new \in ContextRecords, span_contexts' = Append(span_contexts, new),
         NEW s \in Nat, NEW f \in Nat, NEW g \in Nat,
         s = SpanNumber(new.context.span_id), f = FirstNumber(new.context.trace_id),
         g = SecondNumber(new.context.trace_id),
         drawn' \in Nat, drawn' >= drawn, s <= drawn', f <= drawn', g <= drawn',
         new.generated /\ s # 0 => s > drawn,
         ~new.generated => \E p \in DOMAIN span_contexts : s = Span(p),
         new.generated /\ new.parent = 0 =>
           /\ f # 0 => f > drawn /\ f # g /\ f # s
           /\ g # 0 => g > drawn /\ g # s,
         new.generated /\ new.parent # 0 =>
           LET parent == span_contexts[new.parent].context IN
           /\ new.parent \in DOMAIN span_contexts
           /\ new.context.trace_id = parent.trace_id
           /\ new.context.trace_options \div 2 = parent.trace_options \div 2
           /\ IsSampled(parent.trace_options) => IsSampled(new.context.trace_options)
  PROVE  IdentifierInv'
<1>0. PICK n \in Nat : n = Len(span_contexts)
  BY DEF IdentifierInv, IdTypeOK
<1>1. /\ DOMAIN span_contexts = 1 .. n
      /\ span_contexts' \in Seq(ContextRecords) /\ DOMAIN span_contexts' = 1 .. n + 1
      /\ span_contexts'[n + 1] = new
      /\ \A i \in 1 .. n : span_contexts'[i] = span_contexts[i]
  BY <1>0 DEF IdentifierInv, IdTypeOK
<1>2. ASSUME NEW i \in 1 .. n
      PROVE  /\ Span(i)' = Span(i) /\ First(i)' = First(i) /\ Second(i)' = Second(i)
             /\ Root(i)' = Root(i)
             /\ Span(i) \in Nat /\ First(i) \in Nat /\ Second(i) \in Nat
             /\ Span(i) <= drawn /\ First(i) <= drawn /\ Second(i) <= drawn
  <2>1. span_contexts'[i] = span_contexts[i]
    BY <1>1
  <2>2. /\ Span(i)' = Span(i) /\ First(i)' = First(i) /\ Second(i)' = Second(i)
        /\ Root(i)' = Root(i)
    BY <2>1 DEF Span, First, Second, Root
  <2>3. span_contexts[i].context \in SpanContexts
    <3>1. span_contexts[i] \in ContextRecords
      BY <1>1 DEF IdentifierInv, IdTypeOK
    <3> QED
      BY <3>1 DEF ContextRecords
  <2>4. Span(i) \in Nat /\ First(i) \in Nat /\ Second(i) \in Nat
    BY <2>3, ContextIs DEF Span, First, Second
  <2>5. Span(i) <= drawn /\ First(i) <= drawn /\ Second(i) <= drawn
    BY <1>1 DEF IdentifierInv, WordsDrawn
  <2> QED
    BY <2>2, <2>4, <2>5
<1>3. /\ Span(n + 1)' = s /\ First(n + 1)' = f /\ Second(n + 1)' = g
      /\ Root(n + 1)' <=> new.generated /\ new.parent = 0
  BY <1>1 DEF Span, First, Second, Root
<1>4. IdTypeOK'
  BY <1>1 DEF IdTypeOK
<1>5. WordsDrawn'
  <2> SUFFICES ASSUME NEW i \in 1 .. n + 1
               PROVE  Span(i)' <= drawn' /\ First(i)' <= drawn' /\ Second(i)' <= drawn'
    BY <1>1 DEF WordsDrawn
  <2>1. drawn \in Nat
    BY DEF IdentifierInv, IdTypeOK
  <2>2. CASE i \in 1 .. n
    BY <1>2, <2>1, <2>2
  <2>3. CASE i = n + 1
    BY <1>3, <2>3
  <2> QED
    BY <1>1, <2>2, <2>3
<1>6. ASSUME NEW i \in 1 .. n + 1, NEW j \in 1 .. n + 1, i # j,
             span_contexts'[i].generated, span_contexts'[j].generated, Span(i)' # 0
      PROVE  Span(i)' # Span(j)'
  <2>1. drawn \in Nat
    BY DEF IdentifierInv, IdTypeOK
  <2>2. CASE i \in 1 .. n /\ j \in 1 .. n
    <3>1. span_contexts[i].generated /\ span_contexts[j].generated /\ Span(i) # 0
      BY <1>1, <1>2, <1>6, <2>2
    <3>2. Span(i) # Span(j)
      BY <1>1, <1>6, <2>2, <3>1 DEF IdentifierInv, EachWordOnce
    <3> QED
      BY <1>2, <2>2, <3>2
  <2>3. CASE i = n + 1 /\ j \in 1 .. n
    <3>1. new.generated /\ s # 0 /\ s > drawn
      BY <1>1, <1>3, <1>6, <2>3
    <3> QED
      BY <1>2, <1>3, <2>1, <2>3, <3>1
  <2>4. CASE i \in 1 .. n /\ j = n + 1
    <3>1. new.generated /\ Span(i) # 0
      BY <1>1, <1>2, <1>6, <2>4
    <3> QED
      BY <1>2, <1>3, <2>1, <2>4, <3>1
  <2> QED
    BY <1>1, <1>6, <2>2, <2>3, <2>4
<1>7. ASSUME NEW i \in 1 .. n + 1, NEW j \in 1 .. n + 1, Root(i)'
      PROVE  /\ First(i)' # 0 => First(i)' # Second(i)' /\ First(i)' # Span(j)'
             /\ Second(i)' # 0 => Second(i)' # Span(j)'
  <2>1. drawn \in Nat
    BY DEF IdentifierInv, IdTypeOK
  <2>2. CASE i \in 1 .. n
    <3>1. \A k \in 1 .. n :
            /\ First(i) # 0 => First(i) # Second(i) /\ First(i) # Span(k)
            /\ Second(i) # 0 => Second(i) # Span(k)
      BY <1>1, <1>2, <1>7, <2>2 DEF IdentifierInv, EachWordOnce
    <3>2. CASE j \in 1 .. n
      BY <1>2, <2>2, <3>1, <3>2
    <3>3. CASE j = n + 1 /\ (new.generated /\ s # 0)
      <4>1. s > drawn
        BY <3>3
      <4>2. First(i) # s /\ Second(i) # s
        BY <1>2, <2>1, <2>2, <4>1
      <4> QED
        BY <1>1, <1>2, <1>3, <2>2, <3>1, <3>3, <4>2
    <3>4. CASE j = n + 1 /\ s = 0
      <4>1. First(i) # 0 => First(i) # Second(i)
        BY <2>2, <3>1
      <4> QED
        BY <1>2, <1>3, <2>2, <3>4, <4>1
    <3>5. CASE j = n + 1 /\ ~new.generated
      <4>1. PICK p \in 1 .. n : s = Span(p)
        BY <1>1, <3>5
      <4> QED
        BY <1>2, <1>3, <2>2, <3>1, <3>5, <4>1
    <3> QED
      BY <1>1, <3>2, <3>3, <3>4, <3>5
  <2>3. CASE i = n + 1
    <3>1. new.generated /\ new.parent = 0
      BY <1>3, <1>7, <2>3
    <3>2. /\ f # 0 => f > drawn /\ f # g /\ f # s
          /\ g # 0 => g > drawn /\ g # s
      BY <3>1
    <3>3. CASE j \in 1 .. n
      <4>1. Span(j) \in Nat /\ Span(j) <= drawn /\ Span(j)' = Span(j)
        BY <1>2, <3>3
      <4>2. (f # 0 => f # g /\ f # Span(j)) /\ (g # 0 => g # Span(j))
        BY <2>1, <3>2, <4>1
      <4> QED
        BY <1>3, <2>3, <4>1, <4>2
    <3>4. CASE j = n + 1
      BY <1>3, <2>3, <3>2, <3>4
    <3> QED
      BY <1>1, <3>3, <3>4
  <2> QED
    BY <1>1, <2>2, <2>3
<1>8. EachWordOnce'
  BY <1>1, <1>6, <1>7 DEF EachWordOnce
<1>9. ParentsKept'
  <2> SUFFICES ASSUME NEW i \in 1 .. n + 1, span_contexts'[i].generated,
                      span_contexts'[i].parent # 0
               PROVE  LET c == span_contexts'[i].context
                          parent == span_contexts'[span_contexts'[i].parent].context IN
                      /\ span_contexts'[i].parent \in DOMAIN span_contexts'
                      /\ c.trace_id = parent.trace_id
                      /\ c.trace_options \div 2 = parent.trace_options \div 2
                      /\ IsSampled(parent.trace_options) => IsSampled(c.trace_options)
    BY <1>1 DEF ParentsKept
  <2>1. CASE i \in 1 .. n
    <3>1. span_contexts'[i] = span_contexts[i]
      BY <1>1, <2>1
    <3>2. LET c == span_contexts[i].context
              parent == span_contexts[span_contexts[i].parent].context IN
          /\ span_contexts[i].parent \in DOMAIN span_contexts
          /\ c.trace_id = parent.trace_id
          /\ c.trace_options \div 2 = parent.trace_options \div 2
          /\ IsSampled(parent.trace_options) => IsSampled(c.trace_options)
      BY <1>1, <2>1, <3>1 DEF IdentifierInv, ParentsKept
    <3>3. span_contexts'[span_contexts[i].parent] = span_contexts[span_contexts[i].parent]
      BY <1>1, <3>2
    <3> QED
      BY <1>1, <3>1, <3>2, <3>3
  <2>2. CASE i = n + 1
    <3>1. new.parent \in 1 .. n /\ span_contexts'[new.parent] = span_contexts[new.parent]
      BY <1>1, <2>2
    <3> QED
      BY <1>1, <2>2, <3>1
  <2> QED
    BY <1>1, <2>1, <2>2
<1> QED
  BY <1>4, <1>5, <1>8, <1>9 DEF IdentifierInv

\* At the start there is the blank context only.
LEMMA IdentifierInvStarts ==
  ASSUME IdentifierInit PROVE IdentifierInv
<1> DEFINE c == SpanContext(BlankTraceId, BlankSpanId, NoOptions)
           blank == [context |-> c, parent |-> 0, generated |-> FALSE]
<1>1. BlankTraceId = TraceWords(0, 0) /\ BlankSpanId = SpanWord(0)
  BY DEF BlankTraceId, BlankSpanId, TraceWords, SpanWord, Byte
<1>2. c \in SpanContexts
  BY <1>1 DEF SpanContext, SpanContexts, NoOptions
<1>3. /\ SpanNumber(c.span_id) = 0 /\ FirstNumber(c.trace_id) = 0
      /\ SecondNumber(c.trace_id) = 0
  BY <1>1, NumbersAre DEF SpanContext
<1> HIDE DEF c
<1>4. blank \in ContextRecords /\ blank.context = c /\ ~blank.generated
  BY <1>2 DEF ContextRecords
<1> HIDE DEF blank
<1>5. /\ span_contexts = <<blank>> /\ DOMAIN span_contexts = {1} /\ span_contexts[1] = blank
      /\ span_contexts \in Seq(ContextRecords) /\ drawn = 0
  <2>1. span_contexts = <<blank>> /\ drawn = 0
    BY DEF IdentifierInit, blank, c
  <2> QED
    BY <1>4, <2>1
<1>6. Span(1) = 0 /\ First(1) = 0 /\ Second(1) = 0 /\ ~Root(1)
  BY <1>3, <1>4, <1>5 DEF Span, First, Second, Root
<1>7. IdTypeOK /\ WordsDrawn
  BY <1>5, <1>6 DEF IdTypeOK, WordsDrawn
<1>8. EachWordOnce
  BY <1>5, <1>6 DEF EachWordOnce
<1>9. ParentsKept
  BY <1>4, <1>5 DEF ParentsKept
<1> QED
  BY <1>7, <1>8, <1>9 DEF IdentifierInv

\* A sampling decision sets the bit that says so, or not, and no other.
LEMMA SamplingSetsOneBit ==
  ASSUME NEW options \in Int, NEW is_sampled \in BOOLEAN
  PROVE  /\ WithSampling(options, is_sampled) \in Int
         /\ WithSampling(options, is_sampled) \div 2 = options \div 2
  BY DEF WithSampling

\* A root has new words in both ids, a child a new span id, and a context received from a
\* header those of the one sent.
LEMMA IdentifierInvStep ==
  ASSUME IdentifierInv, IdentifierNext PROVE IdentifierInv'
<1>0. PICK n \in Nat, d \in Nat :
        n = Len(span_contexts) /\ DOMAIN span_contexts = 1 .. n /\ d = drawn
  BY DEF IdentifierInv, IdTypeOK
<1>1. ASSUME NEW p \in DOMAIN span_contexts
      PROVE  /\ p \in Nat /\ p # 0 /\ span_contexts[p].context \in SpanContexts
             /\ Span(p) \in Nat /\ First(p) \in Nat /\ Second(p) \in Nat
             /\ Span(p) <= d /\ First(p) <= d /\ Second(p) <= d
  <2>1. span_contexts[p] \in ContextRecords /\ p \in Nat /\ p # 0
    BY <1>0 DEF IdentifierInv, IdTypeOK
  <2>2. span_contexts[p].context \in SpanContexts
    BY <2>1 DEF ContextRecords
  <2>3. Span(p) \in Nat /\ First(p) \in Nat /\ Second(p) \in Nat
    BY <2>2, ContextIs DEF Span, First, Second
  <2>4. Span(p) <= d /\ First(p) <= d /\ Second(p) <= d
    BY <1>0 DEF IdentifierInv, WordsDrawn
  <2> QED
    BY <2>1, <2>2, <2>3, <2>4
<1>2. ASSUME NEW is_sampled \in BOOLEAN, StartRoot(is_sampled) PROVE IdentifierInv'
  <2>1. PICK span_id \in RandomSpanIds, trace_id \in RandomTraceIds :
          /\ More(SpanContext(trace_id, span_id, WithSampling(NoOptions, is_sampled)), 0, TRUE)
          /\ drawn' = drawn + WordsIn(SpanIdSize) + WordsIn(TraceIdSize)
    BY <1>2 DEF StartRoot
  <2>2. drawn' = d + 3
    BY <1>0, <2>1, WordsInIds
  <2>3. PICK s \in {0, d + 1} : span_id = SpanWord(s)
    BY <1>0, RandomSpanIdIs DEF RandomSpanIds
  <2>4. PICK f \in {0, d + 2}, g \in {0, d + 3} : trace_id = TraceWords(f, g)
    <3>1. trace_id \in GenerateRandomBuffer(d + 1, TraceIdSize) /\ d + 1 \in Nat
      BY <1>0, WordsInIds DEF RandomTraceIds
    <3>2. d + 1 + 1 = d + 2 /\ d + 1 + 2 = d + 3
      BY <1>0
    <3> QED
      BY <3>1, <3>2, RandomTraceIdIs
  <2> DEFINE c == SpanContext(trace_id, span_id, WithSampling(NoOptions, is_sampled))
             new == [context |-> c, parent |-> 0, generated |-> TRUE]
  <2>5. s \in Nat /\ f \in Nat /\ g \in Nat
    BY <1>0
  <2>6. SpanNumber(span_id) = s /\ FirstNumber(trace_id) = f /\ SecondNumber(trace_id) = g
    BY <2>3, <2>4, <2>5, NumbersAre
  <2>7. c \in SpanContexts
    <3>1. WithSampling(NoOptions, is_sampled) \in Int
      BY SamplingSetsOneBit DEF NoOptions
    <3> QED
      BY <2>3, <2>4, <2>5, <3>1 DEF SpanContext, SpanContexts
  <2>8. c.span_id = span_id /\ c.trace_id = trace_id
    BY DEF SpanContext
  <2>9. span_contexts' = Append(span_contexts, new)
    BY <2>1 DEF More
  <2> HIDE DEF c
  <2>10. new \in ContextRecords /\ new.context = c /\ new.parent = 0 /\ new.generated
    BY <2>7 DEF ContextRecords
  <2> HIDE DEF new
  <2>11. /\ s = SpanNumber(new.context.span_id) /\ f = FirstNumber(new.context.trace_id)
         /\ g = SecondNumber(new.context.trace_id)
    BY <2>6, <2>8, <2>10
  <2>12. /\ drawn' \in Nat /\ drawn' >= drawn /\ s <= drawn' /\ f <= drawn' /\ g <= drawn'
         /\ s # 0 => s > drawn
         /\ f # 0 => f > drawn /\ f # g /\ f # s
         /\ g # 0 => g > drawn /\ g # s
    BY <1>0, <2>2
  <2> QED
    BY <2>5, <2>9, <2>10, <2>11, <2>12, NewContextKeepsInv
<1>3. ASSUME NEW is_sampled \in BOOLEAN, NEW p \in DOMAIN span_contexts,
             StartChild(p, is_sampled)
      PROVE  IdentifierInv'
  <2> DEFINE parent == span_contexts[p].context  options == parent.trace_options
             mine == IF IsSampled(options) THEN options ELSE WithSampling(options, is_sampled)
  <2>1. PICK span_id \in RandomSpanIds :
          /\ More(SpanContext(parent.trace_id, span_id, mine), p, TRUE)
          /\ drawn' = drawn + WordsIn(SpanIdSize)
    BY <1>3 DEF StartChild
  <2>2. drawn' = d + 1
    BY <1>0, <2>1, WordsInIds
  <2>3. PICK s \in {0, d + 1} : span_id = SpanWord(s)
    BY <1>0, RandomSpanIdIs DEF RandomSpanIds
  <2>4. parent \in SpanContexts /\ options \in Int
    BY <1>1 DEF SpanContexts
  <2>5. /\ mine \in Int /\ mine \div 2 = options \div 2
        /\ IsSampled(options) => IsSampled(mine)
    BY <2>4, SamplingSetsOneBit
  <2> HIDE DEF mine
  <2>6. PICK new : new = [context |-> SpanContext(parent.trace_id, span_id, mine),
                          parent |-> p, generated |-> TRUE]
    OBVIOUS
  <2>7. span_contexts' = Append(span_contexts, new)
    BY <2>1, <2>6 DEF More
  <2>8. /\ new.context.trace_id = parent.trace_id /\ new.context.span_id = span_id
        /\ new.context.trace_options = mine /\ new.parent = p /\ new.generated
    BY <2>6 DEF SpanContext
  <2>9. new \in ContextRecords
    <3>1. s \in Nat
      BY <1>0
    <3>2. SpanContext(parent.trace_id, span_id, mine) \in SpanContexts
      BY <2>3, <2>4, <2>5, <3>1 DEF SpanContext, SpanContexts
    <3> QED
      BY <1>1, <2>6, <3>2 DEF ContextRecords
  <2>10. PICK f \in Nat, g \in Nat :
           f = First(p) /\ g = Second(p) /\ f <= d /\ g <= d
    BY <1>1
  <2>11. /\ s \in Nat /\ s = SpanNumber(new.context.span_id)
         /\ f = FirstNumber(new.context.trace_id) /\ g = SecondNumber(new.context.trace_id)
    <3>1. s \in Nat
      BY <1>0
    <3> QED
      BY <2>3, <2>8, <2>10, <3>1, NumbersAre DEF First, Second
  <2>12. /\ drawn' \in Nat /\ drawn' >= drawn /\ s <= drawn' /\ f <= drawn' /\ g <= drawn'
         /\ s # 0 => s > drawn
    BY <1>0, <2>2, <2>10
  <2>13. p # 0
    BY <1>1
  <2> QED
    BY <2>5, <2>7, <2>8, <2>9, <2>10, <2>11, <2>12, <2>13, NewContextKeepsInv
<1>4. ASSUME NEW p \in DOMAIN span_contexts, NEW options \in Int, Received(p, options)
      PROVE  IdentifierInv'
  <2> DEFINE sent == span_contexts[p].context
  <2>1. More(SpanContext(sent.trace_id, sent.span_id, options), p, FALSE) /\ drawn' = drawn
    BY <1>4 DEF Received
  <2>2. PICK new : new = [context |-> SpanContext(sent.trace_id, sent.span_id, options),
                          parent |-> p, generated |-> FALSE]
    OBVIOUS
  <2>3. span_contexts' = Append(span_contexts, new)
    BY <2>1, <2>2 DEF More
  <2>4. /\ new.context.trace_id = sent.trace_id /\ new.context.span_id = sent.span_id
        /\ ~new.generated
    BY <2>2 DEF SpanContext
  <2>5. new \in ContextRecords
    <3>1. SpanContext(sent.trace_id, sent.span_id, options) \in SpanContexts
      BY <1>1 DEF SpanContext, SpanContexts
    <3> QED
      BY <1>1, <2>2, <3>1 DEF ContextRecords
  <2>6. PICK s \in Nat, f \in Nat, g \in Nat :
          s = Span(p) /\ f = First(p) /\ g = Second(p) /\ s <= d /\ f <= d /\ g <= d
    BY <1>1
  <2>7. /\ s = SpanNumber(new.context.span_id)
        /\ f = FirstNumber(new.context.trace_id) /\ g = SecondNumber(new.context.trace_id)
    BY <2>4, <2>6 DEF Span, First, Second
  <2>8. drawn' \in Nat /\ drawn' >= drawn /\ s <= drawn' /\ f <= drawn' /\ g <= drawn'
    BY <1>0, <2>1, <2>6
  <2> QED
    BY <2>3, <2>4, <2>5, <2>6, <2>7, <2>8, NewContextKeepsInv
<1> QED
  <2>1. 0 .. 2^OptionBits - 1 \subseteq Int
    OBVIOUS
  <2> QED
    BY <1>2, <1>3, <1>4, <2>1 DEF IdentifierNext

\* IdentifierInv is an invariant.
LEMMA IdentifierInvAlways == IdentifierSpec => []IdentifierInv
<1>1. IdentifierInv /\ UNCHANGED identifierVars => IdentifierInv'
  BY DEF IdentifierInv, IdTypeOK, WordsDrawn, EachWordOnce, ParentsKept, Span, First, Second,
         Root, identifierVars
<1> QED
  BY <1>1, IdentifierInvStarts, IdentifierInvStep, PTL DEF IdentifierSpec

----------------------------------------------------------------------------
\* Ids of one size have the same digits only if they are the same.
LEMMA HexTellsApart ==
  ASSUME NEW S, NEW size \in Nat, NEW a \in [1 .. size -> S], NEW b \in [1 .. size -> S],
         BytesToHexString(a) = BytesToHexString(b)
  PROVE  a = b
<1>1. Len(a) = size /\ Len(b) = size
  OBVIOUS
<1>2. ASSUME NEW k \in 1 .. size PROVE a[k] = b[k]
  <2>1. 2 * k \in 1 .. 2 * size /\ (2 * k + 1) \div 2 = k
    OBVIOUS
  <2>2. /\ BytesToHexString(a)[2 * k] = <<a[(2 * k + 1) \div 2], (2 * k) % 2>>
        /\ BytesToHexString(b)[2 * k] = <<b[(2 * k + 1) \div 2], (2 * k) % 2>>
    BY <1>1, <2>1 DEF BytesToHexString
  <2> QED
    BY <2>1, <2>2
<1> QED
  BY <1>2

\* Ids are sequences of bytes of the sizes of the code.
LEMMA WordsAreFunctions ==
  ASSUME NEW m \in Nat, NEW n \in Nat
  PROVE  /\ SpanWord(n) \in [1 .. SpanIdSize -> Nat \X Nat]
         /\ TraceWords(m, n) \in [1 .. TraceIdSize -> Nat \X Nat]
         /\ SpanIdSize \in Nat /\ TraceIdSize \in Nat
<1>1. WordBytes \in Nat /\ SpanIdSize = WordBytes /\ TraceIdSize = 2 * WordBytes
  BY SizesAssumption DEF SizesAssumption
<1>2. \A k \in Nat, j \in Nat : Byte(k, j) \in Nat \X Nat
  BY DEF Byte, Zero
<1>3. \A k \in 1 .. TraceIdSize : k \in Nat /\ (~ (k <= WordBytes) => k - WordBytes \in Nat)
  BY <1>1
<1>4. \A k \in 1 .. TraceIdSize :
        (IF k <= WordBytes THEN Byte(m, k) ELSE Byte(n, k - WordBytes)) \in Nat \X Nat
  BY <1>2, <1>3
<1>5. \A k \in 1 .. SpanIdSize : Byte(n, k) \in Nat \X Nat
  BY <1>1, <1>2
<1>6. SpanIdSize \in Nat /\ TraceIdSize \in Nat
  BY <1>1
<1> QED
  BY <1>4, <1>5, <1>6, Zenon DEF SpanWord, TraceWords

\* The digits of two contexts are those of the same ids, or not.
LEMMA DigitsTellApart ==
  ASSUME NEW a \in SpanContexts, NEW b \in SpanContexts
  PROVE  SameContext(a, b)
           <=> SubSeq(ContextToString(a), 1, 2) = SubSeq(ContextToString(b), 1, 2)
<1>1. /\ a.trace_id \in [1 .. TraceIdSize -> Nat \X Nat]
      /\ b.trace_id \in [1 .. TraceIdSize -> Nat \X Nat]
      /\ a.span_id \in [1 .. SpanIdSize -> Nat \X Nat]
      /\ b.span_id \in [1 .. SpanIdSize -> Nat \X Nat]
      /\ SpanIdSize \in Nat /\ TraceIdSize \in Nat
  <2>1. PICK m \in Nat, n \in Nat : a.trace_id = TraceWords(m, n)
    BY ContextIs
  <2>2. PICK u \in Nat, v \in Nat : b.trace_id = TraceWords(u, v)
    BY ContextIs
  <2>3. PICK k \in Nat : a.span_id = SpanWord(k)
    BY ContextIs
  <2>4. PICK l \in Nat : b.span_id = SpanWord(l)
    BY ContextIs
  <2>5. a.trace_id \in [1 .. TraceIdSize -> Nat \X Nat]
    BY <2>1, WordsAreFunctions
  <2>6. b.trace_id \in [1 .. TraceIdSize -> Nat \X Nat]
    BY <2>2, WordsAreFunctions
  <2>7. a.span_id \in [1 .. SpanIdSize -> Nat \X Nat]
    BY <2>3, WordsAreFunctions
  <2>8. b.span_id \in [1 .. SpanIdSize -> Nat \X Nat]
    BY <2>4, WordsAreFunctions
  <2>9. SpanIdSize \in Nat /\ TraceIdSize \in Nat
    BY <2>1, WordsAreFunctions
  <2> QED
    BY <2>5, <2>6, <2>7, <2>8, <2>9, Zenon
<1>2. ASSUME NEW c
      PROVE  SubSeq(ContextToString(c), 1, 2) = <<TraceIdToHex(c.trace_id), SpanIdToHex(c.span_id)>>
  <2> DEFINE t == TraceIdToHex(c.trace_id)  s == SpanIdToHex(c.span_id)
             o == OptionsToHex(c.trace_options)
  <2>1. ContextToString(c) = <<t, s, o>>
    BY DEF ContextToString
  <2> HIDE DEF t, s, o
  <2>2. SubSeq(<<t, s, o>>, 1, 2) = <<t, s>>
    <3> DEFINE all == <<t, s, o>>  S == {t, s, o}  two == SubSeq(all, 1, 2)
    <3>1. all[1] = t /\ all[2] = s /\ \A i \in 1 .. 2 : all[i] \in S
      OBVIOUS
    <3> HIDE DEF all
    <3>2. /\ two \in Seq(S) /\ Len(two) = 2
          /\ \A i \in 1 .. 2 - 1 + 1 : two[i] = all[1 + i - 1]
      <4> HIDE DEF S
      <4> QED
        BY <3>1, SubSeqProperties
    <3> HIDE DEF two
    <3>3. two[1] = t /\ two[2] = s
      BY <3>1, <3>2
    <3> DEFINE pair == <<t, s>>
    <3>4. pair \in Seq(S) /\ Len(pair) = 2 /\ pair[1] = t /\ pair[2] = s
      OBVIOUS
    <3> HIDE DEF pair, S
    <3>5. \A i \in 1 .. Len(two) : two[i] = pair[i]
      BY <3>2, <3>3, <3>4
    <3>6. two = pair
      BY <3>2, <3>4, <3>5, SeqEqual
    <3> QED
      BY <3>6, Zenon DEF two, all, pair
  <2> QED
    BY <2>1, <2>2, Zenon DEF t, s
<1>3. /\ TraceIdToHex(a.trace_id) = TraceIdToHex(b.trace_id) => a.trace_id = b.trace_id
      /\ SpanIdToHex(a.span_id) = SpanIdToHex(b.span_id) => a.span_id = b.span_id
  BY <1>1, HexTellsApart DEF TraceIdToHex, SpanIdToHex
<1> DEFINE t == TraceIdToHex(a.trace_id)  s == SpanIdToHex(a.span_id)
           u == TraceIdToHex(b.trace_id)  v == SpanIdToHex(b.span_id)
<1>4. a.trace_id = b.trace_id /\ a.span_id = b.span_id <=> t = u /\ s = v
  BY <1>3
<1>5. SubSeq(ContextToString(a), 1, 2) = <<t, s>> /\ SubSeq(ContextToString(b), 1, 2) = <<u, v>>
  BY <1>2
<1> HIDE DEF t, s, u, v
<1>6. <<t, s>> = <<u, v>> <=> t = u /\ s = v
  OBVIOUS
<1> QED
  BY <1>4, <1>5, <1>6, Zenon DEF SameContext

\* An id is zero as a number, or in all its parts, just if it is blank.
LEMMA ValidIs ==
  ASSUME NEW c \in SpanContexts
  PROVE  /\ SpanIdValid(c.span_id) <=> SpanNumber(c.span_id) # 0
         /\ ContextIsValid(c) <=> c.trace_id # BlankTraceId /\ c.span_id # BlankSpanId
<1> DEFINE s == SpanNumber(c.span_id)  f == FirstNumber(c.trace_id)
           g == SecondNumber(c.trace_id)
<1>1. /\ s \in Nat /\ c.span_id = SpanWord(s)
      /\ f \in Nat /\ g \in Nat /\ c.trace_id = TraceWords(f, g)
  BY ContextIs
<1> HIDE DEF s, f, g
<1>2. WordBytes \in Nat /\ WordBytes > 0 /\ SpanIdSize = WordBytes /\ TraceIdSize = 2 * WordBytes
  BY SizesAssumption DEF SizesAssumption
<1>3. \A n \in Nat, j \in Nat : Byte(n, j) = Zero <=> n = 0
  BY DEF Byte, Zero
<1>4. IsZero(c.span_id, 1) <=> s = 0
  <2>1. 1 + WordBytes - 1 = WordBytes /\ 1 \in 1 .. WordBytes
    BY <1>2
  <2>2. \A k \in 1 .. WordBytes : k \in Nat /\ SpanWord(s)[k] = Byte(s, k)
    BY <1>2 DEF SpanWord
  <2> QED
    BY <1>1, <1>3, <2>1, <2>2 DEF IsZero
<1>5. IsZero(c.trace_id, 1) <=> f = 0
  <2>1. 1 + WordBytes - 1 = WordBytes /\ 1 \in 1 .. WordBytes
    BY <1>2
  <2>2. \A k \in 1 .. WordBytes : k \in Nat /\ TraceWords(f, g)[k] = Byte(f, k)
    BY <1>2 DEF TraceWords
  <2> QED
    BY <1>1, <1>3, <2>1, <2>2 DEF IsZero
<1>6. IsZero(c.trace_id, WordBytes + 1) <=> g = 0
  <2>1. /\ WordBytes + 1 + WordBytes - 1 = 2 * WordBytes
        /\ WordBytes + 1 \in WordBytes + 1 .. 2 * WordBytes
    BY <1>2
  <2>2. \A k \in WordBytes + 1 .. 2 * WordBytes :
          /\ k \in 1 .. TraceIdSize /\ k - WordBytes \in Nat /\ ~ (k <= WordBytes)
    BY <1>2
  <2>3. \A k \in WordBytes + 1 .. 2 * WordBytes :
          k - WordBytes \in Nat /\ TraceWords(f, g)[k] = Byte(g, k - WordBytes)
    BY <2>2 DEF TraceWords
  <2> QED
    BY <1>1, <1>3, <2>1, <2>3 DEF IsZero
<1>7. BlankTraceId = TraceWords(0, 0) /\ BlankSpanId = SpanWord(0)
  BY DEF BlankTraceId, BlankSpanId, TraceWords, SpanWord, Byte
<1>8. (c.span_id # BlankSpanId <=> s # 0) /\ (c.trace_id # BlankTraceId <=> f # 0 \/ g # 0)
  BY <1>1, <1>7, NumbersAre
<1> QED
  BY <1>4, <1>5, <1>6, <1>8 DEF SpanIdValid, ContextIsValid, TraceIdValid, s

\* The bytes of a root's trace id are told apart, and are those of no span id.
LEMMA BytesTellApart ==
  ASSUME NEW c \in SpanContexts, NEW b \in SpanContexts,
         LET s == SpanNumber(b.span_id) f == FirstNumber(c.trace_id)
             g == SecondNumber(c.trace_id) IN
         (f # 0 => f # g /\ f # s) /\ (g # 0 => g # s),
         NEW k \in DOMAIN c.trace_id, NEW m \in DOMAIN b.span_id, c.trace_id[k] # Zero
  PROVE  /\ c.trace_id[k] # b.span_id[m]
         /\ \A n \in DOMAIN c.trace_id \ {k} : c.trace_id[n] # c.trace_id[k]
<1> DEFINE s == SpanNumber(b.span_id)  f == FirstNumber(c.trace_id)
           g == SecondNumber(c.trace_id)  W == WordBytes
<1>1. /\ s \in Nat /\ b.span_id = SpanWord(s) /\ (f # 0 => f # g /\ f # s) /\ (g # 0 => g # s)
      /\ f \in Nat /\ g \in Nat /\ c.trace_id = TraceWords(f, g)
  BY ContextIs
<1> HIDE DEF s, f, g
<1>2. W \in Nat /\ W > 0 /\ SpanIdSize = W /\ TraceIdSize = 2 * W
  BY SizesAssumption DEF SizesAssumption
<1> DEFINE wordOf(n) == IF n <= W THEN f ELSE g  at(n) == IF n <= W THEN n ELSE n - W
<1>3. /\ DOMAIN c.trace_id = 1 .. 2 * W /\ DOMAIN b.span_id = 1 .. W
      /\ \A n \in 1 .. 2 * W : c.trace_id[n] = Byte(wordOf(n), at(n))
      /\ \A n \in 1 .. W : b.span_id[n] = Byte(s, n)
  BY <1>1, <1>2 DEF TraceWords, SpanWord
<1> HIDE DEF W
<1>4. \A n \in 1 .. 2 * W : n \in Nat /\ at(n) \in Nat /\ wordOf(n) \in Nat
  BY <1>1, <1>2
<1>5. \A p, q, i, j \in Nat : p # 0 /\ Byte(p, i) = Byte(q, j) => p = q /\ i = j
  BY DEF Byte, Zero
<1>6. wordOf(k) # 0 /\ k \in 1 .. 2 * W /\ m \in 1 .. W /\ m \in Nat
  <2>1. k \in 1 .. 2 * W /\ m \in 1 .. W /\ m \in Nat
    BY <1>2, <1>3
  <2>2. wordOf(k) = 0 => c.trace_id[k] = Zero
    BY <1>3, <2>1 DEF Byte
  <2> QED
    BY <2>1, <2>2
<1>7. wordOf(k) # s
  BY <1>1, <1>6
<1>8. \A n \in 1 .. 2 * W : wordOf(n) = wordOf(k) /\ at(n) = at(k) => n = k
  BY <1>1, <1>2, <1>6
<1> HIDE DEF wordOf, at
<1>9. c.trace_id[k] # b.span_id[m]
  BY <1>1, <1>3, <1>4, <1>5, <1>6, <1>7
<1>10. ASSUME NEW n \in DOMAIN c.trace_id \ {k} PROVE c.trace_id[n] # c.trace_id[k]
  BY <1>3, <1>4, <1>5, <1>6, <1>8
<1> QED
  BY <1>9, <1>10

\* "Ids of their own": no id is given twice, to a span or to a part of a trace; the
\* digits tell ids apart as operator== does; a child is in its parent's trace.
THEOREM IdentitiesHold == IdentifierSpec => []IdentitiesAgree
<1>1. ASSUME IdentifierInv PROVE IdentitiesAgree
  <2>1. ASSUME NEW i \in DOMAIN span_contexts
        PROVE  span_contexts[i].context \in SpanContexts
    <3>1. span_contexts[i] \in ContextRecords
      BY <1>1 DEF IdentifierInv, IdTypeOK
    <3> QED
      BY <3>1 DEF ContextRecords
  <2>2. ASSUME NEW i \in DOMAIN span_contexts, NEW j \in DOMAIN span_contexts
        PROVE  LET a == span_contexts[i].context b == span_contexts[j].context IN
               /\ SameContext(a, b)
                    <=> SubSeq(ContextToString(a), 1, 2) = SubSeq(ContextToString(b), 1, 2)
               /\ i # j /\ span_contexts[i].generated /\ span_contexts[j].generated
                  /\ SpanIdValid(a.span_id)
                    => ~SameContext(a, b)
               /\ span_contexts[i].generated /\ span_contexts[i].parent = 0 =>
                    \A k \in DOMAIN a.trace_id, m \in DOMAIN b.span_id : a.trace_id[k] # Zero =>
                      /\ a.trace_id[k] # b.span_id[m]
                      /\ \A n \in DOMAIN a.trace_id \ {k} : a.trace_id[n] # a.trace_id[k]
    <3> DEFINE a == span_contexts[i].context  b == span_contexts[j].context
    <3>1. a \in SpanContexts /\ b \in SpanContexts
      BY <2>1
    <3>2. SameContext(a, b)
            <=> SubSeq(ContextToString(a), 1, 2) = SubSeq(ContextToString(b), 1, 2)
      BY <3>1, DigitsTellApart
    <3>3. i # j /\ span_contexts[i].generated /\ span_contexts[j].generated
          /\ SpanIdValid(a.span_id) => ~SameContext(a, b)
      BY <1>1, <3>1, ValidIs DEF IdentifierInv, EachWordOnce, Span, SameContext
    <3>4. span_contexts[i].generated /\ span_contexts[i].parent = 0 =>
            LET s == SpanNumber(b.span_id) f == FirstNumber(a.trace_id)
                g == SecondNumber(a.trace_id) IN
            (f # 0 => f # g /\ f # s) /\ (g # 0 => g # s)
      BY <1>1 DEF IdentifierInv, EachWordOnce, Root, Span, First, Second
    <3> HIDE DEF a, b
    <3>5. span_contexts[i].generated /\ span_contexts[i].parent = 0 =>
            \A k \in DOMAIN a.trace_id, m \in DOMAIN b.span_id : a.trace_id[k] # Zero =>
              /\ a.trace_id[k] # b.span_id[m]
              /\ \A n \in DOMAIN a.trace_id \ {k} : a.trace_id[n] # a.trace_id[k]
      BY <3>1, <3>4, BytesTellApart
    <3> QED
      BY <3>2, <3>3, <3>5 DEF a, b
  <2>3. ASSUME NEW i \in DOMAIN span_contexts
        PROVE  LET c == span_contexts[i].context
                   parent == span_contexts[span_contexts[i].parent].context IN
               /\ ContextIsValid(c) <=> c.trace_id # BlankTraceId /\ c.span_id # BlankSpanId
               /\ span_contexts[i].generated /\ span_contexts[i].parent # 0 =>
                    /\ c.trace_id = parent.trace_id
                    /\ c.trace_options \div 2 = parent.trace_options \div 2
                    /\ IsSampled(parent.trace_options) => IsSampled(c.trace_options)
    <3>1. ContextIsValid(span_contexts[i].context)
            <=> span_contexts[i].context.trace_id # BlankTraceId
                /\ span_contexts[i].context.span_id # BlankSpanId
      BY <2>1, ValidIs
    <3> QED
      BY <1>1, <3>1 DEF IdentifierInv, ParentsKept
  <2> QED
    BY <2>2, <2>3, Zenon DEF IdentitiesAgree
<1> QED
  BY <1>1, IdentifierInvAlways, PTL

----------------------------------------------------------------------------
----------------------------------------------------------------------------
\* AttributeValues: any slots and arguments.

ValueTypes == {"string", "bool", "int"}
Held == {ref.value : ref \in Refs} \cup {0}

ObjectsOK ==
  /\ type_ \in [Slots -> ValueTypes \cup {"dead"}]
  /\ word \in [Slots -> Held]
  /\ strings \in [Slots -> Seq(Held)]
  /\ meant \in [Slots -> SUBSET [type : ValueTypes, value : Held]]

\* A slot has one string, or none.
OneString(slot) ==
  IF type_[slot] = "string" THEN \E v \in Held : strings[slot] = <<v>> ELSE strings[slot] = <<>>

\* An object is what it was meant to be.
AsMeant(slot) ==
  Alive(slot) /\ meant[slot] # {} =>
    meant[slot] = {[type |-> type_[slot], value |-> ValueOf(slot)]}

ValuesInv == ObjectsOK /\ \A slot \in Slots : OneString(slot) /\ AsMeant(slot)

\* An AttributeValueRef has one of the types of a value, and what it refers to.
LEMMA RefTypes == \A ref \in Refs : ref \in [type : ValueTypes, value : Held]
<1>1. ASSUME NEW argument \in Arguments
      PROVE  LET ref == AttributeValueRef(argument) IN
             \E type \in ValueTypes : \E v : ref = [type |-> type, value |-> v]
  BY ArgumentsAssumption DEF AttributeValueRef, ValueTypes
<1> QED
  BY <1>1 DEF Refs, Held

\* Sequences with the one string that a slot holds.
LEMMA OneElement ==
  ASSUME NEW v \in Held
  PROVE  /\ <<v>> \o <<>> = <<v>> /\ Tail(<<v>>) = <<>> /\ Head(<<v>>) = v
         /\ <<v>> \in Seq(Held) /\ Len(<<v>>) = 1 /\ <<>> \in Seq(Held)
  OBVIOUS

\* The value of a living object.
LEMMA ValueHeld ==
  ASSUME ValuesInv, NEW slot \in Slots, Alive(slot)
  PROVE  /\ type_[slot] \in ValueTypes /\ ValueOf(slot) \in Held
         /\ type_[slot] = "string" => strings[slot] = <<ValueOf(slot)>>
         /\ type_[slot] # "string" => strings[slot] = <<>>
<1>1. type_[slot] \in ValueTypes /\ word[slot] \in Held
  BY DEF ValuesInv, ObjectsOK, Alive
<1>2. CASE type_[slot] = "string"
  <2>1. PICK v \in Held : strings[slot] = <<v>>
    BY <1>2 DEF ValuesInv, OneString
  <2>2. Head(<<v>>) = v
    BY OneElement
  <2> QED
    BY <1>1, <1>2, <2>1, <2>2 DEF ValueOf
<1>3. CASE type_[slot] # "string"
  BY <1>1, <1>3 DEF ValueOf, ValuesInv, OneString
<1> QED
  BY <1>2, <1>3

\* An object is placed where there is no string: then it is there, as given.
LEMMA PlaceIs ==
  ASSUME ValuesInv, NEW slot \in Slots, NEW type \in ValueTypes, NEW v \in Held,
         NEW from_strings, from_strings \in [Slots -> Seq(Held)], from_strings[slot] = <<>>,
         Place(slot, type, v, from_strings)
  PROVE  /\ type_' \in [Slots -> ValueTypes \cup {"dead"}]
         /\ word' \in [Slots -> Held] /\ strings' \in [Slots -> Seq(Held)]
         /\ Alive(slot)' /\ type_'[slot] = type /\ ValueOf(slot)' = v /\ OneString(slot)'
         /\ \A other \in Slots \ {slot} :
              /\ type_'[other] = type_[other] /\ word'[other] = word[other]
              /\ strings'[other] = from_strings[other]
<1>1. /\ type_' = [type_ EXCEPT ![slot] = type]
      /\ type_ \in [Slots -> ValueTypes \cup {"dead"}] /\ word \in [Slots -> Held]
  BY DEF Place, ValuesInv, ObjectsOK
<1>2. type_'[slot] = type /\ Alive(slot)'
  BY <1>1 DEF Alive, ValueTypes
<1>3. CASE type = "string"
  <2>1. strings' = [from_strings EXCEPT ![slot] = <<v>> \o @] /\ word' = word
    BY <1>3 DEF Place
  <2>2. strings' = [from_strings EXCEPT ![slot] = <<v>>]
    BY <2>1, OneElement
  <2>3. strings' \in [Slots -> Seq(Held)] /\ strings'[slot] = <<v>>
    BY <2>2, OneElement
  <2> QED
    BY <1>1, <1>2, <1>3, <2>1, <2>2, <2>3, OneElement DEF ValueOf, OneString
<1>4. CASE type # "string"
  <2>1. strings' = from_strings /\ word' = [word EXCEPT ![slot] = v]
    BY <1>4 DEF Place
  <2> QED
    BY <1>1, <1>2, <1>4, <2>1 DEF ValueOf, OneString
<1> QED
  BY <1>3, <1>4

\* What is left elsewhere: objects that are as they were, or moved from.
LEMMA Elsewhere ==
  ASSUME ValuesInv, NEW other \in Slots,
         type_'[other] = type_[other], word'[other] = word[other],
         \/ strings'[other] = strings[other] /\ meant'[other] = meant[other]
         \/ /\ type_[other] = "string" /\ meant'[other] = {}
            /\ \E v \in Held : strings'[other] = <<v>>
  PROVE  OneString(other)' /\ AsMeant(other)'
<1>1. OneString(other) /\ AsMeant(other)
  BY DEF ValuesInv
<1> QED
  BY <1>1 DEF OneString, AsMeant, Alive, ValueOf

\* Strings after one is destroyed, and moved from.
LEMMA DestroyedIs ==
  ASSUME ValuesInv, NEW slot \in Slots, Alive(slot)
  PROVE  /\ Destroyed(slot) \in [Slots -> Seq(Held)] /\ Destroyed(slot)[slot] = <<>>
         /\ \A other \in Slots \ {slot} : Destroyed(slot)[other] = strings[other]
<1>1. strings \in [Slots -> Seq(Held)]
  BY DEF ValuesInv, ObjectsOK
<1>2. CASE type_[slot] = "string"
  <2>1. PICK v \in Held : strings[slot] = <<v>>
    BY <1>2 DEF ValuesInv, OneString
  <2>2. Destroyed(slot) = [strings EXCEPT ![slot] = <<>>]
    BY <1>2, <2>1, OneElement DEF Destroyed
  <2> QED
    BY <1>1, <2>1, <2>2, OneElement
<1>3. CASE type_[slot] # "string"
  BY <1>1, <1>3 DEF Destroyed, ValuesInv, OneString
<1> QED
  BY <1>2, <1>3

\* A string that was moved from still has some value, and is still to be destroyed.
LEMMA MovedFromIs ==
  ASSUME ValuesInv, NEW from \in Slots, Alive(from),
         NEW from_strings, from_strings \in [Slots -> Seq(Held)],
         from_strings[from] = strings[from], NEW after \in MovedFrom(from_strings, from)
  PROVE  /\ after \in [Slots -> Seq(Held)]
         /\ \A other \in Slots \ {from} : after[other] = from_strings[other]
         /\ type_[from] = "string" => \E v \in Held : after[from] = <<v>>
         /\ type_[from] # "string" => after[from] = strings[from]
<1>1. CASE type_[from] = "string"
  <2>1. PICK w \in Held : strings[from] = <<w>>
    BY <1>1 DEF ValuesInv, OneString
  <2>2. Head(strings[from]) = w /\ Tail(from_strings[from]) = <<>>
    BY <2>1, OneElement
  <2>3. PICK v \in {w, 0} : after = [from_strings EXCEPT ![from] = <<v>> \o Tail(@)]
    BY <1>1, <2>2 DEF MovedFrom
  <2>4. v \in Held
    BY DEF Held
  <2>5. after = [from_strings EXCEPT ![from] = <<v>>]
    BY <2>2, <2>3, <2>4, OneElement
  <2> QED
    BY <1>1, <2>4, <2>5, OneElement
<1>2. CASE type_[from] # "string"
  BY <1>2 DEF MovedFrom
<1> QED
  BY <1>1, <1>2

\* The object at `to` after an assignment or a constructor.
LEMMA MeantIs ==
  ASSUME ValuesInv, NEW from \in Slots, Alive(from), NEW to \in Slots,
         Alive(to)', type_'[to] = type_[from], ValueOf(to)' = ValueOf(from),
         meant'[to] = meant[from]
  PROVE  AsMeant(to)'
<1>1. AsMeant(from)
  BY DEF ValuesInv
<1> QED
  BY <1>1 DEF AsMeant

\* ValuesInv is an invariant: a slot has one string to destroy just if its type says so,
\* and what it was given is what it holds.
THEOREM ValuesInvHolds == ValuesSpec => []ValuesInv
<1>1. ValuesInit => ValuesInv
  BY DEF ValuesInit, ValuesInv, ObjectsOK, OneString, AsMeant, Alive, Held
<1>2. ValuesInv /\ [ValuesNext]_valueVars => ValuesInv'
  <2> SUFFICES ASSUME ValuesInv, [ValuesNext]_valueVars PROVE ValuesInv'
    OBVIOUS
  <2>0. /\ meant \in [Slots -> SUBSET [type : ValueTypes, value : Held]]
        /\ strings \in [Slots -> Seq(Held)]
        /\ type_ \in [Slots -> ValueTypes \cup {"dead"}] /\ word \in [Slots -> Held]
    BY DEF ValuesInv, ObjectsOK
  <2>1. ASSUME NEW slot \in Slots, NEW ref \in Refs, Construct(slot, ref) PROVE ValuesInv'
    <3>1. ref \in [type : ValueTypes, value : Held]
      BY RefTypes
    <3>2. strings[slot] = <<>>
      BY <2>1 DEF Construct, Alive, ValuesInv, OneString
    <3>3. Place(slot, ref.type, ref.value, strings) /\ meant' = [meant EXCEPT ![slot] = {ref}]
      BY <2>1 DEF Construct
    <3>4. /\ type_' \in [Slots -> ValueTypes \cup {"dead"}]
          /\ word' \in [Slots -> Held] /\ strings' \in [Slots -> Seq(Held)]
          /\ type_'[slot] = ref.type /\ ValueOf(slot)' = ref.value /\ OneString(slot)'
          /\ \A other \in Slots \ {slot} :
               /\ type_'[other] = type_[other] /\ word'[other] = word[other]
               /\ strings'[other] = strings[other]
      BY <2>0, <3>1, <3>2, <3>3, PlaceIs
    <3>5. AsMeant(slot)'
      BY <2>0, <3>1, <3>3, <3>4 DEF AsMeant
    <3>6. \A other \in Slots \ {slot} : OneString(other)' /\ AsMeant(other)'
      BY <2>0, <3>3, <3>4, Elsewhere
    <3>7. meant' \in [Slots -> SUBSET [type : ValueTypes, value : Held]]
      BY <2>0, <3>1, <3>3
    <3> QED
      BY <3>4, <3>5, <3>6, <3>7 DEF ValuesInv, ObjectsOK
  <2>2. ASSUME NEW to \in Slots, NEW from \in Slots, to # from, Alive(from),
               NEW from_strings \in [Slots -> Seq(Held)], from_strings[to] = <<>>,
               \A other \in Slots \ {to} : from_strings[other] = strings[other],
               Place(to, type_[from], ValueOf(from), from_strings),
               meant' = [meant EXCEPT ![to] = meant[from]]
        PROVE  ValuesInv'
    <3>1. type_[from] \in ValueTypes /\ ValueOf(from) \in Held
      BY <2>2, ValueHeld
    <3>2. /\ type_' \in [Slots -> ValueTypes \cup {"dead"}]
          /\ word' \in [Slots -> Held] /\ strings' \in [Slots -> Seq(Held)]
          /\ Alive(to)' /\ type_'[to] = type_[from] /\ ValueOf(to)' = ValueOf(from)
          /\ OneString(to)'
          /\ \A other \in Slots \ {to} :
               /\ type_'[other] = type_[other] /\ word'[other] = word[other]
               /\ strings'[other] = from_strings[other]
      BY <2>2, <3>1, PlaceIs
    <3>3. AsMeant(to)'
      BY <2>0, <2>2, <3>2, MeantIs
    <3>4. \A other \in Slots \ {to} : OneString(other)' /\ AsMeant(other)'
      BY <2>0, <2>2, <3>2, Elsewhere
    <3>5. meant' \in [Slots -> SUBSET [type : ValueTypes, value : Held]]
      BY <2>0, <2>2
    <3> QED
      BY <3>2, <3>3, <3>4, <3>5 DEF ValuesInv, ObjectsOK
  <2>3. ASSUME NEW to \in Slots, NEW from \in Slots, to # from, Alive(from),
               NEW from_strings \in [Slots -> Seq(Held)], from_strings[to] = <<>>,
               \A other \in Slots \ {to} : from_strings[other] = strings[other],
               NEW after \in MovedFrom(from_strings, from),
               Place(to, type_[from], ValueOf(from), after),
               meant' = [meant EXCEPT ![to] = meant[from], ![from] = MovedMeaning(from)]
        PROVE  ValuesInv'
    <3>1. type_[from] \in ValueTypes /\ ValueOf(from) \in Held
      BY <2>3, ValueHeld
    <3>2. /\ after \in [Slots -> Seq(Held)]
          /\ \A other \in Slots \ {from} : after[other] = from_strings[other]
          /\ type_[from] = "string" => \E v \in Held : after[from] = <<v>>
          /\ type_[from] # "string" => after[from] = strings[from]
      BY <2>3, MovedFromIs
    <3>3. /\ type_' \in [Slots -> ValueTypes \cup {"dead"}]
          /\ word' \in [Slots -> Held] /\ strings' \in [Slots -> Seq(Held)]
          /\ Alive(to)' /\ type_'[to] = type_[from] /\ ValueOf(to)' = ValueOf(from)
          /\ OneString(to)'
          /\ \A other \in Slots \ {to} :
               /\ type_'[other] = type_[other] /\ word'[other] = word[other]
               /\ strings'[other] = after[other]
      BY <2>3, <3>1, <3>2, PlaceIs
    <3>4. /\ meant'[to] = meant[from] /\ meant'[from] = MovedMeaning(from)
          /\ \A other \in Slots \ {to, from} : meant'[other] = meant[other]
      BY <2>0, <2>3
    <3>5. AsMeant(to)'
      BY <2>3, <3>3, <3>4, MeantIs
    <3>6. OneString(from)' /\ AsMeant(from)'
      BY <2>3, <3>2, <3>3, <3>4, Elsewhere DEF MovedMeaning
    <3>7. \A other \in Slots \ {to, from} : OneString(other)' /\ AsMeant(other)'
      <4> SUFFICES ASSUME NEW other \in Slots \ {to, from} PROVE OneString(other)' /\ AsMeant(other)'
        OBVIOUS
      <4>1. strings'[other] = strings[other]
        BY <2>3, <3>2, <3>3
      <4>2. meant'[other] = meant[other] /\ type_'[other] = type_[other] /\ word'[other] = word[other]
        BY <3>3, <3>4
      <4> QED
        BY <4>1, <4>2, Elsewhere
    <3>8. meant' \in [Slots -> SUBSET [type : ValueTypes, value : Held]]
      BY <2>0, <2>3 DEF MovedMeaning
    <3> QED
      BY <3>3, <3>5, <3>6, <3>7, <3>8 DEF ValuesInv, ObjectsOK
  <2>4. ASSUME NEW to \in Slots, ~Alive(to) PROVE strings[to] = <<>>
    BY <2>4 DEF Alive, ValuesInv, OneString
  <2>5. ASSUME NEW to \in Slots, NEW from \in Slots, CopyConstruct(to, from) PROVE ValuesInv'
    <3>1. to # from /\ Alive(from) /\ strings[to] = <<>>
      BY <2>4, <2>5 DEF CopyConstruct
    <3> QED
      BY <2>0, <2>2, <2>5, <3>1 DEF CopyConstruct
  <2>6. ASSUME NEW to \in Slots, NEW from \in Slots, MoveConstruct(to, from) PROVE ValuesInv'
    <3>1. to # from /\ Alive(from) /\ strings[to] = <<>>
      BY <2>4, <2>6 DEF MoveConstruct
    <3> QED
      BY <2>0, <2>3, <2>6, <3>1 DEF MoveConstruct
  <2>7. ASSUME NEW to \in Slots, NEW from \in Slots, CopyAssign(to, from) PROVE ValuesInv'
    <3>1. /\ Destroyed(to) \in [Slots -> Seq(Held)] /\ Destroyed(to)[to] = <<>>
          /\ \A other \in Slots \ {to} : Destroyed(to)[other] = strings[other]
      BY <2>7, DestroyedIs DEF CopyAssign
    <3> QED
      BY <2>2, <2>7, <3>1 DEF CopyAssign
  <2>8. ASSUME NEW to \in Slots, NEW from \in Slots, MoveAssign(to, from) PROVE ValuesInv'
    <3>1. /\ Destroyed(to) \in [Slots -> Seq(Held)] /\ Destroyed(to)[to] = <<>>
          /\ \A other \in Slots \ {to} : Destroyed(to)[other] = strings[other]
      BY <2>8, DestroyedIs DEF MoveAssign
    <3> QED
      BY <2>3, <2>8, <3>1 DEF MoveAssign
  <2>9. ASSUME NEW slot \in Slots, Destroy(slot) PROVE ValuesInv'
    <3>1. /\ strings' \in [Slots -> Seq(Held)] /\ strings'[slot] = <<>>
          /\ \A other \in Slots \ {slot} : strings'[other] = strings[other]
      BY <2>9, DestroyedIs DEF Destroy
    <3>2. type_' = [type_ EXCEPT ![slot] = "dead"] /\ word' = word /\ meant' = meant
      BY <2>9 DEF Destroy
    <3>3. \A other \in Slots \ {slot} : OneString(other)' /\ AsMeant(other)'
      BY <2>0, <3>1, <3>2, Elsewhere
    <3>4. OneString(slot)' /\ AsMeant(slot)'
      BY <2>0, <3>1, <3>2 DEF OneString, AsMeant, Alive
    <3> QED
      BY <2>0, <3>1, <3>2, <3>3, <3>4 DEF ValuesInv, ObjectsOK
  <2>10. CASE UNCHANGED valueVars
    BY <2>10 DEF valueVars, ValuesInv, ObjectsOK, OneString, AsMeant, Alive, ValueOf
  <2> QED
    BY <2>1, <2>5, <2>6, <2>7, <2>8, <2>9, <2>10 DEF ValuesNext
<1> QED
  BY <1>1, <1>2, PTL DEF ValuesSpec

\* A value is what it was given after any constructions, copies, moves and assignments;
\* none leaks a string or destroys one twice.
THEOREM ValuesAreKept == ValuesSpec => []ValuesKept
<1>1. ValuesInv => ValuesKept
  <2> SUFFICES ASSUME ValuesInv PROVE ValuesKept
    OBVIOUS
  <2>1. \A slot \in Slots : Len(strings[slot]) = IF type_[slot] = "string" THEN 1 ELSE 0
    <3> SUFFICES ASSUME NEW slot \in Slots
                 PROVE  Len(strings[slot]) = IF type_[slot] = "string" THEN 1 ELSE 0
      OBVIOUS
    <3>1. OneString(slot)
      BY DEF ValuesInv
    <3>2. \A v \in Held : Len(<<v>>) = 1
      BY OneElement
    <3>3. Len(<<>>) = 0
      OBVIOUS
    <3> QED
      BY <3>1, <3>2, <3>3 DEF OneString
  <2>2. \A slot \in {s \in Slots : Alive(s) /\ meant[s] # {}} :
          meant[slot] = {[type |-> type_[slot], value |-> ValueOf(slot)]}
    BY DEF ValuesInv, AsMeant
  <2>3. \A slot, other \in {s \in Slots : Alive(s) /\ meant[s] # {}} :
          Equal(slot, other) <=>
            \E ref \in meant[slot], v \in meant[other] : RefsEqual(ref, v)
    BY <2>2 DEF Equal, RefsEqual
  <2> QED
    BY <2>1, <2>2, <2>3 DEF ValuesKept
<1> QED
  BY <1>1, ValuesInvHolds, PTL

----------------------------------------------------------------------------
----------------------------------------------------------------------------
\* LocalSpanStore: any number of spans, of any latencies.

SpanAdded(span, summary) == AddToSummary(summary, span)
SpanVisited(next, loop) == Visit(loop, next)
Summing == INSTANCE FoldUnfolds WITH op <- SpanAdded, choose <- Max
Visiting == INSTANCE FoldUnfolds WITH op <- SpanVisited, choose <- Max

\* The n-th span from the front is the n-th that was added last.
StoreInv ==
  /\ stored \in Seq(SpanData) /\ spans_ \in Seq(SpanData)
  /\ Len(spans_) = IF Len(stored) < kMaxSpans THEN Len(stored) ELSE kMaxSpans
  /\ \A i \in 1 .. Len(spans_) : spans_[i] = stored[Len(stored) - i + 1]

\* The store is empty at the start.
LEMMA StoreInvStarts ==
  ASSUME StoreInit PROVE StoreInv
<1>1. /\ Len(<<>>) = 0 /\ <<>> \in Seq(SpanData) /\ kMaxSpans > 0 /\ kMaxSpans \in Nat
  BY StoreAssumption DEF StoreAssumption
<1> QED
  BY <1>1 DEF StoreInit, StoreInv

\* The spans that are kept when room is made move back by one place.
LEMMA PushedInFront ==
  ASSUME spans_ \in Seq(SpanData), NEW data \in SpanData,
         Len(spans_) <= kMaxSpans
  PROVE  LET after == Push(spans_, data) IN
         /\ after \in Seq(SpanData)
         /\ Len(after) = IF Len(spans_) < kMaxSpans THEN Len(spans_) + 1 ELSE kMaxSpans
         /\ after[1] = data
         /\ \A i \in 2 .. Len(after) : i - 1 \in 1 .. Len(spans_) /\ after[i] = spans_[i - 1]
<1> DEFINE kept == IF Len(spans_) >= kMaxSpans THEN Front(spans_) ELSE spans_
<1>1. kMaxSpans \in Nat /\ kMaxSpans > 0 /\ Len(spans_) \in Nat
  BY StoreAssumption DEF StoreAssumption
<1>2. /\ kept \in Seq(SpanData)
      /\ Len(kept) = IF Len(spans_) < kMaxSpans THEN Len(spans_) ELSE kMaxSpans - 1
      /\ \A i \in 1 .. Len(kept) : i \in 1 .. Len(spans_) /\ kept[i] = spans_[i]
  <2>1. CASE Len(spans_) < kMaxSpans
    <3>1. kept = spans_
      BY <1>1, <2>1
    <3> QED
      BY <1>1, <2>1, <3>1
  <2>2. CASE Len(spans_) >= kMaxSpans
    <3>1. kept = SubSeq(spans_, 1, Len(spans_) - 1) /\ Len(spans_) = kMaxSpans
      BY <1>1, <2>2 DEF Front
    <3> HIDE DEF kept
    <3>2. /\ kept \in Seq(SpanData) /\ Len(kept) = Len(spans_) - 1
          /\ \A i \in 1 .. Len(spans_) - 1 : kept[i] = spans_[i]
      BY <1>1, <3>1
    <3> QED
      BY <1>1, <3>1, <3>2
  <2> QED
    BY <1>1, <2>1, <2>2
<1>3. Push(spans_, data) = <<data>> \o kept
  BY DEF Push
<1> HIDE DEF kept
<1>4. /\ <<data>> \o kept \in Seq(SpanData) /\ Len(<<data>> \o kept) = Len(kept) + 1
      /\ (<<data>> \o kept)[1] = data
      /\ \A i \in 2 .. Len(kept) + 1 : (<<data>> \o kept)[i] = kept[i - 1]
  BY <1>2
<1> QED
  BY <1>1, <1>2, <1>3, <1>4

\* AddSpan makes room and puts the new span in front; ClearForTesting empties the store.
LEMMA StoreInvStep ==
  ASSUME StoreInv, StoreNext PROVE StoreInv'
<1>1. ASSUME NEW data \in SpanData, AddSpan(data) PROVE StoreInv'
  <2>1. kMaxSpans \in Nat /\ kMaxSpans > 0 /\ Len(spans_) <= kMaxSpans
    BY StoreAssumption DEF StoreAssumption, StoreInv
  <2>2. /\ spans_' \in Seq(SpanData)
        /\ Len(spans_') = IF Len(spans_) < kMaxSpans THEN Len(spans_) + 1 ELSE kMaxSpans
        /\ spans_'[1] = data
        /\ \A i \in 2 .. Len(spans_') : i - 1 \in 1 .. Len(spans_) /\ spans_'[i] = spans_[i - 1]
    BY <1>1, <2>1, PushedInFront DEF AddSpan, StoreInv
  <2>3. /\ stored' \in Seq(SpanData) /\ Len(stored') = Len(stored) + 1
        /\ stored'[Len(stored) + 1] = data
        /\ \A j \in 1 .. Len(stored) : stored'[j] = stored[j]
    BY <1>1 DEF AddSpan, StoreInv
  <2>4. Len(spans_') = IF Len(stored') < kMaxSpans THEN Len(stored') ELSE kMaxSpans
    BY <2>1, <2>2, <2>3 DEF StoreInv
  <2>5. ASSUME NEW i \in 1 .. Len(spans_')
        PROVE  spans_'[i] = stored'[Len(stored') - i + 1]
    <3>1. CASE i = 1
      BY <2>2, <2>3, <3>1 DEF StoreInv
    <3>2. CASE i # 1
      <4>1. i \in 2 .. Len(spans_') /\ i - 1 \in 1 .. Len(spans_)
        BY <2>2, <3>2
      <4>2. spans_'[i] = stored[Len(stored) - (i - 1) + 1]
        BY <2>2, <4>1 DEF StoreInv
      <4>3. Len(spans_) <= Len(stored) /\ Len(stored) \in Nat /\ Len(spans_) \in Nat
        BY <2>1 DEF StoreInv
      <4>4. /\ Len(stored) - (i - 1) + 1 \in 1 .. Len(stored)
            /\ Len(stored) - (i - 1) + 1 = Len(stored') - i + 1
        BY <2>3, <4>1, <4>3
      <4> QED
        BY <2>3, <4>2, <4>4
    <3> QED
      BY <3>1, <3>2
  <2> QED
    BY <2>2, <2>3, <2>4, <2>5 DEF StoreInv
<1>2. CASE \E name \in Names, code \in Codes, latency \in Latencies :
             AddSpan([id |-> Len(stored) + 1, name |-> name, code |-> code,
                      latency |-> latency])
  <2>1. PICK name \in Names, code \in Codes, latency \in Latencies :
          AddSpan([id |-> Len(stored) + 1, name |-> name, code |-> code, latency |-> latency])
    BY <1>2
  <2>2. Len(stored) + 1 \in Nat
    BY DEF StoreInv
  <2>3. [id |-> Len(stored) + 1, name |-> name, code |-> code, latency |-> latency] \in SpanData
    BY <2>2 DEF SpanData
  <2> QED
    BY <1>1, <2>1, <2>3
<1>3. CASE ClearForTesting
  <2>1. StoreInit'
    BY <1>3 DEF ClearForTesting, StoreInit
  <2> QED
    <3>1. /\ Len(<<>>) = 0 /\ <<>> \in Seq(SpanData) /\ kMaxSpans > 0 /\ kMaxSpans \in Nat
      BY StoreAssumption DEF StoreAssumption
    <3> QED
      BY <2>1, <3>1 DEF StoreInit, StoreInv
<1> QED
  BY <1>2, <1>3 DEF StoreNext

\* StoreInv is an invariant: the store has the last of the spans added, newest first.
LEMMA StoreInvAlways ==
  StoreSpec => []StoreInv
<1>1. StoreInv /\ UNCHANGED storeVars => StoreInv'
  BY DEF StoreInv, storeVars
<1> QED
  BY <1>1, StoreInvStarts, StoreInvStep, PTL DEF StoreSpec

\* The store has the newest kMaxSpans spans, or all of them.
LEMMA NewestAreKept ==
  ASSUME StoreInv PROVE NewestKept
<1> DEFINE n == Len(stored)  k == Len(spans_)  last == SubSeq(stored, n - k + 1, n)
<1>1. n \in Nat /\ k \in Nat /\ k <= n
  BY StoreAssumption DEF StoreInv, StoreAssumption
<1>2. Len(last) = k /\ \A i \in 1 .. k : last[i] = stored[n - k + i]
  <2>1. n - k + 1 \in Int /\ \A i \in n - k + 1 .. n : stored[i] \in SpanData
    BY <1>1 DEF StoreInv
  <2>2. /\ Len(last) = IF n - k + 1 <= n THEN n - (n - k + 1) + 1 ELSE 0
        /\ \A i \in 1 .. n - (n - k + 1) + 1 : last[i] = stored[(n - k + 1) + i - 1]
    BY <1>1, <2>1, SubSeqProperties
  <2>3. \A i \in 1 .. k : i \in 1 .. n - (n - k + 1) + 1 /\ (n - k + 1) + i - 1 = n - k + i
    BY <1>1
  <2> HIDE DEF last
  <2> QED
    BY <1>1, <2>2, <2>3
<1>3. Reverse(last) = [i \in 1 .. k |-> last[k - i + 1]]
  BY <1>2 DEF Reverse
<1>4. \A i \in 1 .. k : last[k - i + 1] = stored[n - i + 1]
  <2> SUFFICES ASSUME NEW i \in 1 .. k PROVE last[k - i + 1] = stored[n - i + 1]
    OBVIOUS
  <2>1. k - i + 1 \in 1 .. k /\ n - k + (k - i + 1) = n - i + 1
    BY <1>1
  <2> QED
    BY <1>2, <2>1
<1>5. spans_ = [i \in 1 .. k |-> spans_[i]]
  BY DEF StoreInv
<1> HIDE DEF last
<1>6. spans_ = [i \in 1 .. k |-> last[k - i + 1]]
  BY <1>4, <1>5 DEF StoreInv
<1> QED
  BY <1>3, <1>6 DEF NewestKept, GetSpans, StoreInv, last

----------------------------------------------------------------------------
\* The summary.

\* How often each value of B occurs at the positions I.
Tally(B, I) == [b \in {B[i] : i \in I} |-> Cardinality({i \in I : B[i] = b})]

\* No position is counted in an empty map.
LEMMA NothingTallied == \A B : Tally(B, {}) = EmptyMap
  BY DEF Tally, EmptyMap

\* MapIncrement counts one position more.
LEMMA TallyIncremented ==
  ASSUME NEW B, NEW I, IsFiniteSet(I), NEW j, j \notin I
  PROVE  Increment(Tally(B, I), B[j]) = Tally(B, I \cup {j})
<1> DEFINE J == I \cup {j}  dom == {B[i] : i \in I}  at(b, K) == {i \in K : B[i] = b}
<1>1. {B[i] : i \in J} = dom \cup {B[j]}
  OBVIOUS
<1>2. IsFiniteSet(at(B[j], I)) /\ j \notin at(B[j], I)
  BY FS_Subset
<1>3. at(B[j], J) = at(B[j], I) \cup {j}
  OBVIOUS
<1>4. Cardinality(at(B[j], J)) = Cardinality(at(B[j], I)) + 1
  <2> HIDE DEF at
  <2> QED
    BY <1>2, <1>3, FS_AddElement
<1>5. B[j] \notin dom => Cardinality(at(B[j], J)) = 1
  <2>1. ASSUME B[j] \notin dom PROVE at(B[j], I) = {}
    BY <2>1
  <2> HIDE DEF at, dom
  <2> QED
    BY <1>4, <2>1, FS_EmptySet
<1>6. \A b : b # B[j] => at(b, J) = at(b, I)
  OBVIOUS
<1>7. Tally(B, I) = [b \in dom |-> Cardinality(at(b, I))]
  BY DEF Tally
<1>8. Tally(B, J) = [b \in dom \cup {B[j]} |-> Cardinality(at(b, J))]
  BY <1>1 DEF Tally
<1> HIDE DEF at, dom
<1>9. Increment(Tally(B, I), B[j]) =
        [b \in dom \cup {B[j]} |->
           IF b = B[j] THEN (IF b \in dom THEN Cardinality(at(b, I)) + 1 ELSE 1)
           ELSE Cardinality(at(b, I))]
  BY <1>7 DEF Increment
<1> QED
  BY <1>4, <1>5, <1>6, <1>8, <1>9 DEF J

\* The ends up to a number are the first ones, if they are in order.
LEMMA EndsBelow ==
  ASSUME NEW ends, \A j \in 1 .. 8 : ends[j] \in Int,
         \A i, j \in 1 .. 8 : i <= j => ends[i] <= ends[j],
         NEW latency \in Int, NEW k \in 1 .. 9,
         k > 1 => ends[k - 1] <= latency, k <= 8 => latency < ends[k]
  PROVE  {j \in 1 .. 8 : ends[j] <= latency} = 1 .. k - 1
<1>1. ASSUME NEW j \in 1 .. 8, j <= k - 1 PROVE ends[j] <= latency
  <2>1. k - 1 \in 1 .. 8 /\ k > 1
    BY <1>1
  <2>2. ends[j] <= ends[k - 1] /\ ends[k - 1] <= latency
    BY <1>1, <2>1
  <2>3. ends[j] \in Int /\ ends[k - 1] \in Int
    BY <2>1
  <2> QED
    BY <2>2, <2>3
<1>2. ASSUME NEW j \in 1 .. 8, ends[j] <= latency PROVE j <= k - 1
  <2> SUFFICES ASSUME k <= j PROVE FALSE
    OBVIOUS
  <2>1. k \in 1 .. 8
    OBVIOUS
  <2>2. ends[k] <= ends[j] /\ latency < ends[k]
    BY <2>1
  <2>3. ends[j] \in Int /\ ends[k] \in Int
    BY <2>1
  <2> QED
    BY <1>2, <2>2, <2>3
<1> QED
  BY <1>1, <1>2

\* The bucket of a latency is the one that it is in.
LEMMA BucketIs ==
  ASSUME NEW latency \in Int, NEW i \in 1 .. Len(BucketEnds) + 1
  PROVE  GetLatencyBucketBoundary(latency) = i <=> InBucket(latency, i)
<1>1. Len(BucketEnds) = 8 /\ DOMAIN BucketEnds = 1 .. 8
  BY DEF BucketEnds
<1>2. /\ \A j \in 1 .. 8 : BucketEnds[j] \in Int
      /\ \A j, k \in 1 .. 8 : j <= k => BucketEnds[j] <= BucketEnds[k]
  BY DEF BucketEnds
<1>3. ASSUME NEW k \in 1 .. 9, InBucket(latency, k)
      PROVE  GetLatencyBucketBoundary(latency) = k
  <2>1. /\ k > 1 => BucketEnds[k - 1] <= latency
        /\ k <= 8 => latency < BucketEnds[k]
    BY <1>1, <1>3 DEF InBucket
  <2>2. {j \in 1 .. 8 : BucketEnds[j] <= latency} = 1 .. k - 1
    BY <1>2, <2>1, EndsBelow
  <2>3. Cardinality(1 .. k - 1) = k - 1
    BY FS_Interval
  <2>4. (k - 1) + 1 = k
    OBVIOUS
  <2> QED
    BY <1>1, <2>2, <2>3, <2>4, Zenon DEF GetLatencyBucketBoundary
<1>4. \E k \in 1 .. 9 : InBucket(latency, k)
  BY DEF InBucket, BucketEnds
<1> QED
  BY <1>1, <1>3, <1>4

buckets == [i \in DOMAIN spans_ |-> GetLatencyBucketBoundary(spans_[i].latency)]
codes == [i \in DOMAIN spans_ |-> spans_[i].code]
Named(name, n) == {i \in 1 .. n : spans_[i].name = name}

\* The summary of the first n spans.
SummaryOf(n) ==
  [name \in {spans_[i].name : i \in 1 .. n} |->
     [latency |-> Tally(buckets, Named(name, n)), error |-> Tally(codes, Named(name, n))]]

\* The loop of GetSummary adds one span to the summary of those before it.
LEMMA SummaryGrows ==
  ASSUME NEW n \in Nat, n + 1 \in DOMAIN spans_
  PROVE  SummaryOf(n + 1) = AddToSummary(SummaryOf(n), spans_[n + 1])
<1> DEFINE span == spans_[n + 1]  older == {spans_[i].name : i \in 1 .. n}
           entry(name, k) == [latency |-> Tally(buckets, Named(name, k)),
                              error |-> Tally(codes, Named(name, k))]
           curr == GetPerSpanNameSummary(span.name, SummaryOf(n))
<1>1. {spans_[i].name : i \in 1 .. n + 1} = older \cup {span.name}
  OBVIOUS
<1>2. \A name : name # span.name => Named(name, n + 1) = Named(name, n)
  BY DEF Named
<1>3. /\ Named(span.name, n + 1) = Named(span.name, n) \cup {n + 1}
      /\ IsFiniteSet(Named(span.name, n)) /\ n + 1 \notin Named(span.name, n)
  <2>1. IsFiniteSet(1 .. n)
    BY FS_Interval
  <2>2. IsFiniteSet(Named(span.name, n))
    BY <2>1, FS_Subset DEF Named
  <2> QED
    BY <2>2 DEF Named
<1>4. buckets[n + 1] = GetLatencyBucketBoundary(span.latency) /\ codes[n + 1] = span.code
  BY DEF buckets, codes
<1>5. curr = entry(span.name, n)
  <2>1. CASE span.name \in older
    BY <2>1 DEF GetPerSpanNameSummary, SummaryOf
  <2>2. CASE span.name \notin older
    <3>1. Named(span.name, n) = {}
      BY <2>2 DEF Named
    <3> QED
      BY <2>2, <3>1, NothingTallied DEF GetPerSpanNameSummary, SummaryOf
  <2> QED
    BY <2>1, <2>2
<1>6. /\ curr.latency = Tally(buckets, Named(span.name, n))
      /\ curr.error = Tally(codes, Named(span.name, n))
  BY <1>5
<1> HIDE DEF curr
<1>7. /\ Increment(curr.latency, GetLatencyBucketBoundary(span.latency))
           = Tally(buckets, Named(span.name, n + 1))
      /\ Increment(curr.error, span.code) = Tally(codes, Named(span.name, n + 1))
  BY <1>3, <1>4, <1>6, TallyIncremented
<1>8. AddToSummary(SummaryOf(n), span) =
        [name \in DOMAIN SummaryOf(n) \cup {span.name} |->
           IF name = span.name THEN entry(name, n + 1) ELSE SummaryOf(n)[name]]
  BY <1>7 DEF AddToSummary, curr
<1>9. DOMAIN SummaryOf(n) = older /\ \A name \in older : SummaryOf(n)[name] = entry(name, n)
  BY DEF SummaryOf
<1>10. SummaryOf(n + 1) = [name \in older \cup {span.name} |-> entry(name, n + 1)]
  BY <1>1 DEF SummaryOf
<1>11. \A name \in older : name # span.name => entry(name, n + 1) = entry(name, n)
  BY <1>2
<1> HIDE DEF entry, older
<1> QED
  BY <1>8, <1>9, <1>10, <1>11

\* The greatest of the first n positions, which the folds visit one by one.
LEMMA PrefixesAreVisited ==
  ASSUME NEW n \in Nat
  PROVE  /\ \A k \in 1 .. n : Max(1 .. k) = k
         /\ \A s \in SUBSET (1 .. n) : s # {} => Max(s) \in s
<1>1. \A k \in 1 .. n : Max(1 .. k) = k
  BY DEF Max
<1>2. ASSUME NEW s \in SUBSET (1 .. n), s # {} PROVE Max(s) \in s
  <2>1. s \in SUBSET (0 .. n)
    OBVIOUS
  <2>2. \E x \in s : \A y \in s : x >= y
    BY <1>2, <2>1, Summing!GreatestNumber
  <2> QED
    BY <2>2 DEF Max
<1> QED
  BY <1>1, <1>2

\* The summary is made span by span.
LEMMA SummaryIs ==
  ASSUME spans_ \in Seq(SpanData)
  PROVE  GetSummary = SummaryOf(Len(spans_))
<1> DEFINE n == Len(spans_)  sum(k) == Summing!Fold(spans_, EmptyMap, 1 .. k)
           Good == {k \in 0 .. n : sum(k) = SummaryOf(k)}
<1>1. n \in Nat /\ DOMAIN spans_ = 1 .. n
  OBVIOUS
<1>2. ASSUME NEW k \in 0 .. n
      PROVE  sum(0) = EmptyMap /\ (k > 0 => sum(k) = SpanAdded(spans_[k], sum(k - 1)))
  <2>1. k \in Nat
    BY <1>1
  <2>2. /\ \A j \in 1 .. k : Max(1 .. j) = j
        /\ Summing!Chooses(1 .. k)
    BY <2>1, PrefixesAreVisited DEF Summing!Chooses
  <2> QED
    BY <2>1, <2>2, Summing!FoldUpTo
<1>3. 0 \in Good
  <2>1. 0 \in 0 .. n /\ 1 .. 0 = {}
    BY <1>1
  <2>2. SummaryOf(0) = EmptyMap
    BY <2>1 DEF SummaryOf, EmptyMap
  <2> QED
    BY <1>2, <2>1, <2>2
<1>4. ASSUME NEW k \in Good, k < n PROVE k + 1 \in Good
  <2>1. k \in Nat /\ k + 1 \in 0 .. n /\ k + 1 > 0 /\ (k + 1) - 1 = k /\ k + 1 \in DOMAIN spans_
    BY <1>1, <1>4
  <2>2. sum(k + 1) = SpanAdded(spans_[k + 1], sum(k))
    BY <1>2, <2>1
  <2>3. SpanAdded(spans_[k + 1], SummaryOf(k)) = SummaryOf(k + 1)
    BY <2>1, SummaryGrows DEF SpanAdded
  <2> QED
    BY <2>1, <2>2, <2>3
<1>5. n \in Good
  <2>1. Good \in SUBSET (0 .. n)
    OBVIOUS
  <2> HIDE DEF Good, n
  <2> QED
    BY <1>1, <1>3, <1>4, <2>1, Summing!InductionUpTo
<1>6. GetSummary = sum(n)
  BY <1>1 DEF GetSummary, FoldLeft, MapThenFoldSet, Summing!Fold, Summing!MapThenFoldSet, SpanAdded
<1> QED
  BY <1>5, <1>6

\* A tally has a key for what was counted at least once, with the number of times.
LEMMA TallyAt ==
  ASSUME NEW B, NEW I, IsFiniteSet(I), NEW b
  PROVE  /\ (IF b \in DOMAIN Tally(B, I) THEN Tally(B, I)[b] ELSE 0)
              = Cardinality({i \in I : B[i] = b})
         /\ b \in DOMAIN Tally(B, I) => Tally(B, I)[b] > 0
<1> DEFINE at == {i \in I : B[i] = b}
<1>1. IsFiniteSet(at)
  BY FS_Subset
<1>2. DOMAIN Tally(B, I) = {B[i] : i \in I}
  BY DEF Tally
<1>3. b \in DOMAIN Tally(B, I) => Tally(B, I)[b] = Cardinality(at) /\ at # {}
  BY <1>2 DEF Tally
<1>4. b \notin DOMAIN Tally(B, I) => at = {}
  BY <1>2
<1>5. /\ Cardinality(at) \in Nat /\ (Cardinality(at) = 0 <=> at = {})
  <2> HIDE DEF at
  <2> QED
    BY <1>1, FS_CardinalityType, FS_EmptySet
<1> HIDE DEF at
<1>6. b \in DOMAIN Tally(B, I) => Tally(B, I)[b] > 0
  BY <1>3, <1>5
<1> QED
  BY <1>3, <1>4, <1>5, <1>6 DEF at

\* GetSummary counts each span once by its latency and once by its code.
LEMMA SummaryIsRight ==
  ASSUME StoreInv PROVE SummaryCounts
<1> DEFINE n == Len(spans_)
<1>1. DOMAIN spans_ = 1 .. n /\ n \in Nat
  BY DEF StoreInv
<1>2. GetSummary = SummaryOf(n)
  BY SummaryIs DEF StoreInv
<1>3. DOMAIN GetSummary = {spans_[i].name : i \in DOMAIN spans_}
  BY <1>1, <1>2 DEF SummaryOf
<1>4. ASSUME NEW name \in DOMAIN GetSummary
      PROVE  /\ GetSummary[name].latency = Tally(buckets, Named(name, n))
             /\ GetSummary[name].error = Tally(codes, Named(name, n))
             /\ IsFiniteSet(Named(name, n))
  <2>1. /\ GetSummary[name].latency = Tally(buckets, Named(name, n))
        /\ GetSummary[name].error = Tally(codes, Named(name, n))
    BY <1>2 DEF SummaryOf
  <2>2. IsFiniteSet(1 .. n)
    BY <1>1, FS_Interval
  <2>3. IsFiniteSet(Named(name, n))
    BY <2>2, FS_Subset DEF Named
  <2> QED
    BY <2>1, <2>3
<1>5. ASSUME NEW name, NEW i \in 1 .. Len(BucketEnds) + 1
      PROVE  {k \in Named(name, n) : buckets[k] = i}
               = {k \in DOMAIN spans_ : spans_[k].name = name /\ InBucket(spans_[k].latency, i)}
  <2>1. \A k \in DOMAIN spans_ : spans_[k].latency \in Int
    <3>1. \A k \in DOMAIN spans_ : spans_[k] \in SpanData
      BY DEF StoreInv
    <3>2. \A span \in SpanData : span.latency \in Int
      BY StoreAssumption DEF SpanData, StoreAssumption
    <3> QED
      BY <3>1, <3>2
  <2>2. \A k \in DOMAIN spans_ : buckets[k] = i <=> InBucket(spans_[k].latency, i)
    BY <2>1, BucketIs DEF buckets
  <2> QED
    BY <1>1, <2>2 DEF Named
<1>6. ASSUME NEW name, NEW code
      PROVE  {k \in Named(name, n) : codes[k] = code}
               = {k \in DOMAIN spans_ : spans_[k].name = name /\ spans_[k].code = code}
  BY <1>1 DEF Named, codes
<1>7. ASSUME NEW name \in DOMAIN GetSummary
      PROVE  /\ \A i \in 1 .. Len(BucketEnds) + 1 :
                  (IF i \in DOMAIN GetSummary[name].latency THEN GetSummary[name].latency[i] ELSE 0)
                    = Count(LAMBDA span : span.name = name /\ InBucket(span.latency, i))
             /\ \A k \in DOMAIN GetSummary[name].latency : GetSummary[name].latency[k] > 0
  <2> DEFINE I == Named(name, n)  map == GetSummary[name].latency
  <2>1. map = Tally(buckets, I) /\ IsFiniteSet(I)
    BY <1>4
  <2>2. ASSUME NEW k
        PROVE  /\ (IF k \in DOMAIN map THEN map[k] ELSE 0)
                    = Cardinality({j \in I : buckets[j] = k})
               /\ k \in DOMAIN map => map[k] > 0
    <3> HIDE DEF map, I
    <3> QED
      BY <2>1, TallyAt
  <2>3. \A i \in 1 .. Len(BucketEnds) + 1 :
          Cardinality({j \in I : buckets[j] = i})
            = Count(LAMBDA span : span.name = name /\ InBucket(span.latency, i))
    BY <1>5 DEF Count
  <2> HIDE DEF map, I
  <2> QED
    BY <2>2, <2>3 DEF map
<1>8. ASSUME NEW name \in DOMAIN GetSummary
      PROVE  /\ \A code \in Codes :
                  (IF code \in DOMAIN GetSummary[name].error THEN GetSummary[name].error[code] ELSE 0)
                    = Count(LAMBDA span : span.name = name /\ span.code = code)
             /\ \A k \in DOMAIN GetSummary[name].error : GetSummary[name].error[k] > 0
  <2> DEFINE I == Named(name, n)  map == GetSummary[name].error
  <2>1. map = Tally(codes, I) /\ IsFiniteSet(I)
    BY <1>4
  <2>2. ASSUME NEW k
        PROVE  /\ (IF k \in DOMAIN map THEN map[k] ELSE 0)
                    = Cardinality({j \in I : codes[j] = k})
               /\ k \in DOMAIN map => map[k] > 0
    <3> HIDE DEF map, I
    <3> QED
      BY <2>1, TallyAt
  <2>3. \A code \in Codes :
          Cardinality({j \in I : codes[j] = code})
            = Count(LAMBDA span : span.name = name /\ span.code = code)
    <3> SUFFICES ASSUME NEW code \in Codes
                 PROVE  Cardinality({j \in I : codes[j] = code})
                          = Count(LAMBDA span : span.name = name /\ span.code = code)
      OBVIOUS
    <3>1. {j \in I : codes[j] = code}
            = {j \in DOMAIN spans_ : spans_[j].name = name /\ spans_[j].code = code}
      BY <1>6
    <3> QED
      BY <3>1, Zenon DEF Count
  <2> HIDE DEF map, I
  <2> QED
    BY <2>2, <2>3 DEF map
<1> QED
  BY <1>3, <1>7, <1>8 DEF SummaryCounts

----------------------------------------------------------------------------
\* The queries.

Upto(M, n) == {j \in M : j <= n}

\* The loop of a query for the spans at the positions M, when it has visited n spans.
VisitedUpTo(loop, max, M, n) ==
  LET out == loop.out  found == Cardinality(Upto(M, n)) IN
  /\ loop = [max |-> max, out |-> out, left |-> loop.left]
  /\ out \in Seq(SpanData)
  /\ Len(out) = IF found < max THEN found ELSE max
  /\ loop.left <=> Len(out) >= max
  /\ \A i \in Upto(M, n) :
       Cardinality(Upto(M, i)) <= max => out[Cardinality(Upto(M, i))] = spans_[i]

\* How many of some positions come up to the n-th.
LEMMA PositionsCounted ==
  ASSUME NEW M, M \subseteq Nat \ {0}, NEW n \in Nat
  PROVE  /\ Cardinality(Upto(M, n)) \in Nat
         /\ n + 1 \notin M => Upto(M, n + 1) = Upto(M, n)
         /\ n + 1 \in M => /\ Upto(M, n + 1) = Upto(M, n) \cup {n + 1}
                           /\ Cardinality(Upto(M, n + 1)) = Cardinality(Upto(M, n)) + 1
         /\ \A i \in Upto(M, n) : Cardinality(Upto(M, i)) \in 1 .. Cardinality(Upto(M, n))
<1>0. \A j \in M : j \in Nat /\ j >= 1
  OBVIOUS
<1>1. ASSUME NEW k \in Nat PROVE IsFiniteSet(Upto(M, k)) /\ Cardinality(Upto(M, k)) \in Nat
  <2>1. \A j \in M : j <= k => j \in 1 .. k
    BY <1>0
  <2>2. Upto(M, k) \subseteq 1 .. k
    BY <2>1, Zenon DEF Upto
  <2>3. IsFiniteSet(1 .. k)
    BY FS_Interval
  <2>4. IsFiniteSet(Upto(M, k))
    BY <2>2, <2>3, FS_Subset
  <2> QED
    BY <2>4, FS_CardinalityType
<1>5. \A j \in M : (j <= n + 1 <=> j <= n \/ j = n + 1) /\ (j <= n => j # n + 1)
  BY <1>0
<1>2. n + 1 \notin M => Upto(M, n + 1) = Upto(M, n)
  BY <1>5, Zenon DEF Upto
<1>3. ASSUME n + 1 \in M
      PROVE  /\ Upto(M, n + 1) = Upto(M, n) \cup {n + 1} /\ n + 1 \notin Upto(M, n)
             /\ Cardinality(Upto(M, n + 1)) = Cardinality(Upto(M, n)) + 1
  <2>1. Upto(M, n + 1) = Upto(M, n) \cup {n + 1} /\ n + 1 \notin Upto(M, n)
    BY <1>3, <1>5, Zenon DEF Upto
  <2> QED
    BY <1>1, <2>1, FS_AddElement
<1>4. ASSUME NEW i \in Upto(M, n)
      PROVE  Cardinality(Upto(M, i)) \in 1 .. Cardinality(Upto(M, n))
  <2>0. i \in M /\ i <= n /\ i \in Nat /\ i <= i
    <3>1. i \in M /\ i <= n
      BY Zenon DEF Upto
    <3> QED
      BY <1>0, <3>1
  <2>00. \A j \in M : j <= i => j <= n
    BY <1>0, <2>0
  <2>1. i \in Nat /\ i \in Upto(M, i) /\ Upto(M, i) \subseteq Upto(M, n)
    BY <2>0, <2>00, Zenon DEF Upto
  <2>2. Cardinality(Upto(M, i)) <= Cardinality(Upto(M, n))
    BY <1>1, <2>1, FS_Subset
  <2>3. Cardinality(Upto(M, i)) # 0
    BY <1>1, <2>1, FS_EmptySet
  <2> QED
    BY <1>1, <2>1, <2>2, <2>3
<1> QED
  BY <1>1, <1>2, <1>3, <1>4

\* The loop of a query looks at one span more.
LEMMA VisitingOne ==
  ASSUME spans_ \in Seq(SpanData), NEW M \in SUBSET (DOMAIN spans_), NEW max \in Nat, max > 0,
         NEW n \in Nat, n + 1 \in DOMAIN spans_,
         NEW loop, VisitedUpTo(loop, max, M, n)
  PROVE  VisitedUpTo(Visit(loop, [span |-> spans_[n + 1], matches |-> n + 1 \in M]), max, M, n + 1)
<1> DEFINE next == [span |-> spans_[n + 1], matches |-> n + 1 \in M]
           found(k) == Cardinality(Upto(M, k))  new == Visit(loop, next)
<1>1. /\ found(n) \in Nat
      /\ n + 1 \notin M => Upto(M, n + 1) = Upto(M, n) /\ found(n + 1) = found(n)
      /\ n + 1 \in M => Upto(M, n + 1) = Upto(M, n) \cup {n + 1} /\ found(n + 1) = found(n) + 1
      /\ \A i \in Upto(M, n) : found(i) \in 1 .. found(n)
  <2>1. M \subseteq Nat \ {0}
    OBVIOUS
  <2> QED
    BY <2>1, PositionsCounted
<1>2. spans_[n + 1] \in SpanData
  OBVIOUS
<1>3. /\ loop = [max |-> max, out |-> loop.out, left |-> loop.left]
      /\ loop.out \in Seq(SpanData)
      /\ Len(loop.out) = IF found(n) < max THEN found(n) ELSE max
      /\ loop.left <=> Len(loop.out) >= max
      /\ \A i \in Upto(M, n) : found(i) <= max => loop.out[found(i)] = spans_[i]
  BY Zenon DEF VisitedUpTo
<1>4. loop.max = max
  BY <1>3
<1>5. CASE loop.left
  <2>1. new = loop
    BY <1>5 DEF Visit
  <2>2. found(n) >= max
    BY <1>1, <1>3, <1>5
  <2>3. Len(loop.out) = IF found(n + 1) < max THEN found(n + 1) ELSE max
    BY <1>1, <1>3, <2>2
  <2>4. n + 1 \in M => ~ (found(n + 1) <= max)
    BY <1>1, <2>2
  <2>5. \A i \in Upto(M, n + 1) : found(i) <= max => loop.out[found(i)] = spans_[i]
    BY <1>1, <1>3, <2>4
  <2> QED
    BY <1>3, <2>1, <2>3, <2>5, Zenon DEF VisitedUpTo
<1>6. CASE ~loop.left /\ n + 1 \notin M
  <2>1. new = [loop EXCEPT !.out = loop.out, !.left = loop.max >= 0 /\ Len(loop.out) >= loop.max]
    BY <1>6 DEF Visit
  <2>2. new = [max |-> max, out |-> loop.out, left |-> max >= 0 /\ Len(loop.out) >= max]
    BY <1>3, <1>4, <2>1
  <2> HIDE DEF new
  <2>3. new.out = loop.out /\ new = [max |-> max, out |-> new.out, left |-> new.left]
    BY <2>2
  <2>4. new.left <=> Len(new.out) >= max
    <3> DEFINE full == max >= 0 /\ Len(loop.out) >= max
    <3>1. full <=> Len(loop.out) >= max
      OBVIOUS
    <3>2. new = [max |-> max, out |-> loop.out, left |-> full]
      BY <2>2
    <3> HIDE DEF full
    <3>3. new.left = full
      BY <3>2
    <3> QED
      BY <2>3, <3>1, <3>3, Zenon
  <2>5. /\ Len(new.out) = IF found(n + 1) < max THEN found(n + 1) ELSE max
        /\ new.out \in Seq(SpanData)
    BY <1>1, <1>3, <1>6, <2>3
  <2>6. \A i \in Upto(M, n + 1) : found(i) <= max => new.out[found(i)] = spans_[i]
    BY <1>1, <1>3, <1>6, <2>3
  <2>7. VisitedUpTo(new, max, M, n + 1)
    BY <2>3, <2>4, <2>5, <2>6, Zenon DEF VisitedUpTo
  <2> QED
    BY <2>7 DEF new
<1>7. CASE ~loop.left /\ n + 1 \in M
  <2> DEFINE out == Append(loop.out, spans_[n + 1])
  <2>1. new = [loop EXCEPT !.out = out, !.left = loop.max >= 0 /\ Len(out) >= loop.max]
    BY <1>7 DEF Visit
  <2>2. new = [max |-> max, out |-> out, left |-> max >= 0 /\ Len(out) >= max]
    BY <1>3, <1>4, <2>1
  <2>3. /\ out \in Seq(SpanData) /\ Len(out) = Len(loop.out) + 1
        /\ out[Len(loop.out) + 1] = spans_[n + 1]
        /\ \A i \in 1 .. Len(loop.out) : out[i] = loop.out[i]
    BY <1>2, <1>3
  <2> HIDE DEF new, out
  <2>4. Len(loop.out) = found(n) /\ found(n) < max /\ found(n + 1) = found(n) + 1
    BY <1>1, <1>3, <1>7
  <2>5. new.out = out /\ new = [max |-> max, out |-> new.out, left |-> new.left]
    BY <2>2
  <2>6. new.left <=> Len(new.out) >= max
    <3> DEFINE full == max >= 0 /\ Len(out) >= max
    <3>1. full <=> Len(out) >= max
      OBVIOUS
    <3>2. new = [max |-> max, out |-> out, left |-> full]
      BY <2>2
    <3> HIDE DEF full
    <3>3. new.left = full
      BY <3>2
    <3> QED
      BY <2>5, <3>1, <3>3, Zenon
  <2>7. Len(new.out) = IF found(n + 1) < max THEN found(n + 1) ELSE max
    BY <1>1, <2>3, <2>4, <2>5
  <2>8. ASSUME NEW i \in Upto(M, n + 1), found(i) <= max PROVE new.out[found(i)] = spans_[i]
    <3>1. CASE i = n + 1
      BY <2>3, <2>4, <2>5, <3>1
    <3>2. CASE i # n + 1
      <4>1. i \in Upto(M, n) /\ found(i) \in 1 .. Len(loop.out)
        BY <1>1, <1>7, <2>4, <3>2
      <4> QED
        BY <1>3, <2>3, <2>5, <2>8, <4>1
    <3> QED
      BY <3>1, <3>2
  <2>9. new.out \in Seq(SpanData)
    BY <2>3, <2>5
  <2>10. \A i \in Upto(M, n + 1) : found(i) <= max => new.out[found(i)] = spans_[i]
    BY <2>8, Zenon
  <2>11. VisitedUpTo(new, max, M, n + 1)
    BY <2>5, <2>6, <2>7, <2>9, <2>10, Zenon DEF VisitedUpTo
  <2> QED
    BY <2>11 DEF new
<1> QED
  BY <1>5, <1>6, <1>7

\* The loop ends with the first of the spans at the positions M.
LEMMA CollectedAre ==
  ASSUME spans_ \in Seq(SpanData), NEW M \in SUBSET (DOMAIN spans_), NEW max \in Nat, max > 0
  PROVE  AreFirst(FirstOf(max, M), max, M)
<1> DEFINE n == Len(spans_)
           rows == [i \in DOMAIN spans_ |-> [span |-> spans_[i], matches |-> i \in M]]
           start == [max |-> max, out |-> <<>>, left |-> FALSE]
           loop(k) == Visiting!Fold(rows, start, 1 .. k)
           Good == {k \in 0 .. n : VisitedUpTo(loop(k), max, M, k)}
<1>1. n \in Nat /\ DOMAIN spans_ = 1 .. n
  OBVIOUS
<1>2. ASSUME NEW k \in 0 .. n
      PROVE  loop(0) = start /\ (k > 0 => loop(k) = SpanVisited(rows[k], loop(k - 1)))
  <2>1. k \in Nat
    BY <1>1
  <2>2. /\ \A j \in 1 .. k : Max(1 .. j) = j
        /\ Visiting!Chooses(1 .. k)
    BY <2>1, PrefixesAreVisited DEF Visiting!Chooses
  <2> HIDE DEF rows, start
  <2> QED
    BY <2>1, <2>2, Visiting!FoldUpTo
<1>3. 0 \in Good
  <2>1. 0 \in 0 .. n
    BY <1>1
  <2>2. Upto(M, 0) = {} /\ Cardinality({}) = 0
    <3>1. \A j \in M : ~ (j <= 0)
      BY <1>1
    <3>2. Upto(M, 0) = {}
      BY <3>1, Zenon DEF Upto
    <3> QED
      BY <3>2, FS_EmptySet
  <2>3. <<>> \in Seq(SpanData) /\ Len(<<>>) = 0
    OBVIOUS
  <2>4. start.out = <<>> /\ start = [max |-> max, out |-> start.out, left |-> start.left]
    OBVIOUS
  <2>5. ~ start.left
    OBVIOUS
  <2> HIDE DEF start
  <2>6. Len(start.out) = IF Cardinality(Upto(M, 0)) < max THEN Cardinality(Upto(M, 0)) ELSE max
    BY <2>2, <2>3, <2>4
  <2>7. start.left <=> Len(start.out) >= max
    BY <2>3, <2>4, <2>5
  <2>8. start.out \in Seq(SpanData)
    BY <2>3, <2>4
  <2>9. VisitedUpTo(start, max, M, 0)
    BY <2>2, <2>4, <2>6, <2>7, <2>8, Zenon DEF VisitedUpTo
  <2> QED
    BY <1>2, <2>1, <2>9
<1>4. ASSUME NEW k \in Good, k < n PROVE k + 1 \in Good
  <2>1. /\ k \in Nat /\ k \in 0 .. n /\ k + 1 \in 0 .. n /\ k + 1 > 0 /\ (k + 1) - 1 = k
        /\ k + 1 \in DOMAIN spans_ /\ VisitedUpTo(loop(k), max, M, k)
    BY <1>1, <1>4
  <2>2. rows[k + 1] = [span |-> spans_[k + 1], matches |-> k + 1 \in M]
    BY <2>1
  <2>3. VisitedUpTo(Visit(loop(k), rows[k + 1]), max, M, k + 1)
    <3> HIDE DEF rows, start
    <3> QED
      BY <2>1, <2>2, VisitingOne
  <2>4. loop(k + 1) = SpanVisited(rows[k + 1], loop(k))
    BY <1>2, <2>1
  <2> HIDE DEF rows, start
  <2> QED
    BY <2>1, <2>3, <2>4 DEF SpanVisited
<1>5. n \in Good
  <2>1. Good \in SUBSET (0 .. n)
    OBVIOUS
  <2> HIDE DEF Good, n
  <2> QED
    BY <1>1, <1>3, <1>4, <2>1, Visiting!InductionUpTo
<1>6. FirstOf(max, M) = loop(n).out
  <2>1. DOMAIN rows = 1 .. n
    BY <1>1
  <2>2. FirstOf(max, M) = FoldLeft(Visit, start, rows).out
    BY DEF FirstOf
  <2> HIDE DEF rows, start
  <2> QED
    BY <2>1, <2>2 DEF FoldLeft, MapThenFoldSet, Visiting!Fold, Visiting!MapThenFoldSet, SpanVisited
<1>7. VisitedUpTo(loop(n), max, M, n)
  BY <1>5
<1>8. Upto(M, n) = M
  <2>1. \A j \in M : j <= n
    BY <1>1
  <2> QED
    BY <2>1, Zenon DEF Upto
<1> DEFINE out == loop(n).out
<1>9. /\ Len(out) = IF Cardinality(M) < max THEN Cardinality(M) ELSE max
      /\ \A i \in M : Cardinality(Upto(M, i)) <= max => out[Cardinality(Upto(M, i))] = spans_[i]
  <2> HIDE DEF loop
  <2> QED
    BY <1>7, <1>8, Zenon DEF VisitedUpTo
<1> HIDE DEF out, loop
<1> QED
  BY <1>6, <1>9, Zenon DEF AreFirst, Upto, out

\* The queries return the newest spans that match, as many as were asked for.
LEMMA QueriesAreAnswered ==
  ASSUME StoreInv PROVE QueriesAnswered
<1>1. \A i \in DOMAIN spans_ : spans_[i] \in SpanData
  BY DEF StoreInv
<1>2. \A span \in SpanData : span.latency \in Latencies
  BY DEF SpanData
<1>3. ASSUME NEW f \in LatencyFilters, f.max > 0
      PROVE  AreFirst(GetLatencySampledSpans(f), f.max, {i \in DOMAIN spans_ :
               NameMatches(f, spans_[i]) /\ InInterval(f, spans_[i].latency)})
  <2> DEFINE ns(latency) == IF latency < 0 THEN latency + Uint64Range ELSE latency
             M == {i \in DOMAIN spans_ :
                     NameMatches(f, spans_[i]) /\ InInterval(f, spans_[i].latency)}
  <2>1. f.max \in Int /\ f.lower \in FilterLimits /\ f.upper \in FilterLimits
    BY StoreAssumption DEF LatencyFilters, StoreAssumption
  <2>2. ASSUME NEW latency \in Latencies
        PROVE  f.lower <= ns(latency) /\ ns(latency) < f.upper <=> InInterval(f, latency)
    <3>1. /\ latency \in Int /\ Uint64Range \in Nat /\ f.lower \in Nat /\ f.upper \in Nat
          /\ -2 * latency <= Uint64Range
      <4>1. /\ latency \in Int /\ Uint64Range \in Nat /\ -2 * latency <= Uint64Range
        BY StoreAssumption DEF StoreAssumption
      <4>2. ASSUME NEW limit \in FilterLimits PROVE limit \in Nat
        <5>1. limit \in 0 .. Uint64Range - 1
          BY StoreAssumption, Zenon DEF StoreAssumption
        <5> QED
          BY <5>1
      <4> QED
        BY <2>1, <4>1, <4>2
    <3> DEFINE lower == f.lower  upper == f.upper
    <3>2. /\ lower \in Nat /\ upper \in Nat
          /\ InInterval(f, latency) <=>
               \/ lower <= latency /\ latency < upper
               \/ /\ latency < 0 /\ 2 * upper > Uint64Range
                  /\ lower <= latency + Uint64Range /\ latency + Uint64Range < upper
      BY <3>1 DEF InInterval
    <3> HIDE DEF lower, upper
    <3>3. CASE latency < 0
      <4>1. lower <= ns(latency) /\ ns(latency) < upper <=> InInterval(f, latency)
        BY <3>1, <3>2, <3>3
      <4> QED
        BY <4>1 DEF lower, upper
    <3>4. CASE ~(latency < 0)
      <4>1. lower <= ns(latency) /\ ns(latency) < upper <=> InInterval(f, latency)
        BY <3>1, <3>2, <3>4
      <4> QED
        BY <4>1 DEF lower, upper
    <3> QED
      BY <3>3, <3>4
  <2>3. M = {i \in DOMAIN spans_ : /\ NameMatches(f, spans_[i])
               /\ f.lower <= ns(spans_[i].latency) /\ ns(spans_[i].latency) < f.upper}
    <3> HIDE DEF ns
    <3> QED
      BY <1>1, <1>2, <2>2, Zenon
  <2>4. GetLatencySampledSpans(f) = FirstOf(f.max, M)
    BY <2>3, Zenon DEF GetLatencySampledSpans
  <2>5. M \in SUBSET (DOMAIN spans_)
    OBVIOUS
  <2> HIDE DEF M
  <2>6. AreFirst(FirstOf(f.max, M), f.max, M)
    BY <1>3, <2>1, <2>5, CollectedAre DEF StoreInv
  <2> QED
    BY <2>4, <2>6 DEF M
<1>4. ASSUME NEW f \in ErrorFilters, f.max > 0
      PROVE  AreFirst(GetErrorSampledSpans(f), f.max, {i \in DOMAIN spans_ :
               NameMatches(f, spans_[i]) /\ spans_[i].code = f.code})
  <2> DEFINE M == {i \in DOMAIN spans_ : NameMatches(f, spans_[i]) /\ spans_[i].code = f.code}
  <2>1. f.max \in Int
    BY StoreAssumption DEF ErrorFilters, StoreAssumption
  <2>2. M = {i \in DOMAIN spans_ : NameMatches(f, spans_[i]) /\ f.code = spans_[i].code}
    OBVIOUS
  <2>3. GetErrorSampledSpans(f) = FirstOf(f.max, M)
    BY <2>2 DEF GetErrorSampledSpans
  <2>4. M \in SUBSET (DOMAIN spans_)
    OBVIOUS
  <2> HIDE DEF M
  <2>5. AreFirst(FirstOf(f.max, M), f.max, M)
    BY <1>4, <2>1, <2>4, CollectedAre DEF StoreInv
  <2> QED
    BY <2>3, <2>5 DEF M
<1> QED
  BY <1>3, <1>4, Zenon DEF QueriesAnswered

\* The LocalSpanStore keeps the newest spans, and its summary and queries are about them.
THEOREM StoreAnswersAlways ==
  StoreSpec => []StoreAnswers
<1>1. StoreInv => StoreAnswers
  BY NewestAreKept, SummaryIsRight, QueriesAreAnswered DEF StoreAnswers
<1> QED
  BY <1>1, StoreInvAlways, PTL

----------------------------------------------------------------------------
----------------------------------------------------------------------------
\* RunningSpanStore: any spans, and any calls during a query.

Seen == [span : RunningSpans, name : RunningNames]

QueryRecord ==
  [type : {"none", "summary", "spans"}, span_name : RunningNames \cup {""},
   max_spans_to_return : Int, to_visit : Seq(RunningSpans), matched : BOOLEAN]

RunningTypeOK ==
  /\ mu_ \in {"free", "query"} /\ (mu_ = "query" <=> query.type # "none")
  /\ running_ \subseteq RunningSpans /\ has_ended \subseteq RunningSpans
  /\ names \in [RunningSpans -> RunningNames]
  /\ names_seen \in [RunningSpans -> SUBSET RunningNames]
  /\ query \in QueryRecord
  /\ running_spans \in Seq(Seen)

ToVisit == Range(query.to_visit)
Returned == {running_spans[i].span : i \in DOMAIN running_spans}
Asked(names_of) == query.span_name \in names_of \cup {""}

\* The names that a span is seen to have are finitely many, and its name is one.
NamesSeen ==
  \A span \in RunningSpans : IsFiniteSet(names_seen[span]) /\ names[span] \in names_seen[span]

\* A span of the store is yet to be visited, or in the answer, once, or was passed over.
EachOnce ==
  /\ IsInjective(query.to_visit)
  /\ \A i, j \in DOMAIN running_spans : running_spans[i].span = running_spans[j].span => i = j
  /\ ToVisit \subseteq running_ /\ Returned \subseteq running_ /\ ToVisit \cap Returned = {}

AnswerMatches ==
  \A i \in DOMAIN running_spans :
    LET seen == names_seen[running_spans[i].span] IN
    running_spans[i].name \in seen /\ Asked(seen)

PassedOver ==
  \A span \in running_ \ (ToVisit \cup Returned) :
    ~Asked(names_seen[span]) \/ Cardinality(names_seen[span]) > 1

NextMatched ==
  query.matched =>
    /\ query.type = "spans" /\ query.to_visit # <<>> /\ ~Full
    /\ Asked(names_seen[Head(query.to_visit)])

WithinLimit ==
  /\ query.type = "summary" => query.span_name = ""
  /\ query.type = "spans" /\ query.max_spans_to_return >= 0
       => Len(running_spans) <= query.max_spans_to_return

RunningInv ==
  /\ RunningTypeOK /\ NamesSeen
  /\ query.type # "none" =>
       EachOnce /\ AnswerMatches /\ PassedOver /\ NextMatched /\ WithinLimit

----------------------------------------------------------------------------
\* The empty sequence.
LEMMA EmptySequence == DOMAIN <<>> = {} /\ Len(<<>>) = 0 /\ \A S : <<>> \in Seq(S)
<1>1. Len(<<>>) = 0 /\ \A S : <<>> \in Seq(S)
  OBVIOUS
<1>2. DOMAIN <<>> = 1 .. 0
  OBVIOUS
<1> QED
  BY <1>1, <1>2

\* A sequence without its first element: the spans that a query is still to visit.
LEMMA HeadAndTail ==
  ASSUME NEW S, NEW s \in Seq(S), s # <<>>
  PROVE  /\ Head(s) \in S /\ Tail(s) \in Seq(S)
         /\ Range(s) = {Head(s)} \cup Range(Tail(s))
         /\ IsInjective(s) => IsInjective(Tail(s)) /\ Head(s) \notin Range(Tail(s))
<1> DEFINE t == Tail(s)
<1>1. Len(s) \in Nat /\ Len(s) > 0 /\ DOMAIN s = 1 .. Len(s) /\ Head(s) = s[1] /\ Head(s) \in S
  OBVIOUS
<1>2. t \in Seq(S) /\ Len(t) = Len(s) - 1 /\ DOMAIN t = 1 .. Len(s) - 1
      /\ \A i \in 1 .. Len(s) - 1 : t[i] = s[i + 1]
  OBVIOUS
<1> HIDE DEF t
<1>3. Range(s) = {Head(s)} \cup Range(t)
  <2>1. ASSUME NEW i \in DOMAIN s PROVE s[i] \in {Head(s)} \cup Range(t)
    <3>1. CASE i = 1
      BY <1>1, <3>1
    <3>2. CASE i # 1
      <4>1. i - 1 \in DOMAIN t /\ t[i - 1] = s[i]
        BY <1>1, <1>2, <3>2
      <4> QED
        BY <4>1 DEF Range
    <3> QED
      BY <3>1, <3>2
  <2>2. ASSUME NEW i \in DOMAIN t PROVE t[i] \in Range(s)
    <3>1. i + 1 \in DOMAIN s /\ t[i] = s[i + 1]
      BY <1>1, <1>2
    <3> QED
      BY <3>1 DEF Range
  <2>3. Head(s) \in Range(s)
    BY <1>1 DEF Range
  <2> QED
    BY <2>1, <2>2, <2>3 DEF Range
<1>4. ASSUME IsInjective(s) PROVE IsInjective(t) /\ Head(s) \notin Range(t)
  <2>1. \A i, j \in DOMAIN s : s[i] = s[j] => i = j
    BY <1>4 DEF IsInjective
  <2>2. ASSUME NEW i \in DOMAIN t, NEW j \in DOMAIN t, t[i] = t[j] PROVE i = j
    <3>1. i + 1 \in DOMAIN s /\ j + 1 \in DOMAIN s /\ s[i + 1] = s[j + 1]
      BY <1>1, <1>2, <2>2
    <3>2. i + 1 = j + 1
      BY <2>1, <3>1
    <3> QED
      BY <1>2, <3>2
  <2>3. ASSUME NEW i \in DOMAIN t PROVE t[i] # Head(s)
    <3>1. i + 1 \in DOMAIN s /\ 1 \in DOMAIN s /\ i + 1 # 1 /\ t[i] = s[i + 1]
      BY <1>1, <1>2
    <3> QED
      BY <1>1, <2>1, <3>1
  <2> QED
    BY <2>2, <2>3 DEF IsInjective, Range
<1> QED
  BY <1>1, <1>2, <1>3, <1>4 DEF t

\* The order of a query has every span of the store, once.
LEMMA OrderIs ==
  ASSUME running_ \subseteq RunningSpans, NEW order \in SetToSeqs(running_)
  PROVE  order \in Seq(RunningSpans) /\ IsInjective(order) /\ Range(order) = running_
<1> DEFINE D == 1 .. Cardinality(running_)
<1>1. IsFiniteSet(running_) /\ Cardinality(running_) \in Nat
  BY RunningAssumption, FS_Subset, FS_CardinalityType
<1>2. order \in [D -> running_] /\ \A i, j \in D : i # j => order[i] # order[j]
  BY DEF SetToSeqs
<1>3. order \in Injection(D, running_)
  BY <1>2 DEF Injection, IsInjective
<1>4. Cardinality(D) = Cardinality(running_)
  <2>1. \A n \in Nat : Cardinality(1 .. n) = n
    <3> SUFFICES ASSUME NEW n \in Nat PROVE Cardinality(1 .. n) = n
      OBVIOUS
    <3>1. Cardinality(1 .. n) = IF 1 > n THEN 0 ELSE n - 1 + 1
      BY FS_Interval
    <3> QED
      BY <3>1
  <2> QED
    BY <1>1, <2>1
<1>5. order \in Surjection(D, running_)
  <2> HIDE DEF D
  <2> QED
    BY <1>1, <1>3, <1>4, FS_Injection
<1>6. order \in Seq(RunningSpans)
  BY <1>1, <1>2
<1>7. IsInjective(order)
  BY <1>2 DEF IsInjective
<1>8. Range(order) = running_
  BY <1>2, <1>5 DEF Range, Surjection
<1> QED
  BY <1>6, <1>7, <1>8

\* A span is put in the answer: it is no longer to be visited.
LEMMA PutInAnswer ==
  ASSUME RunningInv, query.type # "none", query.to_visit # <<>>,
         Asked(names_seen[Head(query.to_visit)]),
         query.type = "spans" => ~Full,
         running_spans' = Append(running_spans, [span |-> Head(query.to_visit),
                                                 name |-> names[Head(query.to_visit)]]),
         query' = [query EXCEPT !.to_visit = Tail(query.to_visit), !.matched = FALSE],
         UNCHANGED <<mu_, running_, names, has_ended, renames, names_seen>>
  PROVE  RunningInv'
<1> DEFINE next == Head(query.to_visit)
<1>0. RunningTypeOK /\ NamesSeen /\ EachOnce /\ AnswerMatches /\ PassedOver /\ NextMatched /\ WithinLimit
  BY DEF RunningInv
<1>1. /\ query \in QueryRecord /\ query.to_visit \in Seq(RunningSpans)
      /\ running_spans \in Seq(Seen) /\ names \in [RunningSpans -> RunningNames]
  BY <1>0, Zenon DEF RunningTypeOK, QueryRecord
<1>2. /\ next \in RunningSpans /\ Tail(query.to_visit) \in Seq(RunningSpans)
      /\ Range(query.to_visit) = {next} \cup Range(Tail(query.to_visit))
      /\ IsInjective(Tail(query.to_visit)) /\ next \notin Range(Tail(query.to_visit))
  BY <1>0, <1>1, HeadAndTail DEF EachOnce
<1>3. /\ query' \in QueryRecord /\ query'.to_visit = Tail(query.to_visit)
      /\ query'.matched = FALSE /\ query'.type = query.type
      /\ query'.span_name = query.span_name
      /\ query'.max_spans_to_return = query.max_spans_to_return
  BY <1>1, <1>2, Zenon DEF QueryRecord
<1> DEFINE seen == [span |-> next, name |-> names[next]]
<1>4. seen \in Seen
  BY <1>1, <1>2 DEF Seen
<1>5. /\ running_spans' \in Seq(Seen) /\ Len(running_spans') = Len(running_spans) + 1
      /\ DOMAIN running_spans = 1 .. Len(running_spans) /\ Len(running_spans) \in Nat
      /\ DOMAIN running_spans' = 1 .. Len(running_spans) + 1
      /\ \A i \in 1 .. Len(running_spans) : running_spans'[i] = running_spans[i]
      /\ running_spans'[Len(running_spans) + 1] = seen
  BY <1>1, <1>4
<1> HIDE DEF seen
<1>6. seen.span = next /\ seen.name = names[next]
  BY DEF seen
<1> HIDE DEF next
<1>7. ToVisit = {next} \cup ToVisit' /\ next \notin ToVisit' /\ next \notin Returned
  BY <1>0, <1>2, <1>3 DEF ToVisit, EachOnce
<1>8. Returned' = Returned \cup {next}
  <2>1. ASSUME NEW i \in DOMAIN running_spans' PROVE running_spans'[i].span \in Returned \cup {next}
    BY <1>5, <1>6 DEF Returned
  <2>2. ASSUME NEW i \in DOMAIN running_spans PROVE running_spans[i].span \in Returned'
    BY <1>5 DEF Returned
  <2>3. next \in Returned'
    BY <1>5, <1>6 DEF Returned
  <2> QED
    BY <2>1, <2>2, <2>3 DEF Returned
<1>9. RunningTypeOK' /\ NamesSeen'
  BY <1>0, <1>3, <1>5 DEF RunningTypeOK, NamesSeen
<1>10. EachOnce'
  <2>1. ASSUME NEW i \in DOMAIN running_spans', NEW j \in DOMAIN running_spans',
               running_spans'[i].span = running_spans'[j].span
        PROVE  i = j
    <3>1. \A k \in DOMAIN running_spans : running_spans[k].span # next
      BY <1>7 DEF Returned
    <3>2. \A k, l \in DOMAIN running_spans : running_spans[k].span = running_spans[l].span => k = l
      BY <1>0 DEF EachOnce
    <3>3. CASE i \in DOMAIN running_spans /\ j \in DOMAIN running_spans
      BY <1>5, <2>1, <3>2, <3>3
    <3>4. CASE ~(i \in DOMAIN running_spans /\ j \in DOMAIN running_spans)
      BY <1>5, <1>6, <2>1, <3>1, <3>4
    <3> QED
      BY <3>3, <3>4
  <2> QED
    BY <1>0, <1>2, <1>3, <1>7, <1>8, <2>1 DEF EachOnce
<1>11. AnswerMatches'
  <2> SUFFICES ASSUME NEW i \in DOMAIN running_spans'
               PROVE  /\ running_spans'[i].name \in names_seen[running_spans'[i].span]
                      /\ query.span_name \in names_seen[running_spans'[i].span] \cup {""}
    BY <1>3, Zenon DEF AnswerMatches, Asked
  <2>1. CASE i \in DOMAIN running_spans
    BY <1>0, <1>5, <2>1, Zenon DEF AnswerMatches, Asked
  <2>2. CASE i = Len(running_spans) + 1
    <3>1. running_spans'[i].span = next /\ running_spans'[i].name = names[next]
      BY <1>5, <1>6, <2>2
    <3>2. names[next] \in names_seen[next]
      BY <1>0, <1>2 DEF NamesSeen
    <3>3. query.span_name \in names_seen[next] \cup {""}
      BY Zenon DEF Asked, next
    <3> QED
      BY <3>1, <3>2, <3>3, Zenon
  <2>3. i \in 1 .. Len(running_spans) + 1 /\ Len(running_spans) \in Nat
    BY <1>5
  <2>4. i \in 1 .. Len(running_spans) \/ i = Len(running_spans) + 1
    BY <2>3
  <2> QED
    BY <1>5, <2>1, <2>2, <2>4, Zenon
<1>12. PassedOver'
  BY <1>0, <1>3, <1>7, <1>8, Zenon DEF PassedOver, Asked
<1>13. NextMatched' /\ WithinLimit'
  <2>1. NextMatched'
    BY <1>3 DEF NextMatched
  <2>2. ASSUME query.type = "spans", query.max_spans_to_return >= 0
        PROVE  Len(running_spans) + 1 <= query.max_spans_to_return
    <3>1. ~(Len(running_spans) >= query.max_spans_to_return)
      BY <2>2 DEF Full
    <3>2. query.max_spans_to_return \in Int
      BY <1>1, Zenon DEF QueryRecord
    <3> QED
      BY <1>5, <3>1, <3>2
  <2>3. WithinLimit'
    BY <1>0, <1>3, <1>5, <2>2, Zenon DEF WithinLimit
  <2> QED
    BY <2>1, <2>3
<1> QED
  BY <1>9, <1>10, <1>11, <1>12, <1>13 DEF RunningInv

\* RunningInv is an invariant: a query holds mu_ until it returns, so the spans it has
\* visited and those it is to visit are those in the store.
THEOREM RunningInvHolds == RunningSpec => []RunningInv
<1>1. RunningInit => RunningInv
  <2> SUFFICES ASSUME RunningInit PROVE RunningInv
    OBVIOUS
  <2>1. NoQuery \in QueryRecord /\ NoQuery.type = "none"
    BY DEF NoQuery, Query, QueryRecord
  <2>2. NamesSeen
    BY FS_Singleton DEF RunningInit, NamesSeen
  <2> QED
    BY <2>1, <2>2 DEF RunningInit, RunningInv, RunningTypeOK
<1>2. RunningInv /\ [RunningNext]_runningVars => RunningInv'
  <2> SUFFICES ASSUME RunningInv, [RunningNext]_runningVars PROVE RunningInv'
    OBVIOUS
  <2>0. RunningTypeOK /\ NamesSeen
        /\ (query.type # "none" => EachOnce /\ AnswerMatches /\ PassedOver /\ NextMatched /\ WithinLimit)
    BY DEF RunningInv
  <2>14. ASSUME has_ended' \subseteq RunningSpans,
                UNCHANGED <<mu_, running_, names, query, running_spans, names_seen>>
         PROVE  RunningInv'
    <3>1. RunningTypeOK' /\ NamesSeen'
      BY <2>0, <2>14 DEF RunningTypeOK, NamesSeen
    <3>2. EachOnce' <=> EachOnce
      BY <2>14 DEF EachOnce, ToVisit, Returned
    <3>3. AnswerMatches' <=> AnswerMatches
      BY <2>14 DEF AnswerMatches, Asked
    <3>4. PassedOver' <=> PassedOver
      BY <2>14 DEF PassedOver, Asked, ToVisit, Returned
    <3>5. (NextMatched' <=> NextMatched) /\ (WithinLimit' <=> WithinLimit)
      BY <2>14 DEF NextMatched, Asked, Full, WithinLimit
    <3> QED
      BY <2>0, <2>14, <3>1, <3>2, <3>3, <3>4, <3>5 DEF RunningInv
  <2>1. ASSUME NEW span \in RunningSpans, AddRunningSpan(span) PROVE RunningInv'
    BY <2>0, <2>1 DEF AddRunningSpan, RunningInv, RunningTypeOK, NamesSeen
  <2>2. ASSUME NEW span \in RunningSpans, End(span) PROVE RunningInv'
    BY <2>0, <2>2, <2>14 DEF End, RunningTypeOK
  <2>3. ASSUME NEW span \in RunningSpans, RemoveSpan(span) PROVE RunningInv'
    BY <2>0, <2>3 DEF RemoveSpan, RunningInv, RunningTypeOK, NamesSeen
  <2>4. CASE ClearRunningForTesting
    BY <2>0, <2>4 DEF ClearRunningForTesting, RunningInv, RunningTypeOK, NamesSeen
  <2>5. ASSUME NEW span \in RunningSpans, NEW name \in RunningNames, SetName(span, name)
        PROVE  RunningInv'
    <3>1. /\ names' = [names EXCEPT ![span] = name] /\ names[span] # name
          /\ names_seen' = [names_seen EXCEPT ![span] = @ \cup {name}]
          /\ UNCHANGED <<mu_, running_, has_ended, query, running_spans>>
      BY <2>5 DEF SetName
    <3>2. /\ names \in [RunningSpans -> RunningNames]
          /\ names_seen \in [RunningSpans -> SUBSET RunningNames]
          /\ query.to_visit \in Seq(RunningSpans) /\ running_spans \in Seq(Seen)
          /\ running_ \subseteq RunningSpans
      BY <2>0, Zenon DEF RunningTypeOK, QueryRecord
    <3>3. /\ names_seen'[span] = names_seen[span] \cup {name}
          /\ \A other \in RunningSpans \ {span} : names_seen'[other] = names_seen[other]
          /\ \A other \in RunningSpans : names_seen[other] \subseteq names_seen'[other]
      BY <3>1, <3>2
    <3>4. RunningTypeOK'
      BY <2>0, <3>1, <3>2 DEF RunningTypeOK
    <3>5. NamesSeen'
      <4>1. IsFiniteSet(names_seen[span] \cup {name})
        BY <2>0, FS_AddElement DEF NamesSeen
      <4> QED
        BY <2>0, <3>1, <3>2, <3>3, <4>1 DEF NamesSeen
    <3>6. Cardinality(names_seen'[span]) > 1
      <4>1. {names[span], name} \subseteq names_seen'[span] /\ IsFiniteSet(names_seen'[span])
        BY <2>0, <3>3, <3>5 DEF NamesSeen
      <4>2. Cardinality({names[span], name}) = 2
        <5>1. {names[span], name} = {names[span]} \cup {name}
          OBVIOUS
        <5>2. IsFiniteSet({names[span]}) /\ Cardinality({names[span]}) = 1
          BY FS_Singleton
        <5>3. Cardinality({names[span]} \cup {name}) = Cardinality({names[span]}) + 1
          BY <3>1, <5>2, FS_AddElement
        <5> QED
          BY <5>1, <5>2, <5>3
      <4>3. Cardinality({names[span], name}) <= Cardinality(names_seen'[span])
        BY <4>1, FS_Subset
      <4>4. Cardinality(names_seen'[span]) \in Nat
        BY <4>1, FS_CardinalityType
      <4> QED
        BY <4>2, <4>3, <4>4
    <3>7. ASSUME query.type # "none" PROVE EachOnce' /\ AnswerMatches' /\ PassedOver' /\ NextMatched' /\ WithinLimit'
      <4>1. EachOnce'
        BY <2>0, <3>1, <3>7 DEF EachOnce, ToVisit, Returned
      <4>2. AnswerMatches'
        <5> SUFFICES ASSUME NEW i \in DOMAIN running_spans
                     PROVE  /\ running_spans[i].name \in names_seen'[running_spans[i].span]
                            /\ query.span_name \in names_seen'[running_spans[i].span] \cup {""}
          BY <3>1, Zenon DEF AnswerMatches, Asked
        <5>1. running_spans[i] \in Seen
          BY <3>2
        <5>2. running_spans[i].span \in RunningSpans
          BY <5>1 DEF Seen
        <5> QED
          BY <2>0, <3>3, <3>7, <5>2, Zenon DEF AnswerMatches, Asked
      <4>3. PassedOver'
        <5> SUFFICES ASSUME NEW other \in running_ \ (ToVisit \cup Returned)
                     PROVE  ~(query.span_name \in names_seen'[other] \cup {""})
                            \/ Cardinality(names_seen'[other]) > 1
          BY <3>1, Zenon DEF PassedOver, Asked, ToVisit, Returned
        <5> QED
          BY <2>0, <3>2, <3>3, <3>6, <3>7, Zenon DEF PassedOver, Asked
      <4>4. NextMatched'
        <5>1. query.to_visit # <<>> => Head(query.to_visit) \in RunningSpans
          BY <3>2, HeadAndTail
        <5> QED
          BY <2>0, <3>1, <3>3, <3>7, <5>1, Zenon DEF NextMatched, Asked, Full
      <4>5. WithinLimit'
        BY <2>0, <3>1, <3>7, Zenon DEF WithinLimit
      <4> QED
        BY <4>1, <4>2, <4>3, <4>4, <4>5
    <3> QED
      BY <3>1, <3>4, <3>5, <3>7 DEF RunningInv
  <2>6. ASSUME NEW type \in {"summary", "spans"}, NEW span_name \in RunningNames \cup {""},
               NEW max \in Int, type = "summary" => span_name = "", Begin(type, span_name, max)
        PROVE  RunningInv'
    <3>1. PICK order \in SetToSeqs(running_) : query' = Query(type, span_name, max, order)
      BY <2>6, Zenon DEF Begin
    <3>2. order \in Seq(RunningSpans) /\ IsInjective(order) /\ Range(order) = running_
      BY <2>0, OrderIs, Zenon DEF RunningTypeOK
    <3>3. /\ query' \in QueryRecord /\ query'.type = type /\ query'.to_visit = order
          /\ query'.matched = FALSE /\ query'.span_name = span_name
          /\ query'.max_spans_to_return = max
      BY <3>1, <3>2, Zenon DEF Query, QueryRecord
    <3>4. /\ mu_' = "query" /\ running_spans' = <<>>
          /\ names_seen' = [span \in RunningSpans |-> {names[span]}]
          /\ UNCHANGED <<running_, names, has_ended, renames>>
      BY <2>6, Zenon DEF Begin
    <3>5. RunningTypeOK'
      <4>1. names_seen' \in [RunningSpans -> SUBSET RunningNames]
        BY <2>0, <3>4, Zenon DEF RunningTypeOK
      <4>2. running_spans' \in Seq(Seen)
        BY <3>4, EmptySequence, Zenon
      <4>3. mu_' = "query" /\ query'.type # "none"
        BY <3>3, <3>4, Zenon
      <4> QED
        BY <2>0, <3>3, <3>4, <4>1, <4>2, <4>3, Zenon DEF RunningTypeOK
    <3>6. NamesSeen'
      BY <3>4, FS_Singleton, Zenon DEF NamesSeen
    <3>7. EachOnce' /\ AnswerMatches' /\ PassedOver' /\ NextMatched' /\ WithinLimit'
      <4>1. DOMAIN running_spans' = {} /\ Len(running_spans') = 0
        <5>1. DOMAIN <<>> = {} /\ Len(<<>>) = 0
          BY EmptySequence, Zenon
        <5> QED
          BY <3>4, <5>1, Zenon
      <4>2. ToVisit' = running_ /\ Returned' = {}
        BY <3>2, <3>3, <4>1, Zenon DEF ToVisit, Returned
      <4> QED
        BY <2>6, <3>2, <3>3, <3>4, <4>1, <4>2, Zenon
        DEF EachOnce, AnswerMatches, PassedOver, NextMatched, WithinLimit
    <3> QED
      BY <3>5, <3>6, <3>7, Zenon DEF RunningInv
  <2>7. CASE CountSpan
    <3>1. query' = [query EXCEPT !.to_visit = Tail(query.to_visit), !.matched = FALSE]
      BY <2>0, <2>7, Zenon DEF CountSpan, NextMatched, RunningTypeOK, QueryRecord
    <3>2. Asked(names_seen[Head(query.to_visit)])
      BY <2>0, <2>7, Zenon DEF CountSpan, WithinLimit, Asked
    <3> QED
      BY <2>7, <3>1, <3>2, PutInAnswer DEF CountSpan
  <2>8. CASE CopySpan
    <3>1. query' = [query EXCEPT !.to_visit = Tail(query.to_visit), !.matched = FALSE]
      BY <2>8 DEF CopySpan
    <3>2. query.to_visit # <<>> /\ ~Full /\ Asked(names_seen[Head(query.to_visit)])
      BY <2>0, <2>8 DEF CopySpan, NextMatched
    <3> QED
      BY <2>8, <3>1, <3>2, PutInAnswer DEF CopySpan
  <2>9. CASE CompareName
    <3> DEFINE next == Head(query.to_visit)
    <3>0. /\ query.type = "spans" /\ query.to_visit # <<>> /\ ~query.matched /\ ~Full
          /\ UNCHANGED <<mu_, running_, names, has_ended, renames, running_spans, names_seen>>
          /\ EachOnce /\ AnswerMatches /\ PassedOver /\ NextMatched /\ WithinLimit
          /\ query \in QueryRecord /\ query.to_visit \in Seq(RunningSpans)
      BY <2>0, <2>9, Zenon DEF CompareName, RunningTypeOK, QueryRecord
    <3>1. /\ next \in RunningSpans /\ Tail(query.to_visit) \in Seq(RunningSpans)
          /\ Range(query.to_visit) = {next} \cup Range(Tail(query.to_visit))
          /\ IsInjective(Tail(query.to_visit)) /\ next \notin Range(Tail(query.to_visit))
      BY <3>0, HeadAndTail DEF EachOnce
    <3>2. names[next] \in names_seen[next] /\ IsFiniteSet(names_seen[next])
      BY <2>0, <3>1 DEF NamesSeen
    <3>3. CASE query.span_name \in {"", names[next]}
      <4>1. query' = [query EXCEPT !.matched = TRUE]
        BY <2>9, <3>3, Zenon DEF CompareName
      <4>2. /\ query' \in QueryRecord /\ query'.to_visit = query.to_visit
            /\ query'.matched = TRUE /\ query'.type = query.type
            /\ query'.span_name = query.span_name
            /\ query'.max_spans_to_return = query.max_spans_to_return
        BY <3>0, <4>1, Zenon DEF QueryRecord
      <4>3. RunningTypeOK' /\ NamesSeen'
        BY <2>0, <3>0, <4>2 DEF RunningTypeOK, NamesSeen
      <4>4. EachOnce' /\ AnswerMatches' /\ PassedOver' /\ WithinLimit'
        <5>1. EachOnce'
          BY <3>0, <4>2 DEF EachOnce, ToVisit, Returned
        <5>2. AnswerMatches'
          BY <3>0, <4>2, Zenon DEF AnswerMatches, Asked
        <5>3. PassedOver' /\ WithinLimit'
          BY <3>0, <4>2, Zenon DEF PassedOver, WithinLimit, Asked, ToVisit, Returned
        <5> QED
          BY <5>1, <5>2, <5>3
      <4>5. NextMatched'
        BY <3>0, <3>2, <3>3, <4>2, Zenon DEF NextMatched, Asked, Full
      <4> QED
        BY <4>3, <4>4, <4>5 DEF RunningInv
    <3>4. CASE query.span_name \notin {"", names[next]}
      <4>1. query' = [query EXCEPT !.to_visit = Tail(query.to_visit)]
        BY <2>9, <3>4, Zenon DEF CompareName
      <4>2. /\ query' \in QueryRecord /\ query'.to_visit = Tail(query.to_visit)
            /\ query'.matched = FALSE /\ query'.type = query.type
            /\ query'.span_name = query.span_name
            /\ query'.max_spans_to_return = query.max_spans_to_return
        BY <3>0, <3>1, <4>1, Zenon DEF QueryRecord
      <4>3. RunningTypeOK' /\ NamesSeen'
        BY <2>0, <3>0, <4>2 DEF RunningTypeOK, NamesSeen
      <4>4. ToVisit = {next} \cup ToVisit' /\ Returned' = Returned
        BY <3>0, <3>1, <4>2 DEF ToVisit, Returned
      <4>5. EachOnce' /\ AnswerMatches' /\ WithinLimit' /\ NextMatched'
        BY <3>0, <3>1, <4>2, <4>4, Zenon
        DEF EachOnce, AnswerMatches, WithinLimit, NextMatched, Asked
      <4>6. ~Asked(names_seen[next]) \/ Cardinality(names_seen[next]) > 1
        <5> SUFFICES ASSUME Asked(names_seen[next]) PROVE Cardinality(names_seen[next]) > 1
          OBVIOUS
        <5>1. query.span_name \in names_seen[next] /\ query.span_name # names[next]
          BY <3>4, Zenon DEF Asked
        <5> DEFINE two == {names[next]} \cup {query.span_name}
        <5>2. IsFiniteSet({names[next]}) /\ Cardinality({names[next]}) = 1
          BY FS_Singleton
        <5>3. Cardinality(two) = Cardinality({names[next]}) + 1
          BY <5>1, <5>2, FS_AddElement
        <5>4. two \subseteq names_seen[next]
          BY <3>2, <5>1
        <5>5. Cardinality(two) <= Cardinality(names_seen[next]) /\ Cardinality(names_seen[next]) \in Nat
          BY <3>2, <5>4, FS_Subset, FS_CardinalityType
        <5> QED
          BY <5>2, <5>3, <5>5
      <4>7. PassedOver'
        BY <3>0, <4>2, <4>4, <4>6, Zenon DEF PassedOver, Asked
      <4> QED
        BY <4>3, <4>5, <4>7 DEF RunningInv
    <3> QED
      BY <3>3, <3>4, Zenon
  <2>10. CASE Return
    <3>1. NoQuery \in QueryRecord /\ NoQuery.type = "none"
      BY DEF NoQuery, Query, QueryRecord
    <3> QED
      BY <2>0, <2>10, <3>1 DEF Return, RunningInv, RunningTypeOK, NamesSeen
  <2>11. CASE UNCHANGED runningVars
    BY <2>0, <2>11, <2>14 DEF runningVars, RunningTypeOK
  <2>12. CASE BeginGetSummary
    <3>1. -1 \in Int /\ "summary" \in {"summary", "spans"} /\ "" \in RunningNames \cup {""}
      OBVIOUS
    <3>2. Begin("summary", "", -1)
      BY <2>12, Zenon DEF BeginGetSummary
    <3> QED
      BY <2>6, <3>1, <3>2, Zenon
  <2>13. ASSUME NEW span_name \in RunningNames \cup {""}, NEW max \in Limits,
                BeginGetRunningSpans(span_name, max)
         PROVE  RunningInv'
    BY <2>6, <2>13, RunningAssumption, Zenon DEF BeginGetRunningSpans
  <2> QED
    BY <2>1, <2>2, <2>3, <2>4, <2>5, <2>7, <2>8, <2>9, <2>10, <2>11, <2>12, <2>13, Zenon
       DEF RunningNext
<1> QED
  BY <1>1, <1>2, PTL DEF RunningSpec

\* What a query returns is about spans that are in the store, each once and under a name
\* it had meanwhile; none that kept a name asked for is missed.
THEOREM RunningStoreAnswers == RunningSpec => []RunningAnswers
<1>1. RunningInv => RunningAnswers
  <2> SUFFICES ASSUME RunningInv, QueryDone PROVE RunningAnswers
    BY Zenon DEF RunningAnswers
  <2>0. /\ RunningTypeOK /\ NamesSeen /\ EachOnce /\ AnswerMatches /\ PassedOver
        /\ NextMatched /\ WithinLimit
    BY DEF RunningInv, QueryDone
  <2>1. IsFiniteSet(DOMAIN running_spans) /\ Cardinality(DOMAIN running_spans) = Len(running_spans)
    <3>1. running_spans \in Seq(Seen)
      BY <2>0 DEF RunningTypeOK
    <3>2. Len(running_spans) \in Nat /\ DOMAIN running_spans = 1 .. Len(running_spans)
      BY <3>1
    <3>3. \A n \in Nat : IsFiniteSet(1 .. n) /\ Cardinality(1 .. n) = n
      <4> SUFFICES ASSUME NEW n \in Nat PROVE IsFiniteSet(1 .. n) /\ Cardinality(1 .. n) = n
        OBVIOUS
      <4>1. IsFiniteSet(1 .. n) /\ Cardinality(1 .. n) = IF 1 > n THEN 0 ELSE n - 1 + 1
        BY FS_Interval
      <4> QED
        BY <4>1
    <3> QED
      BY <3>2, <3>3
  <2>2. Cardinality(Returned) = Len(running_spans)
    <3> DEFINE f == [i \in DOMAIN running_spans |-> running_spans[i].span]
               D == DOMAIN running_spans
    <3>1. f \in Surjection(D, Returned)
      BY DEF Surjection, Returned
    <3>2. f \in Injection(D, Returned)
      BY <2>0 DEF Injection, IsInjective, EachOnce, Returned
    <3> HIDE DEF f, D
    <3>3. Cardinality(Returned) = Cardinality(D)
      <4>1. IsFiniteSet(D)
        BY <2>1 DEF D
      <4> QED
        BY <3>1, <3>2, <4>1, FS_Surjection
    <3> QED
      BY <2>1, <3>3 DEF D
  <2>3. Full \/ ToVisit = {}
    BY DEF QueryDone, ToVisit, Range
  <2>4. Full => Len(running_spans) = query.max_spans_to_return
    <3>1. query.max_spans_to_return \in Int /\ Len(running_spans) \in Nat
      <4>1. query \in QueryRecord /\ running_spans \in Seq(Seen)
        BY <2>0 DEF RunningTypeOK
      <4>2. Len(running_spans) \in Nat
        BY <4>1
      <4> QED
        BY <4>1, <4>2, Zenon DEF QueryRecord
    <3> QED
      BY <2>0, <3>1 DEF Full, WithinLimit
  <2>5. Full \/ \A span \in running_ \ Returned :
                  ~Asked(names_seen[span]) \/ Cardinality(names_seen[span]) > 1
    BY <2>0, <2>3 DEF PassedOver
  <2>6. Returned \subseteq running_
    BY <2>0 DEF EachOnce
  <2> QED
    BY <2>0, <2>2, <2>4, <2>5, <2>6, Zenon DEF RunningAnswers, AnswerMatches, Returned, Asked
<1> QED
  BY <1>1, RunningInvHolds, PTL

----------------------------------------------------------------------------
----------------------------------------------------------------------------
\* Registrations: any names, descriptors and Views.

NoName == ""
HasMeasure(d) == d.measure_name # NoName
MeasureDescriptors == [name : MeasureNames, units : Units, type : Types]
HeldMeasures == [name : MeasureNames, type : Types, id : Nat, known : Types \cup {"none"}]
ViewDescriptors ==
  [name : ViewNames \cup {NoName}, measure_name : MeasureNames \cup {NoName}, measure_id : Nat,
   aggregation : Aggregations \cup {Sum}, window : AggregationWindows \cup {Cumulative},
   columns : Seq(Columns), expiry_duration : ExpiryDurations \cup {0}]

\* The type of the data of a view, by its descriptor alone.
TypeOfData(d) ==
  TypeForDescriptor([window |-> d.window.type, aggregation |-> d.aggregation.type,
                     measure |-> IdToType(d.measure_id)])

ViewInformations ==
  [id : Nat, descriptor : ViewDescriptors, type : {TypeOfData(d) : d \in ViewDescriptors}, num_consumers : Nat]
Views == [descriptor : ViewDescriptors, handle : Nat]

RegistrationTypeOK ==
  /\ registered_descriptors_ \in Seq(MeasureDescriptors)
  /\ DOMAIN id_map_ \subseteq MeasureNames /\ id_map_ \in [DOMAIN id_map_ -> Nat]
  /\ measures_ \in Seq(Seq(ViewInformations))
  /\ held \in SUBSET HeldMeasures
  /\ descriptors \in [Descriptors -> ViewDescriptors]
  /\ views_ \in [DOMAIN views_ -> Views] /\ IsFiniteSet(DOMAIN views_)
  /\ made \in Nat

\* The measures that are registered have one index each, which their ids give.
NamesOK ==
  /\ IsFiniteSet(DOMAIN id_map_) /\ Cardinality(DOMAIN id_map_) = Len(registered_descriptors_)
  /\ Len(measures_) = Len(registered_descriptors_)
  /\ Len(registered_descriptors_) <= kIndexes
  /\ \A i \in DOMAIN registered_descriptors_ : LET d == registered_descriptors_[i] IN
       /\ d.name \in DOMAIN id_map_
       /\ id_map_[d.name] = CreateMeasureId(i - 1, TRUE, d.type)
  /\ \A name \in DOMAIN id_map_ : \E i \in DOMAIN registered_descriptors_ :
       registered_descriptors_[i].name = name

MeasureOK(measure) ==
  \/ measure.known = "none" /\ ~ IdValid(measure.id)
  \/ /\ measure.name \in DOMAIN id_map_ /\ measure.id = id_map_[measure.name]
     /\ measure.known = IdToType(measure.id)

\* What a descriptor says of its measure.
DescriptorOK(d) ==
  HasMeasure(d) /\ IdValid(d.measure_id) =>
    d.measure_name \in DOMAIN id_map_ /\ d.measure_id = id_map_[d.measure_name]

MeasuresOK ==
  NamesOK /\ (\A measure \in held : MeasureOK(measure))
          /\ (\A k \in Descriptors : DescriptorOK(descriptors[k]))

\* ViewInformations at index i of which consumers[id] consumers are known.
InfoOK(info, i, consumers, n) ==
  /\ info.id \in 1 .. n
  /\ IdToIndex(info.descriptor.measure_id) + 1 = i
  /\ info.type = TypeOfData(info.descriptor)
  /\ consumers[info.id] > 0 /\ info.num_consumers = consumers[info.id]

InfosOK(measures, consumers, n) ==
  /\ \A i \in DOMAIN measures : \A j \in DOMAIN measures[i] :
       /\ InfoOK(measures[i][j], i, consumers, n)
       /\ \A k \in DOMAIN measures[i] :
            Matches(measures[i][j], measures[i][k].descriptor) => j = k
  /\ \A i \in DOMAIN measures, k \in DOMAIN measures :
       \A j \in DOMAIN measures[i], l \in DOMAIN measures[k] :
         measures[i][j].id = measures[k][l].id => i = k /\ j = l

Consumers(views) ==
  [h \in Nat \ {0} |-> Cardinality({v \in DOMAIN views : views[v].handle = h})]

\* A View, and its ViewInformation.
ViewOf(measures, view) ==
  LET d == view.descriptor IN
  IF view.handle = Null THEN ~ IdValid(d.measure_id)
  ELSE /\ IdValid(d.measure_id)
       /\ \E j \in DOMAIN measures[IdToIndex(d.measure_id) + 1] :
            LET info == measures[IdToIndex(d.measure_id) + 1][j] IN
            /\ info.id = view.handle /\ info.descriptor.measure_id = d.measure_id
            /\ Matches(info, d)

ViewsOK ==
  /\ InfosOK(measures_, Consumers(views_), made)
  /\ \A v \in DOMAIN views_ :
       /\ HasMeasure(views_[v].descriptor) /\ DescriptorOK(views_[v].descriptor)
       /\ ViewOf(measures_, views_[v])

\* The ViewInformations are of registered measures.
InfosKnown(measures) ==
  \A i \in DOMAIN measures : \A j \in DOMAIN measures[i] :
    LET id == measures[i][j].descriptor.measure_id IN
    \E name \in DOMAIN id_map_ : id = id_map_[name]

RegistrationInv == RegistrationTypeOK /\ MeasuresOK /\ ViewsOK /\ InfosKnown(measures_)

\* What is read from an id is what it was made of.
LEMMA IdParts ==
  ASSUME NEW index \in 0 .. kIndexes - 1, NEW valid \in BOOLEAN, NEW type \in Types
  PROVE  /\ CreateMeasureId(index, valid, type) \in Nat
         /\ IdValid(CreateMeasureId(index, valid, type)) <=> valid
         /\ IdToIndex(CreateMeasureId(index, valid, type)) = index
         /\ IdToType(CreateMeasureId(index, valid, type)) = type
<1> DEFINE K == kIndexes
           v == IF valid THEN 1 ELSE 0
           t == IF type = "double" THEN 0 ELSE 1
           id == K * (2 * v + t) + index
<1>1. K \in Nat /\ K > 0 /\ index \in 0 .. K - 1 /\ v \in {0, 1} /\ t \in {0, 1}
  BY IndexAssumption DEF IndexAssumption
<1>2. CreateMeasureId(index, valid, type) = id /\ kIntType = K /\ kValid = 2 * K
  BY <1>1 DEF CreateMeasureId, kIntType, kValid
<1>a. (valid <=> v = 1) /\ (type = "double" <=> t = 0) /\ type \in {"double", "int64"}
  BY DEF Types
<1> HIDE DEF K, v, t
<1>3. id \in Nat
  BY <1>1
<1>4. id \div K = 2 * v + t /\ id % K = index
  <2> DEFINE q == 2 * v + t
  <2>1. q \in Nat
    BY <1>1
  <2> HIDE DEF q
  <2>2. (K * q + index) \div K = q /\ (K * q + index) % K = index
    BY <1>1, <2>1, QuotientAndRest
  <2> QED
    BY <2>2 DEF q
<1>5. id \div (2 * K) = v
  <2> DEFINE d == 2 * K  r == t * K + index
  <2>1. d \in Nat /\ d > 0 /\ v \in Nat /\ r \in 0 .. d - 1 /\ d * v + r = id
    BY <1>1
  <2> HIDE DEF d, r
  <2>2. (d * v + r) \div d = v
    BY <2>1, QuotientAndRest
  <2> QED
    BY <2>1, <2>2 DEF d
<1>6. v % 2 = v /\ (2 * v + t) % 2 = t
  BY <1>1
<1> HIDE DEF id
<1> QED
  BY <1>2, <1>a, <1>3, <1>4, <1>5, <1>6, K = kIndexes DEF IdValid, IdToIndex, IdToType, K

----------------------------------------------------------------------------
\* Descriptors.

\* The elements of the registry.
LEMMA ElementsTyped ==
  ASSUME RegistrationTypeOK
  PROVE  /\ Len(registered_descriptors_) \in Nat
         /\ DOMAIN registered_descriptors_ = 1 .. Len(registered_descriptors_)
         /\ \A i \in DOMAIN registered_descriptors_ :
              registered_descriptors_[i] \in MeasureDescriptors
         /\ \A name \in DOMAIN id_map_ : name \in MeasureNames /\ id_map_[name] \in Nat
  BY DEF RegistrationTypeOK

\* What the registry knows of a name.
LEMMA NameIs ==
  ASSUME RegistrationTypeOK, NamesOK, NEW name \in DOMAIN id_map_
  PROVE  /\ id_map_[name] \in Nat /\ IdValid(id_map_[name])
         /\ IdToIndex(id_map_[name]) \in 0 .. Len(registered_descriptors_) - 1
         /\ AtIndex(id_map_[name]).name = name
         /\ AtIndex(id_map_[name]).type = IdToType(id_map_[name])
<1>1. PICK i \in DOMAIN registered_descriptors_ : registered_descriptors_[i].name = name
  BY DEF NamesOK
<1> DEFINE type == registered_descriptors_[i].type
<1>2. i \in 1 .. Len(registered_descriptors_) /\ Len(registered_descriptors_) \in Nat
      /\ registered_descriptors_[i] \in MeasureDescriptors
  BY ElementsTyped
<1>3. type \in Types /\ id_map_[name] = CreateMeasureId(i - 1, TRUE, type)
  BY <1>1, <1>2 DEF NamesOK, MeasureDescriptors
<1>4. kIndexes \in Nat /\ Len(registered_descriptors_) <= kIndexes
  BY IndexAssumption DEF IndexAssumption, NamesOK
<1>5. i - 1 \in 0 .. kIndexes - 1 /\ TRUE \in BOOLEAN
  BY <1>2, <1>4
<1>6. /\ id_map_[name] \in Nat /\ IdValid(id_map_[name])
      /\ IdToIndex(id_map_[name]) = i - 1 /\ IdToType(id_map_[name]) = type
  BY <1>3, <1>5, IdParts, ZenonT(20)
<1>7. IdToIndex(id_map_[name]) + 1 = i
  BY <1>2, <1>6
<1> QED
  BY <1>1, <1>2, <1>6, <1>7 DEF AtIndex

\* The id of a registration that failed is not valid.
LEMMA NoMeasureId ==
  ASSUME NEW type \in Types
  PROVE  CreateMeasureId(0, FALSE, type) \in Nat /\ ~ IdValid(CreateMeasureId(0, FALSE, type))
<1>1. 0 \in 0 .. kIndexes - 1 /\ FALSE \in BOOLEAN
  BY IndexAssumption DEF IndexAssumption
<1> QED
  BY <1>1, IdParts

\* GetIdByName finds the id of a name, and none that is valid for others.
LEMMA LookedUp ==
  ASSUME RegistrationTypeOK, NEW name
  PROVE  /\ GetIdByName(name) \in Nat
         /\ IF name \in DOMAIN id_map_ THEN GetIdByName(name) = id_map_[name]
            ELSE ~ IdValid(GetIdByName(name))
<1>1. "double" \in Types
  BY DEF Types
<1> QED
  BY <1>1, NoMeasureId, ElementsTyped DEF GetIdByName

\* A descriptor that was just made has no measure, whatever memory its id has.
LEMMA NewDescriptor ==
  ASSUME NEW memory \in Nat
  PROVE  /\ NewViewDescriptor(memory) \in ViewDescriptors
         /\ DescriptorOK(NewViewDescriptor(memory))
<1>1. <<>> \in Seq(Columns)
  BY EmptySeq
<1> QED
  <2>1. NewViewDescriptor(memory) =
          [name |-> NoName, measure_name |-> NoName, measure_id |-> memory, aggregation |-> Sum,
           window |-> Cumulative, columns |-> <<>>, expiry_duration |-> 0]
    BY Zenon DEF NewViewDescriptor, NoName
  <2>2. NewViewDescriptor(memory).measure_name = NoName
    BY <2>1
  <2> QED
    BY <1>1, <2>1, <2>2 DEF ViewDescriptors, DescriptorOK, HasMeasure

\* Setters keep a descriptor's id the one that its measure had when it was set.
LEMMA ChangedDescriptor ==
  ASSUME RegistrationTypeOK, NEW d \in ViewDescriptors, DescriptorOK(d), NEW e \in Changed(d)
  PROVE  e \in ViewDescriptors /\ DescriptorOK(e)
<1>1. CASE \E name \in MeasureNames : e = SetMeasure(d, name)
  <2>1. PICK name \in MeasureNames : e = SetMeasure(d, name)
    BY <1>1
  <2>2. GetIdByName(name) \in Nat
    BY LookedUp
  <2>3. e \in ViewDescriptors /\ e.measure_name = name /\ e.measure_id = GetIdByName(name)
    BY <2>1, <2>2 DEF SetMeasure, ViewDescriptors
  <2> QED
    BY <2>3, LookedUp DEF DescriptorOK
<1>2. ASSUME e \in ViewDescriptors, e.measure_name = d.measure_name,
             e.measure_id = d.measure_id
      PROVE  DescriptorOK(e)
  BY <1>2, Zenon DEF DescriptorOK, HasMeasure
<1>3. CASE \E name \in ViewNames : e = [d EXCEPT !.name = name]
  BY <1>2, <1>3 DEF ViewDescriptors
<1>4. CASE \E aggregation \in Aggregations : e = [d EXCEPT !.aggregation = aggregation]
  BY <1>2, <1>4 DEF ViewDescriptors
<1>5. CASE \E window \in AggregationWindows : e = [d EXCEPT !.window = window]
  BY <1>2, <1>5 DEF ViewDescriptors
<1>6. CASE \E column \in Columns : e = [d EXCEPT !.columns = Append(@, column)]
  <2>1. PICK column \in Columns : e = [d EXCEPT !.columns = Append(d.columns, column)]
    BY <1>6
  <2>2. d.columns \in Seq(Columns)
    BY DEF ViewDescriptors
  <2>3. Append(d.columns, column) \in Seq(Columns)
    BY <2>2
  <2> QED
    BY <1>2, <2>1, <2>3 DEF ViewDescriptors
<1>7. CASE \E expiry \in ExpiryDurations : e = [d EXCEPT !.expiry_duration = expiry]
  BY <1>2, <1>7 DEF ViewDescriptors
<1> QED
  BY <1>1, <1>3, <1>4, <1>5, <1>6, <1>7 DEF Changed

\* The type of the data is that of the measure whose id the descriptor has.
LEMMA DataTypeIs ==
  ASSUME RegistrationTypeOK, NamesOK, NEW d \in ViewDescriptors, HasMeasure(d),
         IdValid(d.measure_id), DescriptorOK(d)
  PROVE  DataType(d) = TypeOfData(d)
<1>1. d.measure_name \in DOMAIN id_map_ /\ d.measure_id = id_map_[d.measure_name]
  BY DEF DescriptorOK
<1>2. GetDescriptorByName(d.measure_name).type = IdToType(d.measure_id)
  BY <1>1, NameIs DEF GetDescriptorByName
<1> QED
  BY <1>2 DEF DataType, TypeOfData

\* A descriptor that was right stays so when more names are registered.
LEMMA NamesStay ==
  ASSUME DOMAIN id_map_ \subseteq DOMAIN id_map_',
         \A name \in DOMAIN id_map_ : id_map_'[name] = id_map_[name]
  PROVE  /\ \A d : DescriptorOK(d) => DescriptorOK(d)'
         /\ \A measure : MeasureOK(measure) => MeasureOK(measure)'
         /\ InfosKnown(measures_) => InfosKnown(measures_)
  BY DEF DescriptorOK, MeasureOK

\* Register gives a new name the next index and leaves all other names theirs.
LEMMA NamesAfterRegister ==
  ASSUME RegistrationTypeOK, NamesOK, NEW name \in MeasureNames, NEW units \in Units,
         NEW type \in Types, Register(name, units, type)
  PROVE  /\ registered_descriptors_' \in Seq(MeasureDescriptors)
         /\ DOMAIN id_map_' \subseteq MeasureNames /\ id_map_' \in [DOMAIN id_map_' -> Nat]
         /\ DOMAIN id_map_' = DOMAIN id_map_ \cup {name}
         /\ \A other \in DOMAIN id_map_ : id_map_'[other] = id_map_[other]
         /\ id_map_'[name] = CreateMeasureId(Len(registered_descriptors_), TRUE, type)
         /\ IdValid(id_map_'[name]) /\ IdToType(id_map_'[name]) = type
         /\ NamesOK'
<1> DEFINE n == Len(registered_descriptors_)  id == CreateMeasureId(n, TRUE, type)
           new == MeasureDescriptor(name, units, type)
<1>1. n \in Nat /\ DOMAIN registered_descriptors_ = 1 .. n /\ kIndexes \in Nat /\ n < kIndexes
  BY ElementsTyped, IndexAssumption, Zenon DEF IndexAssumption, Register
<1>2. n \in 0 .. kIndexes - 1 /\ TRUE \in BOOLEAN
  BY <1>1
<1>3. id \in Nat /\ IdValid(id) /\ IdToType(id) = type
  BY <1>2, IdParts
<1>4. name \notin DOMAIN id_map_ /\ DOMAIN id_map_' = DOMAIN id_map_ \cup {name}
      /\ \A other \in DOMAIN id_map_ : id_map_'[other] = id_map_[other]
  BY Zenon DEF Register
<1>5. id_map_'[name] = id
  BY Zenon DEF Register
<1>6. DOMAIN id_map_' \subseteq MeasureNames /\ id_map_' \in [DOMAIN id_map_' -> Nat]
  <2>1. \A other \in DOMAIN id_map_' : id_map_'[other] \in Nat /\ other \in MeasureNames
    BY <1>3, <1>4, <1>5, ElementsTyped
  <2>2. id_map_' = [m \in DOMAIN id_map_' |-> id_map_'[m]]
    BY <1>4, Zenon DEF Register
  <2> QED
    BY <2>1, <2>2
<1>7. new \in MeasureDescriptors /\ new.name = name /\ new.type = type
  BY DEF MeasureDescriptors, MeasureDescriptor
<1>8. registered_descriptors_' = Append(registered_descriptors_, new)
  BY Zenon DEF Register
<1>9. registered_descriptors_ \in Seq(MeasureDescriptors)
  BY DEF RegistrationTypeOK
<1> HIDE DEF new
<1>10. /\ registered_descriptors_' \in Seq(MeasureDescriptors)
       /\ Len(registered_descriptors_') = n + 1
       /\ DOMAIN registered_descriptors_' = 1 .. n + 1
       /\ registered_descriptors_'[n + 1] = new
       /\ \A i \in 1 .. n : registered_descriptors_'[i] = registered_descriptors_[i]
  BY <1>1, <1>7, <1>8, <1>9
<1>11. NamesOK'
  <2>1. IsFiniteSet(DOMAIN id_map_') /\ Cardinality(DOMAIN id_map_') = n + 1
    <3> DEFINE D == DOMAIN id_map_
    <3>1. IsFiniteSet(D) /\ Cardinality(D) = n /\ name \notin D /\ DOMAIN id_map_' = D \cup {name}
      BY <1>4 DEF NamesOK
    <3> HIDE DEF D, n
    <3>2. IsFiniteSet(D \cup {name}) /\ Cardinality(D \cup {name}) = n + 1
      BY <3>1, FS_AddElement
    <3> QED
      BY <3>1, <3>2
  <2>2. Len(measures_') = Len(measures_) + 1
    <3>1. measures_ \in Seq(Seq(ViewInformations)) /\ measures_' = Append(measures_, <<>>)
      BY Zenon DEF RegistrationTypeOK, Register, AddMeasure, NoViews
    <3>2. <<>> \in Seq(ViewInformations)
      BY EmptySeq
    <3> QED
      BY <3>1, <3>2
  <2>3. n + 1 <= kIndexes
    BY <1>1
  <2>4. \A i \in 1 .. n + 1 : LET d == registered_descriptors_'[i] IN
          d.name \in DOMAIN id_map_' /\ id_map_'[d.name] = CreateMeasureId(i - 1, TRUE, d.type)
    <3> TAKE i \in 1 .. n + 1
    <3>1. CASE i = n + 1
      <4>1. i - 1 = n
        BY <1>1, <3>1
      <4> QED
        BY <1>4, <1>5, <1>7, <1>10, <3>1, <4>1
    <3>2. CASE i # n + 1
      <4>1. i \in 1 .. n
        BY <1>1, <3>2
      <4> QED
        BY <1>1, <1>4, <1>10, <4>1 DEF NamesOK
    <3> QED
      BY <3>1, <3>2
  <2>5. ASSUME NEW m \in DOMAIN id_map_'
        PROVE  \E i \in 1 .. n + 1 : registered_descriptors_'[i].name = m
    <3>1. CASE m = name
      <4>1. n + 1 \in 1 .. n + 1
        BY <1>1
      <4> QED
        BY <1>7, <1>10, <3>1, <4>1
    <3>2. CASE m # name
      <4>1. PICK i \in 1 .. n : registered_descriptors_[i].name = m
        BY <1>1, <1>4, <3>2 DEF NamesOK
      <4>2. i \in 1 .. n + 1
        BY <1>1
      <4> QED
        BY <1>10, <4>1, <4>2
    <3> QED
      BY <3>1, <3>2
  <2>6. Len(measures_) = n
    BY DEF NamesOK
  <2> HIDE DEF n
  <2> QED
    BY <1>10, <2>1, <2>2, <2>3, <2>4, <2>5, <2>6 DEF NamesOK
<1> QED
  BY <1>3, <1>4, <1>5, <1>6, <1>10, <1>11

\* The ViewInformations of a vector, after one was appended.
LEMMA Appended ==
  ASSUME NEW S, NEW s \in Seq(S), NEW x \in S
  PROVE  /\ Append(s, x) \in Seq(S) /\ DOMAIN Append(s, x) = 1 .. Len(s) + 1
         /\ DOMAIN s = 1 .. Len(s) /\ Len(s) \in Nat
         /\ Append(s, x)[Len(s) + 1] = x
         /\ \A i \in DOMAIN s : i \in DOMAIN Append(s, x) /\ Append(s, x)[i] = s[i]
                                /\ i # Len(s) + 1
  OBVIOUS

\* One after which the i-th element is another.
LEMMA Replaced ==
  ASSUME NEW S, NEW s \in Seq(S), NEW i \in DOMAIN s, NEW x \in S
  PROVE  /\ [s EXCEPT ![i] = x] \in Seq(S) /\ DOMAIN [s EXCEPT ![i] = x] = DOMAIN s
         /\ Len([s EXCEPT ![i] = x]) = Len(s)
         /\ \A j \in DOMAIN s : [s EXCEPT ![i] = x][j] = IF j = i THEN x ELSE s[j]
<1>1. i \in 1 .. Len(s) /\ DOMAIN s = 1 .. Len(s)
  BY LenProperties
<1> QED
  BY <1>1, ExceptSeq

\* One from which the i-th element is removed.
LEMMA Removed ==
  ASSUME NEW S, NEW s \in Seq(S), NEW i \in DOMAIN s
  PROVE  /\ RemoveAt(s, i) \in Seq(S)
         /\ \A j \in DOMAIN RemoveAt(s, i) : \E k \in DOMAIN s :
              /\ k # i /\ k = (IF j < i THEN j ELSE j + 1) /\ RemoveAt(s, i)[j] = s[k]
         /\ \A k \in DOMAIN s : k # i =>
              LET j == IF k < i THEN k ELSE k - 1 IN
              j \in DOMAIN RemoveAt(s, i) /\ RemoveAt(s, i)[j] = s[k]
<1> DEFINE n == Len(s)  a == SubSeq(s, 1, i - 1)  b == SubSeq(s, i + 1, n)
<1>1. n \in Nat /\ DOMAIN s = 1 .. n /\ i \in 1 .. n /\ \A k \in 1 .. n : s[k] \in S
  OBVIOUS
<1>2. /\ a \in Seq(S) /\ Len(a) = i - 1 /\ \A k \in 1 .. i - 1 : a[k] = s[k]
  <2>1. \A k \in 1 .. i - 1 : s[k] \in S /\ 1 + k - 1 = k
    BY <1>1
  <2>2. 1 \in Int /\ i - 1 \in Int /\ (i - 1) - 1 + 1 = i - 1
        /\ (IF 1 <= i - 1 THEN i - 1 - 1 + 1 ELSE 0) = i - 1
    BY <1>1
  <2> QED
    BY <2>1, <2>2, SubSeqProperties
<1>3. /\ b \in Seq(S) /\ Len(b) = n - i /\ \A k \in 1 .. n - i : b[k] = s[i + k]
  <2>1. \A k \in i + 1 .. n : s[k] \in S
    BY <1>1
  <2>2. i + 1 \in Int /\ n \in Int /\ n - (i + 1) + 1 = n - i
        /\ (IF i + 1 <= n THEN n - (i + 1) + 1 ELSE 0) = n - i
    BY <1>1
  <2>3. \A k \in 1 .. n - i : i + 1 + k - 1 = i + k
    BY <1>1
  <2> QED
    BY <2>1, <2>2, <2>3, SubSeqProperties
<1>4. RemoveAt(s, i) = a \o b
  BY DEF RemoveAt
<1> HIDE DEF n, a, b
<1>5. /\ a \o b \in Seq(S) /\ Len(a \o b) = (i - 1) + (n - i)
      /\ \A k \in 1 .. (i - 1) + (n - i) :
           (a \o b)[k] = IF k <= i - 1 THEN a[k] ELSE b[k - (i - 1)]
  <2>1. /\ a \o b \in Seq(S) /\ Len(a \o b) = Len(a) + Len(b)
        /\ \A k \in 1 .. Len(a) + Len(b) :
             (a \o b)[k] = IF k <= Len(a) THEN a[k] ELSE b[k - Len(a)]
    BY <1>2, <1>3, ConcatProperties
  <2>2. Len(a) = i - 1 /\ Len(b) = n - i
    BY <1>2, <1>3
  <2> QED
    BY <2>1, <2>2, Zenon
<1>6. DOMAIN (a \o b) = 1 .. n - 1
  BY <1>1, <1>5
<1>7. \A k \in 1 .. n - 1 : (a \o b)[k] = IF k < i THEN s[k] ELSE s[k + 1]
  <2> TAKE k \in 1 .. n - 1
  <2>1. CASE k < i
    BY <1>1, <1>2, <1>5, <2>1
  <2>2. CASE ~ (k < i)
    <3>1. k - (i - 1) \in 1 .. n - i /\ i + (k - (i - 1)) = k + 1 /\ ~ (k <= i - 1)
          /\ k \in 1 .. (i - 1) + (n - i)
      BY <1>1, <2>2
    <3>2. (a \o b)[k] = b[k - (i - 1)]
      BY <1>5, <3>1
    <3>3. b[k - (i - 1)] = s[i + (k - (i - 1))]
      BY <1>3, <3>1
    <3>4. s[i + (k - (i - 1))] = s[k + 1]
      BY <3>1, Zenon
    <3> QED
      BY <2>2, <3>2, <3>3, <3>4
  <2> QED
    BY <2>1, <2>2
<1>8. \A j \in DOMAIN (a \o b) : \E k \in DOMAIN s :
        /\ k # i /\ k = (IF j < i THEN j ELSE j + 1) /\ (a \o b)[j] = s[k]
  <2> TAKE j \in DOMAIN (a \o b)
  <2> DEFINE k == IF j < i THEN j ELSE j + 1
  <2>1. k \in DOMAIN s /\ k # i
    BY <1>1, <1>6
  <2>2. (a \o b)[j] = s[k]
    BY <1>6, <1>7
  <2> QED
    BY <2>1, <2>2
<1>9. \A k \in DOMAIN s : k # i =>
        LET j == IF k < i THEN k ELSE k - 1 IN
        j \in DOMAIN (a \o b) /\ (a \o b)[j] = s[k]
  <2> SUFFICES ASSUME NEW k \in DOMAIN s, k # i
               PROVE  LET j == IF k < i THEN k ELSE k - 1 IN
                      j \in DOMAIN (a \o b) /\ (a \o b)[j] = s[k]
    OBVIOUS
  <2>1. CASE k < i
    BY <1>1, <1>6, <1>7, <2>1
  <2>2. CASE ~ (k < i)
    <3>1. k - 1 \in 1 .. n - 1 /\ ~ (k - 1 < i) /\ (k - 1) + 1 = k
      BY <1>1, <2>2
    <3>2. (a \o b)[k - 1] = s[(k - 1) + 1]
      BY <1>7, <3>1
    <3> QED
      BY <1>6, <2>2, <3>1, <3>2
  <2> QED
    BY <2>1, <2>2
<1> QED
  BY <1>4, <1>5, <1>8, <1>9

AddTo(consumers, h) == [consumers EXCEPT ![h] = @ + 1]
TakeFrom(consumers, h) == [consumers EXCEPT ![h] = @ - 1]

Counts == [Nat \ {0} -> Nat]
NoneAfter(consumers, n) == \A h \in Nat \ {0} : h > n => consumers[h] = 0
SameBut(h, new, old) == \A x \in Nat \ {0} : x # h => new[x] = old[x]

\* What is known of a ViewInformation that still has consumers is known after.
Kept(old, new, consumers) ==
  \A i \in DOMAIN old : \A j \in DOMAIN old[i] :
    consumers[old[i][j].id] > 0 =>
      \E l \in DOMAIN new[i] :
        new[i][l].id = old[i][j].id /\ new[i][l].descriptor = old[i][j].descriptor

\* The ViewInformations of a measure.
LEMMA InfosTyped ==
  ASSUME NEW measures \in Seq(Seq(ViewInformations)), NEW i \in DOMAIN measures
  PROVE  /\ measures[i] \in Seq(ViewInformations)
         /\ \A j \in DOMAIN measures[i] :
              /\ j \in Nat /\ measures[i][j] \in ViewInformations
              /\ measures[i][j].id \in Nat /\ measures[i][j].num_consumers \in Nat
              /\ measures[i][j].descriptor \in ViewDescriptors
<1>1. measures[i] \in Seq(ViewInformations)
  OBVIOUS
<1>2. \A j \in DOMAIN measures[i] : j \in Nat /\ measures[i][j] \in ViewInformations
  BY <1>1
<1> QED
  BY <1>1, <1>2 DEF ViewInformations

\* One of them, and those of the same measure.
LEMMA InfosAt ==
  ASSUME NEW measures, NEW c, NEW n \in Nat, InfosOK(measures, c, n),
         NEW i \in DOMAIN measures, NEW j \in DOMAIN measures[i]
  PROVE  /\ InfoOK(measures[i][j], i, c, n)
         /\ measures[i][j].id \in 1 .. n /\ measures[i][j].id \in Nat \ {0}
         /\ IdToIndex(measures[i][j].descriptor.measure_id) + 1 = i
         /\ measures[i][j].num_consumers = c[measures[i][j].id]
         /\ c[measures[i][j].id] > 0
         /\ \A k \in DOMAIN measures[i] :
              Matches(measures[i][j], measures[i][k].descriptor)
                \/ measures[i][j].id = measures[i][k].id => j = k
<1>1. InfoOK(measures[i][j], i, c, n)
  BY DEF InfosOK
<1>2. measures[i][j].id \in 1 .. n
  BY <1>1, Zenon DEF InfoOK
<1>3. \A x \in 1 .. n : x \in Nat \ {0}
  OBVIOUS
<1>4. \A k \in DOMAIN measures[i] :
        Matches(measures[i][j], measures[i][k].descriptor)
          \/ measures[i][j].id = measures[i][k].id => j = k
  BY DEF InfosOK
<1>5. /\ IdToIndex(measures[i][j].descriptor.measure_id) + 1 = i
      /\ measures[i][j].num_consumers = c[measures[i][j].id]
      /\ c[measures[i][j].id] > 0
  BY <1>1, Zenon DEF InfoOK
<1> QED
  BY <1>1, <1>2, <1>3, <1>4, <1>5, Zenon

\* The ViewInformations of one measure are others, about one handle.
LEMMA InfosAfter ==
  ASSUME NEW measures \in Seq(Seq(ViewInformations)), NEW c, NEW n \in Nat,
         InfosOK(measures, c, n), NEW i \in DOMAIN measures, NEW V \in Seq(ViewInformations),
         NEW e, NEW m \in Nat, n <= m, NEW h \in Nat,
         h > n \/ \E k \in DOMAIN measures[i] : measures[i][k].id = h,
         SameBut(h, e, c),
         \A j \in DOMAIN V :
           V[j].id = h \/ \E k \in DOMAIN measures[i] : V[j].id = measures[i][k].id,
         \A j \in DOMAIN V :
           /\ InfoOK(V[j], i, e, m)
           /\ \A k \in DOMAIN V :
                Matches(V[j], V[k].descriptor) \/ V[j].id = V[k].id => j = k
  PROVE  InfosOK([measures EXCEPT ![i] = V], e, m)
<1> DEFINE M == [measures EXCEPT ![i] = V]
<1>1. /\ DOMAIN M = DOMAIN measures /\ M[i] = V
      /\ \A x \in DOMAIN measures : x # i => M[x] = measures[x]
  OBVIOUS
<1> HIDE DEF M
<1>2. ASSUME NEW x \in DOMAIN measures, x # i, NEW l \in DOMAIN measures[x]
      PROVE  /\ measures[x][l].id \in 1 .. n /\ measures[x][l].id # h
             /\ \A j \in DOMAIN V : V[j].id # measures[x][l].id
  <2>1. measures[x][l].id \in 1 .. n
    BY DEF InfosOK, InfoOK
  <2>2. \A k \in DOMAIN measures[i] : measures[i][k].id # measures[x][l].id
    BY <1>2 DEF InfosOK
  <2>3. measures[x][l].id # h
    BY <2>1, <2>2
  <2> QED
    BY <2>1, <2>2, <2>3
<1>3. ASSUME NEW x \in DOMAIN measures, x # i, NEW l \in DOMAIN measures[x]
      PROVE  /\ InfoOK(measures[x][l], x, e, m)
             /\ \A k \in DOMAIN measures[x] :
                  Matches(measures[x][l], measures[x][k].descriptor) => l = k
  <2> DEFINE info == measures[x][l]
  <2>1. info.id \in 1 .. n /\ info.id # h
    BY <1>2, <1>3
  <2>2. InfoOK(info, x, c, n)
    BY DEF InfosOK
  <2> HIDE DEF info
  <2> DEFINE id == info.id
  <2>3. id \in 1 .. m /\ id \in Nat \ {0} /\ id # h
    <3>1. id \in 1 .. n /\ id # h
      BY <2>1
    <3> HIDE DEF id
    <3> QED
      BY <3>1
  <2>5. info.id \in 1 .. m /\ e[info.id] = c[info.id]
    BY <2>3, Zenon DEF SameBut
  <2>4. InfoOK(info, x, e, m)
    BY <2>2, <2>5 DEF InfoOK
  <2> QED
    BY <2>4 DEF info, InfosOK
<1>4. \A x \in DOMAIN M : \A j \in DOMAIN M[x] :
        /\ InfoOK(M[x][j], x, e, m)
        /\ \A k \in DOMAIN M[x] : Matches(M[x][j], M[x][k].descriptor) => j = k
  <2> TAKE x \in DOMAIN M
  <2>1. CASE x = i
    BY <1>1, <2>1
  <2>2. CASE x # i
    <3>1. x \in DOMAIN measures /\ M[x] = measures[x]
      BY <1>1, <2>2
    <3> QED
      BY <1>3, <2>2, <3>1
  <2> QED
    BY <2>1, <2>2
<1>5. ASSUME NEW x \in DOMAIN M, NEW y \in DOMAIN M, NEW j \in DOMAIN M[x],
             NEW l \in DOMAIN M[y], M[x][j].id = M[y][l].id
      PROVE  x = y /\ j = l
  <2>1. CASE x = i /\ y = i
    BY <1>1, <1>5, <2>1
  <2>2. CASE x = i /\ y # i
    BY <1>1, <1>2, <1>5, <2>2
  <2>3. CASE x # i /\ y = i
    BY <1>1, <1>2, <1>5, <2>3
  <2>4. CASE x # i /\ y # i
    <3>1. M[x] = measures[x] /\ M[y] = measures[y]
      BY <1>1, <2>4
    <3> QED
      BY <1>1, <1>5, <3>1 DEF InfosOK
  <2> QED
    BY <2>1, <2>2, <2>3, <2>4
<1>6. InfosOK(M, e, m)
  BY <1>4, <1>5 DEF InfosOK
<1> QED
  BY <1>6 DEF M

\* The index of a valid id of a registered measure has its ViewInformations.
LEMMA IndexIs ==
  ASSUME RegistrationTypeOK, NamesOK, NEW name \in DOMAIN id_map_
  PROVE  /\ IdToIndex(id_map_[name]) + 1 \in DOMAIN measures_
         /\ IdValid(id_map_[name])
         /\ \A other \in DOMAIN id_map_ :
              IdToIndex(id_map_[other]) = IdToIndex(id_map_[name]) => other = name
<1> DEFINE id == id_map_[name]
<1>1. IdToIndex(id) \in 0 .. Len(registered_descriptors_) - 1 /\ IdValid(id)
  BY NameIs
<1>2. measures_ \in Seq(Seq(ViewInformations))
  BY DEF RegistrationTypeOK
<1>3. DOMAIN measures_ = 1 .. Len(registered_descriptors_)
  BY <1>2 DEF NamesOK
<1>4. Len(registered_descriptors_) \in Nat
  BY ElementsTyped
<1>5. \A other \in DOMAIN id_map_ :
        IdToIndex(id_map_[other]) = IdToIndex(id_map_[name]) => other = name
  BY NameIs DEF AtIndex
<1> QED
  BY <1>1, <1>3, <1>4, <1>5

\* All that match a descriptor are one.
LEMMA OneMatches ==
  ASSUME NEW infos, NEW d, NEW j \in DOMAIN infos, NEW k \in DOMAIN infos,
         Matches(infos[j], d), Matches(infos[k], d)
  PROVE  Matches(infos[j], infos[k].descriptor)
  BY DEF Matches

\* The first of one position.
LEMMA SmallestOfOne == ASSUME NEW j \in Nat PROVE Min({j}) = j
<1>1. j \in {j} /\ \A y \in {j} : j <= y
  OBVIOUS
<1>2. ASSUME NEW x \in {j} PROVE x = j
  OBVIOUS
<1> QED
  BY <1>1, <1>2 DEF Min

\* AddConsumer finds the one ViewInformation that matches, or makes one, and counts one
\* consumer more in it.
LEMMA ConsumerAdded ==
  ASSUME RegistrationTypeOK, NamesOK, InfosKnown(measures_),
         NEW c \in Counts, InfosOK(measures_, c, made), NoneAfter(c, made),
         NEW d \in ViewDescriptors, HasMeasure(d), DescriptorOK(d), IdValid(d.measure_id),
         NEW added, added = AddConsumer(d)
  PROVE  /\ added.measures \in Seq(Seq(ViewInformations))
         /\ Len(added.measures) = Len(measures_)
         /\ added.handle \in 1 .. made + 1
         /\ InfosOK(added.measures, AddTo(c, added.handle), made + 1)
         /\ InfosKnown(added.measures)
         /\ ViewOf(added.measures, [descriptor |-> d, handle |-> added.handle])
         /\ Kept(measures_, added.measures, c)
<1> DEFINE i == IdToIndex(d.measure_id) + 1  infos == measures_[i]
           found == {j \in DOMAIN infos : Matches(infos[j], d)}
           new == NewViewInformation(d)
<1>1. d.measure_name \in DOMAIN id_map_ /\ d.measure_id = id_map_[d.measure_name]
  BY DEF DescriptorOK
<1>2. i \in DOMAIN measures_
  BY <1>1, IndexIs
<1>3. measures_ \in Seq(Seq(ViewInformations)) /\ made \in Nat
  BY DEF RegistrationTypeOK
<1>a. infos = measures_[i] /\ i = IdToIndex(d.measure_id) + 1
  OBVIOUS
<1>b. added = LET consumed == Consumed(infos, d) IN
        [measures |-> [measures_ EXCEPT ![i] = consumed.views], handle |-> consumed.handle]
  BY DEF AddConsumer
<1> HIDE DEF infos, i, new
<1>4. /\ infos \in Seq(ViewInformations)
      /\ \A j \in DOMAIN infos : j \in Nat /\ infos[j] \in ViewInformations
  BY <1>2, <1>3, <1>a, InfosTyped
<1>5. \A j \in DOMAIN infos :
        /\ InfoOK(infos[j], i, c, made)
        /\ infos[j].descriptor.measure_id = d.measure_id
        /\ infos[j].id # made + 1 /\ infos[j].id \in 1 .. made
        /\ \A k \in DOMAIN infos :
             Matches(infos[j], infos[k].descriptor) \/ infos[j].id = infos[k].id => j = k
  <2> TAKE j \in DOMAIN infos
  <2>1. /\ InfoOK(infos[j], i, c, made)
        /\ infos[j].id \in 1 .. made
        /\ IdToIndex(infos[j].descriptor.measure_id) + 1 = i
        /\ \A k \in DOMAIN infos :
             Matches(infos[j], infos[k].descriptor) \/ infos[j].id = infos[k].id => j = k
    BY <1>2, <1>3, <1>a, InfosAt
  <2>2. PICK name \in DOMAIN id_map_ : infos[j].descriptor.measure_id = id_map_[name]
    BY <1>2, <1>a DEF InfosKnown
  <2>3. /\ IdToIndex(infos[j].descriptor.measure_id) + 1 = IdToIndex(d.measure_id) + 1
        /\ infos[j].id \in 1 .. made
    BY <2>1, <1>a
  <2>4. name = d.measure_name
    <3>1. /\ IdToIndex(id_map_[name]) \in 0 .. Len(registered_descriptors_) - 1
          /\ IdToIndex(id_map_[d.measure_name]) \in 0 .. Len(registered_descriptors_) - 1
      BY <1>1, NameIs
    <3>2. IdToIndex(id_map_[name]) = IdToIndex(id_map_[d.measure_name])
      BY <1>1, <2>2, <2>3, <3>1
    <3> QED
      BY <1>1, <3>2, IndexIs
  <2>5. infos[j].id # made + 1
    BY <1>3, <2>3
  <2> QED
    BY <1>1, <2>1, <2>2, <2>3, <2>4, <2>5
<1>6. /\ new.id = made + 1 /\ new.descriptor = d /\ new.num_consumers = 1
      /\ new.type = TypeOfData(d) /\ new \in ViewInformations
  <2>1. DataType(d) = TypeOfData(d)
    BY DataTypeIs
  <2>2. new = [id |-> made + 1, descriptor |-> d, type |-> TypeOfData(d), num_consumers |-> 1]
    BY <2>1, Zenon DEF NewViewInformation, new
  <2>3. made + 1 \in Nat /\ 1 \in Nat
    BY <1>3
  <2> QED
    BY <2>2, <2>3 DEF ViewInformations
<1>7. added = LET consumed == Consumed(infos, d) IN
        [measures |-> [measures_ EXCEPT ![i] = consumed.views], handle |-> consumed.handle]
  BY <1>b
<1>8. \A x \in DOMAIN measures_ : \A j \in DOMAIN measures_[x] :
        \E name \in DOMAIN id_map_ : measures_[x][j].descriptor.measure_id = id_map_[name]
  BY DEF InfosKnown
<1>9. ASSUME NEW V \in Seq(ViewInformations), NEW h \in 1 .. made + 1,
             added.measures = [measures_ EXCEPT ![i] = V], added.handle = h,
             h = made + 1 \/ \E k \in DOMAIN infos : infos[k].id = h,
             \A j \in DOMAIN V :
               /\ InfoOK(V[j], i, AddTo(c, h), made + 1)
               /\ V[j].descriptor.measure_id = d.measure_id
               /\ V[j].id = h \/ \E k \in DOMAIN infos : V[j].id = infos[k].id
               /\ \A k \in DOMAIN V :
                    Matches(V[j], V[k].descriptor) \/ V[j].id = V[k].id => j = k,
             \E j \in DOMAIN V : V[j].id = h /\ Matches(V[j], d),
             \A j \in DOMAIN infos : \E l \in DOMAIN V :
               V[l].id = infos[j].id /\ V[l].descriptor = infos[j].descriptor
      PROVE  /\ added.measures \in Seq(Seq(ViewInformations))
             /\ Len(added.measures) = Len(measures_)
             /\ added.handle \in 1 .. made + 1
             /\ InfosOK(added.measures, AddTo(c, added.handle), made + 1)
             /\ InfosKnown(added.measures)
             /\ ViewOf(added.measures, [descriptor |-> d, handle |-> added.handle])
             /\ Kept(measures_, added.measures, c)
  <2> DEFINE M == added.measures  e == AddTo(c, h)
  <2>1. /\ M \in Seq(Seq(ViewInformations)) /\ Len(M) = Len(measures_)
        /\ DOMAIN M = DOMAIN measures_ /\ M[i] = V
        /\ \A x \in DOMAIN measures_ : x # i => M[x] = measures_[x]
    BY <1>2, <1>3, <1>9, Replaced
  <2>2. InfosOK(M, e, made + 1)
    <3>1. h \in Nat /\ made + 1 \in Nat /\ made <= made + 1
          /\ (h > made \/ \E k \in DOMAIN infos : infos[k].id = h)
      BY <1>3, <1>9
    <3>2. SameBut(h, e, c)
      BY DEF AddTo, SameBut, Counts
    <3> HIDE DEF e, infos, i
    <3>3. InfosOK([measures_ EXCEPT ![i] = V], e, made + 1)
      <4>1. \A j \in DOMAIN V :
              /\ V[j].id = h \/ \E k \in DOMAIN measures_[i] : V[j].id = measures_[i][k].id
              /\ InfoOK(V[j], i, e, made + 1)
              /\ \A k \in DOMAIN V :
                    Matches(V[j], V[k].descriptor) \/ V[j].id = V[k].id => j = k
        BY <1>9 DEF infos, e
      <4>2. h > made \/ \E k \in DOMAIN measures_[i] : measures_[i][k].id = h
        BY <3>1 DEF infos
      <4> QED
        BY <1>2, <1>3, <3>1, <3>2, <4>1, <4>2, InfosAfter
    <3> QED
      BY <1>9, <3>3 DEF e
  <2> HIDE DEF M
  <2>3. InfosKnown(M)
    <3>1. ASSUME NEW x \in DOMAIN M, NEW j \in DOMAIN M[x]
          PROVE  \E name \in DOMAIN id_map_ : M[x][j].descriptor.measure_id = id_map_[name]
      <4>1. CASE x = i
        BY <1>1, <1>9, <2>1, <4>1, ZenonT(40)
      <4>2. CASE x # i
        <5>1. x \in DOMAIN measures_ /\ M[x] = measures_[x]
          BY <2>1, <4>2, Zenon
        <5>2. j \in DOMAIN measures_[x] /\ M[x][j] = measures_[x][j]
          BY <5>1, Zenon
        <5> QED
          BY <1>8, <5>1, <5>2, Zenon
      <4> QED
        BY <4>1, <4>2
    <3> QED
      BY <3>1 DEF InfosKnown
  <2>4. ViewOf(M, [descriptor |-> d, handle |-> h])
    <3>1. h # Null
      BY <1>3, <1>9 DEF Null
    <3> DEFINE view == [descriptor |-> d, handle |-> h]
    <3>2. view.descriptor = d /\ view.handle = h
      OBVIOUS
    <3>3. PICK j \in DOMAIN V : V[j].id = h /\ Matches(V[j], d)
      BY <1>9
    <3>4. V[j].descriptor.measure_id = d.measure_id
      BY <1>9
    <3>5. j \in DOMAIN M[IdToIndex(d.measure_id) + 1] /\ M[IdToIndex(d.measure_id) + 1][j] = V[j]
      BY <1>a, <2>1
    <3> HIDE DEF view
    <3>6. ViewOf(M, view)
      BY <3>1, <3>2, <3>3, <3>4, <3>5, Zenon DEF ViewOf
    <3> QED
      BY <3>6 DEF view
  <2>5. Kept(measures_, M, c)
    <3>1. ASSUME NEW x \in DOMAIN measures_, NEW j \in DOMAIN measures_[x]
          PROVE  \E l \in DOMAIN M[x] : M[x][l].id = measures_[x][j].id
                   /\ M[x][l].descriptor = measures_[x][j].descriptor
      <4>1. CASE x = i
        BY <1>9, <1>a, <2>1, <4>1
      <4>2. CASE x # i
        BY <2>1, <4>2
      <4> QED
        BY <4>1, <4>2
    <3> QED
      BY <3>1 DEF Kept
  <2>6. M = added.measures
    BY DEF M
  <2> QED
    BY <1>9, <2>1, <2>2, <2>3, <2>4, <2>5, <2>6, Zenon
<1>10. CASE found = {}
  <2> DEFINE V == Append(infos, new)  h == made + 1
  <2>1. added.measures = [measures_ EXCEPT ![i] = V] /\ added.handle = h
    <3>1. Consumed(infos, d) = [views |-> V, handle |-> h]
      BY <1>10, Zenon DEF Consumed, found, new
    <3> HIDE DEF V, h
    <3> QED
      BY <1>7, <3>1
  <2>2. /\ V \in Seq(ViewInformations) /\ V[Len(infos) + 1] = new
        /\ DOMAIN V = 1 .. Len(infos) + 1 /\ DOMAIN infos = 1 .. Len(infos)
        /\ Len(infos) \in Nat
        /\ \A j \in DOMAIN infos : j \in DOMAIN V /\ V[j] = infos[j] /\ j # Len(infos) + 1
    <3> HIDE DEF infos, new
    <3> QED
      BY <1>4, <1>6, Appended
  <2>3. \A j \in DOMAIN V : j \notin DOMAIN infos => j = Len(infos) + 1
    BY <2>2
  <2>4. h \in 1 .. made + 1 /\ c[h] = 0 /\ AddTo(c, h)[h] = 1
        /\ \A x \in Nat \ {0} : x # h => AddTo(c, h)[x] = c[x]
    BY <1>3 DEF AddTo, Counts, NoneAfter
  <2>5. InfoOK(new, i, AddTo(c, h), made + 1)
    <3>1. IdToIndex(new.descriptor.measure_id) + 1 = i
      BY <1>6, <1>a
    <3>2. new.id \in 1 .. made + 1 /\ AddTo(c, h)[new.id] = 1 /\ new.num_consumers = 1 /\ 1 > 0
      BY <1>3, <1>6, <2>4
    <3>3. new.type = TypeOfData(new.descriptor)
      BY <1>6
    <3> HIDE DEF h
    <3> QED
      BY <3>1, <3>2, <3>3, Zenon DEF InfoOK
  <2>6. \A j \in DOMAIN infos : InfoOK(infos[j], i, AddTo(c, h), made + 1)
    <3> TAKE j \in DOMAIN infos
    <3> DEFINE info == infos[j]
    <3>1. InfoOK(info, i, c, made) /\ info.id \in 1 .. made /\ info.id # h
      BY <1>5
    <3> HIDE DEF info, h
    <3>2. AddTo(c, h)[info.id] = c[info.id] /\ info.id \in 1 .. made + 1
      BY <1>3, <2>4, <3>1
    <3>3. InfoOK(info, i, AddTo(c, h), made + 1)
      BY <3>1, <3>2 DEF InfoOK
    <3> QED
      BY <3>3 DEF info
  <2>7. \A j \in DOMAIN infos : ~ Matches(infos[j], d)
    BY <1>10
  <2>8. \A j \in DOMAIN infos : ~ Matches(new, infos[j].descriptor)
    BY <1>6, <2>7 DEF Matches
  <2> HIDE DEF V, infos, new, found, h
  <2>9. \A j \in DOMAIN V :
          /\ InfoOK(V[j], i, AddTo(c, h), made + 1)
          /\ V[j].descriptor.measure_id = d.measure_id
          /\ V[j].id = h \/ \E k \in DOMAIN infos : V[j].id = infos[k].id
    BY <1>5, <1>6, <2>2, <2>3, <2>5, <2>6 DEF h
  <2>10. \A j \in DOMAIN V, k \in DOMAIN V :
           Matches(V[j], V[k].descriptor) \/ V[j].id = V[k].id => j = k
    <3> TAKE j \in DOMAIN V, k \in DOMAIN V
    <3>1. CASE j \in DOMAIN infos /\ k \in DOMAIN infos
      BY <1>5, <2>2, <3>1
    <3>2. CASE j \in DOMAIN infos /\ k \notin DOMAIN infos
      <4>1. V[k] = new /\ V[j] = infos[j] /\ infos[j].id # made + 1
        BY <1>5, <2>2, <2>3, <3>2
      <4> QED
        BY <1>6, <2>7, <3>2, <4>1
    <3>3. CASE j \notin DOMAIN infos /\ k \in DOMAIN infos
      <4>1. V[j] = new /\ V[k] = infos[k] /\ infos[k].id # made + 1
        BY <1>5, <2>2, <2>3, <3>3
      <4> QED
        BY <1>6, <2>8, <3>3, <4>1
    <3>4. CASE j \notin DOMAIN infos /\ k \notin DOMAIN infos
      BY <2>3, <3>4
    <3> QED
      BY <3>1, <3>2, <3>3, <3>4
  <2>11. \E j \in DOMAIN V : V[j].id = h /\ Matches(V[j], d)
    <3>1. Len(infos) + 1 \in DOMAIN V /\ Matches(new, d)
      BY <1>6, <2>2 DEF Matches
    <3> QED
      BY <1>6, <2>2, <3>1 DEF h
  <2>12. \A j \in DOMAIN infos : \E l \in DOMAIN V :
           V[l].id = infos[j].id /\ V[l].descriptor = infos[j].descriptor
    BY <2>2
  <2>13. h = made + 1
    BY DEF h
  <2> QED
    <3>1. \A j \in DOMAIN V :
            /\ InfoOK(V[j], i, AddTo(c, h), made + 1)
            /\ V[j].descriptor.measure_id = d.measure_id
            /\ V[j].id = h \/ \E k \in DOMAIN infos : V[j].id = infos[k].id
            /\ \A k \in DOMAIN V :
                 Matches(V[j], V[k].descriptor) \/ V[j].id = V[k].id => j = k
      BY <2>9, <2>10, Zenon
    <3>2. h \in 1 .. made + 1 /\ V \in Seq(ViewInformations)
      BY <2>2, <2>4
    <3> QED
      BY <1>9, <2>1, <2>11, <2>12, <2>13, <3>1, <3>2, Zenon
<1>11. CASE found # {}
  <2>1. PICK j \in DOMAIN infos : Matches(infos[j], d)
    BY <1>11
  <2>2. found = {j} /\ j \in Nat
    BY <1>4, <1>5, <2>1, OneMatches
  <2> DEFINE old == infos[j]  h == old.id
             info == [old EXCEPT !.num_consumers = @ + 1]
             V == [infos EXCEPT ![j] = info]
  <2>3. added.measures = [measures_ EXCEPT ![i] = V] /\ added.handle = h
    <3>1. Min(found) = j
      BY <2>2, SmallestOfOne
    <3>2. Consumed(infos, d) = [views |-> V, handle |-> h]
      BY <1>11, <3>1, Zenon DEF Consumed, found
    <3> HIDE DEF V, h
    <3> QED
      BY <1>7, <3>2
  <2>4. old \in ViewInformations /\ h \in 1 .. made /\ h \in 1 .. made + 1
        /\ old.num_consumers \in Nat
    BY <1>3, <1>4, <1>5 DEF ViewInformations
  <2>5. /\ info \in ViewInformations /\ info.id = h /\ info.descriptor = old.descriptor
        /\ info.num_consumers = old.num_consumers + 1 /\ info.type = old.type
    BY <2>4 DEF ViewInformations
  <2>6. /\ V \in Seq(ViewInformations) /\ DOMAIN V = DOMAIN infos
        /\ \A k \in DOMAIN infos : V[k] = IF k = j THEN info ELSE infos[k]
    <3> HIDE DEF infos, info
    <3> QED
      BY <1>4, <2>5, Replaced
  <2>7. c[h] \in Nat /\ AddTo(c, h)[h] = c[h] + 1
        /\ \A x \in Nat \ {0} : x # h => AddTo(c, h)[x] = c[x]
    BY <1>3, <2>4 DEF AddTo, Counts
  <2>8. InfoOK(info, i, AddTo(c, h), made + 1)
    <3>1. InfoOK(old, i, c, made)
      BY <1>5
    <3> HIDE DEF old, info
    <3> QED
      BY <2>4, <2>5, <2>7, <3>1 DEF InfoOK
  <2>9. \A k \in DOMAIN infos : k # j => InfoOK(infos[k], i, AddTo(c, h), made + 1)
    <3> SUFFICES ASSUME NEW k \in DOMAIN infos, k # j
                 PROVE  InfoOK(infos[k], i, AddTo(c, h), made + 1)
      OBVIOUS
    <3> DEFINE other == infos[k]
    <3>1. InfoOK(other, i, c, made) /\ other.id \in 1 .. made /\ other.id # h
      BY <1>5
    <3> HIDE DEF other, h
    <3>2. AddTo(c, h)[other.id] = c[other.id] /\ other.id \in 1 .. made + 1
      BY <1>3, <2>7, <3>1
    <3>3. InfoOK(other, i, AddTo(c, h), made + 1)
      BY <3>1, <3>2 DEF InfoOK
    <3> QED
      BY <3>3 DEF other
  <2>10. \A k \in DOMAIN infos : V[k].id = infos[k].id /\ V[k].descriptor = infos[k].descriptor
    BY <2>5, <2>6
  <2>11. \A k \in DOMAIN infos, l \in DOMAIN infos :
           Matches(V[k], V[l].descriptor) <=> Matches(infos[k], infos[l].descriptor)
    BY <2>10 DEF Matches
  <2>12. Matches(V[j], d)
    BY <2>1, <2>10 DEF Matches
  <2>13. V[j].id = h /\ infos[j].id = h
    BY <2>10
  <2> HIDE DEF V, infos, info, found, h, old
  <2>14. \A k \in DOMAIN V :
          /\ InfoOK(V[k], i, AddTo(c, h), made + 1)
          /\ V[k].descriptor.measure_id = d.measure_id
          /\ V[k].id = h \/ \E l \in DOMAIN infos : V[k].id = infos[l].id
          /\ \A l \in DOMAIN V :
               Matches(V[k], V[l].descriptor) \/ V[k].id = V[l].id => k = l
    <3> TAKE k \in DOMAIN V
    <3>1. k \in DOMAIN infos
      BY <2>6
    <3>2. InfoOK(V[k], i, AddTo(c, h), made + 1)
      BY <2>6, <2>8, <2>9, <3>1
    <3>3. V[k].descriptor.measure_id = d.measure_id
      BY <1>5, <2>10, <3>1
    <3>4. \A l \in DOMAIN V :
            Matches(V[k], V[l].descriptor) \/ V[k].id = V[l].id => k = l
      BY <1>5, <2>6, <2>10, <2>11, <3>1
    <3> QED
      BY <2>10, <3>1, <3>2, <3>3, <3>4
  <2>15. \A k \in DOMAIN infos : \E l \in DOMAIN V :
           V[l].id = infos[k].id /\ V[l].descriptor = infos[k].descriptor
    BY <2>6, <2>10
  <2>16. j \in DOMAIN V
    BY <2>6
  <2> QED
    <3>1. h \in 1 .. made + 1 /\ V \in Seq(ViewInformations)
      BY <2>4, <2>6
    <3>2. \E k \in DOMAIN infos : infos[k].id = h
      BY <2>13
    <3>3. \E k \in DOMAIN V : V[k].id = h /\ Matches(V[k], d)
      BY <2>12, <2>13, <2>16
    <3> QED
      BY <1>9, <2>3, <2>14, <2>15, <3>1, <3>2, <3>3, Zenon
<1> QED
  BY <1>10, <1>11

\* What is so of each ViewInformation of one measure.
InfosEach(measures, c, n, i) ==
  \A k \in DOMAIN measures[i] :
    /\ InfoOK(measures[i][k], i, c, n)
    /\ measures[i][k].id \in 1 .. n /\ measures[i][k].id \in Nat \ {0}
    /\ IdToIndex(measures[i][k].descriptor.measure_id) + 1 = i
    /\ measures[i][k].num_consumers = c[measures[i][k].id]
    /\ c[measures[i][k].id] > 0
    /\ \A l \in DOMAIN measures[i] :
         Matches(measures[i][k], measures[i][l].descriptor)
           \/ measures[i][k].id = measures[i][l].id => k = l

\* What InfosAt says of one ViewInformation, of all those of a measure.
LEMMA AllInfosAt ==
  ASSUME NEW measures, NEW c, NEW n \in Nat, InfosOK(measures, c, n),
         NEW i \in DOMAIN measures
  PROVE  InfosEach(measures, c, n, i)
<1> USE DEF InfosEach
<1> TAKE k \in DOMAIN measures[i]
<1>1. InfoOK(measures[i][k], i, c, n)
  BY DEF InfosOK
<1>2. measures[i][k].id \in 1 .. n
  BY <1>1, Zenon DEF InfoOK
<1>3. \A x \in 1 .. n : x \in Nat \ {0}
  OBVIOUS
<1>4. \A l \in DOMAIN measures[i] :
        Matches(measures[i][k], measures[i][l].descriptor)
          \/ measures[i][k].id = measures[i][l].id => k = l
  BY DEF InfosOK
<1>5. /\ IdToIndex(measures[i][k].descriptor.measure_id) + 1 = i
      /\ measures[i][k].num_consumers = c[measures[i][k].id]
      /\ c[measures[i][k].id] > 0
  BY <1>1, Zenon DEF InfoOK
<1> QED
  BY <1>1, <1>2, <1>3, <1>4, <1>5, Zenon

\* RemoveConsumer finds the ViewInformation of a handle under its measure, and counts one
\* consumer less in it or erases it.
LEMMA ConsumerRemoved ==
  ASSUME NEW measures \in Seq(Seq(ViewInformations)), NEW c \in Counts, NEW n \in Nat,
         InfosOK(measures, c, n), NEW i \in DOMAIN measures, NEW j \in DOMAIN measures[i],
         NEW h, h = measures[i][j].id
  PROVE  /\ RemoveConsumer(measures, h) \in Seq(Seq(ViewInformations))
         /\ Len(RemoveConsumer(measures, h)) = Len(measures)
         /\ InfosOK(RemoveConsumer(measures, h), TakeFrom(c, h), n)
         /\ InfosKnown(measures) => InfosKnown(RemoveConsumer(measures, h))
         /\ Kept(measures, RemoveConsumer(measures, h), TakeFrom(c, h))
<1> DEFINE infos == measures[i]  info == infos[j]  e == TakeFrom(c, h)
           all == UNION {{x} \X DOMAIN measures[x] : x \in DOMAIN measures}
           at == CHOOSE p \in all : measures[p[1]][p[2]].id = h
           found == {k \in DOMAIN infos : infos[k].id = h}
           after == RemoveConsumer(measures, h)
<1>1. /\ infos \in Seq(ViewInformations)
      /\ \A k \in DOMAIN infos : k \in Nat /\ infos[k] \in ViewInformations
  BY InfosTyped
<1>2. at = <<i, j>>
  <2>1. <<i, j>> \in all /\ measures[<<i, j>>[1]][<<i, j>>[2]].id = h
    OBVIOUS
  <2>2. ASSUME NEW p \in all, measures[p[1]][p[2]].id = h PROVE p = <<i, j>>
    <3>1. PICK x \in DOMAIN measures : p \in {x} \X DOMAIN measures[x]
      OBVIOUS
    <3>2. PICK y \in DOMAIN measures[x] : p = <<x, y>>
      BY <3>1
    <3>3. measures[x][y].id = measures[i][j].id
      BY <2>2, <3>2
    <3>4. x = i /\ y = j
      BY <3>3 DEF InfosOK
    <3> QED
      BY <3>2, <3>4
  <2> HIDE DEF all
  <2> QED
    BY <2>1, <2>2
<1>3. \A k \in DOMAIN infos :
        /\ InfoOK(infos[k], i, c, n)
        /\ infos[k].id \in 1 .. n /\ infos[k].id \in Nat \ {0}
        /\ IdToIndex(infos[k].descriptor.measure_id) + 1 = i
        /\ infos[k].num_consumers = c[infos[k].id] /\ c[infos[k].id] > 0
        /\ \A l \in DOMAIN infos :
             Matches(infos[k], infos[l].descriptor) \/ infos[k].id = infos[l].id => k = l
  <2>1. InfosEach(measures, c, n, i)
    BY AllInfosAt, Zenon
  <2> QED
    BY <2>1, Zenon DEF InfosEach
<1>4. /\ h \in Nat \ {0} /\ h \in Nat /\ c[h] \in Nat /\ c[h] > 0
      /\ info.num_consumers = c[h] /\ info \in ViewInformations
      /\ IdToIndex(info.descriptor.measure_id) + 1 = i
  <2>1. h \in Nat \ {0} /\ c[h] > 0
    BY <1>3
  <2> QED
    BY <1>1, <1>3, <2>1 DEF Counts
<1>5. e[h] = c[h] - 1 /\ SameBut(h, e, c)
  BY <1>4 DEF TakeFrom, SameBut, Counts
<1>6. h # Null
  BY <1>4 DEF Null
<1>7. after = IF info.num_consumers = 1
              THEN [measures EXCEPT ![i] = RemoveView(infos, h)]
              ELSE [measures EXCEPT ![i] = [infos EXCEPT ![j].num_consumers = @ - 1]]
  <2> HIDE DEF at
  <2>1. measures[at[1]][at[2]] = info /\ at[1] = i /\ at[2] = j
    BY <1>2
  <2> HIDE DEF at, all
  <2>3. RemoveConsumer(measures, h) =
          IF measures[at[1]][at[2]].num_consumers = 1
          THEN [measures EXCEPT ![IdToIndex(measures[at[1]][at[2]].descriptor.measure_id) + 1] =
                  RemoveView(@, h)]
          ELSE [measures EXCEPT ![at[1]][at[2]].num_consumers = @ - 1]
    BY <1>6, Zenon DEF RemoveConsumer, at, all
  <2> HIDE DEF info, infos
  <2>2. RemoveConsumer(measures, h) =
          IF info.num_consumers = 1
          THEN [measures EXCEPT ![IdToIndex(info.descriptor.measure_id) + 1] = RemoveView(@, h)]
          ELSE [measures EXCEPT ![i][j].num_consumers = @ - 1]
    BY <2>1, <2>3
  <2> QED
    BY <1>4, <2>2 DEF info, infos
<1> HIDE DEF at, all, after
<1>8. ASSUME NEW V \in Seq(ViewInformations), after = [measures EXCEPT ![i] = V],
             \A k \in DOMAIN V :
               /\ InfoOK(V[k], i, e, n)
               /\ \E l \in DOMAIN infos :
                    V[k].id = infos[l].id /\ V[k].descriptor = infos[l].descriptor
               /\ \A l \in DOMAIN V :
                    Matches(V[k], V[l].descriptor) \/ V[k].id = V[l].id => k = l,
             \A k \in DOMAIN infos : e[infos[k].id] > 0 => \E l \in DOMAIN V :
               V[l].id = infos[k].id /\ V[l].descriptor = infos[k].descriptor
      PROVE  /\ after \in Seq(Seq(ViewInformations)) /\ Len(after) = Len(measures)
             /\ InfosOK(after, e, n)
             /\ InfosKnown(measures) => InfosKnown(after)
             /\ Kept(measures, after, e)
  <2>1. /\ after \in Seq(Seq(ViewInformations)) /\ Len(after) = Len(measures)
        /\ DOMAIN after = DOMAIN measures /\ after[i] = V
        /\ \A x \in DOMAIN measures : x # i => after[x] = measures[x]
    BY <1>8, Replaced
  <2>2. InfosOK(after, e, n)
    <3>1. \A k \in DOMAIN V :
            /\ V[k].id = h \/ \E l \in DOMAIN measures[i] : V[k].id = measures[i][l].id
            /\ InfoOK(V[k], i, e, n)
            /\ \A l \in DOMAIN V :
                 Matches(V[k], V[l].descriptor) \/ V[k].id = V[l].id => k = l
      BY <1>8
    <3>2. h > n \/ \E k \in DOMAIN measures[i] : measures[i][k].id = h
      OBVIOUS
    <3>3. n <= n
      OBVIOUS
    <3> HIDE DEF e, infos, info
    <3>4. InfosOK([measures EXCEPT ![i] = V], e, n)
      <4>1. \A k \in DOMAIN V :
              V[k].id = h \/ \E l \in DOMAIN measures[i] : V[k].id = measures[i][l].id
        BY <3>1
      <4>2. \A k \in DOMAIN V :
              /\ InfoOK(V[k], i, e, n)
              /\ \A l \in DOMAIN V :
                   Matches(V[k], V[l].descriptor) \/ V[k].id = V[l].id => k = l
        BY <3>1
      <4> QED
        <5>1. ASSUME NEW q \in Nat, SameBut(q, e, c),
                     q > n \/ \E k \in DOMAIN measures[i] : measures[i][k].id = q,
                     \A k \in DOMAIN V :
                       V[k].id = q \/ \E l \in DOMAIN measures[i] : V[k].id = measures[i][l].id
              PROVE  InfosOK([measures EXCEPT ![i] = V], e, n)
          BY <3>3, <4>2, <5>1, InfosAfter
        <5>2. h \in Nat /\ SameBut(h, e, c)
          BY <1>4, <1>5
        <5> HIDE DEF found
        <5> QED
          BY <3>2, <4>1, <5>1, <5>2
    <3> QED
      BY <1>8, <3>4
  <2>3. InfosKnown(measures) => InfosKnown(after)
    <3> SUFFICES ASSUME InfosKnown(measures), NEW x \in DOMAIN after, NEW k \in DOMAIN after[x]
                 PROVE  \E name \in DOMAIN id_map_ :
                          after[x][k].descriptor.measure_id = id_map_[name]
      BY DEF InfosKnown
    <3>1. PICK l \in DOMAIN measures[x] : after[x][k].descriptor = measures[x][l].descriptor
      <4>1. CASE x = i
        BY <1>8, <2>1, <4>1
      <4>2. CASE x # i
        BY <2>1, <4>2
      <4> QED
        BY <4>1, <4>2
    <3>2. x \in DOMAIN measures
      BY <2>1
    <3> QED
      BY <3>1, <3>2 DEF InfosKnown
  <2>4. Kept(measures, after, e)
    <3>1. ASSUME NEW x \in DOMAIN measures, NEW k \in DOMAIN measures[x],
                 e[measures[x][k].id] > 0
          PROVE  \E l \in DOMAIN after[x] : after[x][l].id = measures[x][k].id
                   /\ after[x][l].descriptor = measures[x][k].descriptor
      <4>1. CASE x = i
        BY <1>8, <2>1, <3>1, <4>1
      <4>2. CASE x # i
        BY <2>1, <4>2
      <4> QED
        BY <4>1, <4>2
    <3> HIDE DEF e
    <3> QED
      BY <3>1 DEF Kept
  <2> QED
    BY <2>1, <2>2, <2>3, <2>4
\* The others are as they were.
<1>9. ASSUME NEW k \in DOMAIN infos, k # j
      PROVE  infos[k].id # h /\ InfoOK(infos[k], i, e, n)
  <2> DEFINE other == infos[k]
  <2>1. other.id # h /\ InfoOK(other, i, c, n) /\ other.id \in Nat \ {0}
    BY <1>3, <1>9
  <2> HIDE DEF other, e
  <2>2. e[other.id] = c[other.id]
    BY <1>5, <2>1, Zenon DEF SameBut
  <2>3. InfoOK(other, i, e, n)
    BY <2>1, <2>2, Zenon DEF InfoOK
  <2> QED
    BY <2>1, <2>3 DEF other
<1>10. CASE info.num_consumers = 1
  <2> DEFINE V == RemoveAt(infos, j)
  <2>1. found = {j} /\ j \in Nat
    BY <1>1, <1>3
  <2>2. RemoveView(infos, h) = V
    <3>1. Min(found) = j
      BY <2>1, SmallestOfOne
    <3> QED
      BY <2>1, <3>1 DEF RemoveView
  <2>3. after = [measures EXCEPT ![i] = V]
    BY <1>7, <1>10, <2>2
  <2> HIDE DEF infos
  <2>4. /\ V \in Seq(ViewInformations)
        /\ \A k \in DOMAIN V : \E l \in DOMAIN infos :
             /\ l # j /\ l = (IF k < j THEN k ELSE k + 1) /\ V[k] = infos[l]
        /\ \A k \in DOMAIN infos : k # j =>
             LET l == IF k < j THEN k ELSE k - 1 IN l \in DOMAIN V /\ V[l] = infos[k]
    BY <1>1, Removed DEF infos
  <2> HIDE DEF V
  <2>5. \A k \in DOMAIN V : k \in Nat
    BY <2>4
  <2>6. \A k \in DOMAIN V :
          /\ InfoOK(V[k], i, e, n)
          /\ \E l \in DOMAIN infos :
               V[k].id = infos[l].id /\ V[k].descriptor = infos[l].descriptor
          /\ \A l \in DOMAIN V :
               Matches(V[k], V[l].descriptor) \/ V[k].id = V[l].id => k = l
    <3> TAKE k \in DOMAIN V
    <3>1. PICK x \in DOMAIN infos :
            x # j /\ x = (IF k < j THEN k ELSE k + 1) /\ V[k] = infos[x]
      BY <2>4
    <3>2. InfoOK(V[k], i, e, n)
      BY <1>9, <3>1 DEF infos
    <3>3. ASSUME NEW l \in DOMAIN V, Matches(V[k], V[l].descriptor) \/ V[k].id = V[l].id
          PROVE  k = l
      <4>1. PICK y \in DOMAIN infos :
              y # j /\ y = (IF l < j THEN l ELSE l + 1) /\ V[l] = infos[y]
        BY <2>4
      <4>2. x = y
        BY <1>3, <3>1, <3>3, <4>1 DEF infos
      <4>3. k \in Nat /\ l \in Nat /\ j \in Nat
        BY <2>1, <2>5
      <4> QED
        BY <3>1, <4>1, <4>2, <4>3
    <3> QED
      BY <3>1, <3>2, <3>3
  <2>7. \A k \in DOMAIN infos : e[infos[k].id] > 0 => \E l \in DOMAIN V :
          V[l].id = infos[k].id /\ V[l].descriptor = infos[k].descriptor
    <3> SUFFICES ASSUME NEW k \in DOMAIN infos, e[infos[k].id] > 0
                 PROVE  \E l \in DOMAIN V :
                          V[l].id = infos[k].id /\ V[l].descriptor = infos[k].descriptor
      OBVIOUS
    <3>1. k # j
      <4>1. ASSUME k = j PROVE FALSE
        <5>1. infos[k].id = h /\ e[h] = 0
          BY <1>4, <1>5, <1>10, <4>1 DEF infos
        <5> QED
          BY <5>1
      <4> QED
        BY <4>1
    <3> QED
      BY <2>4, <3>1
  <2> QED
    BY <1>8, <2>3, <2>4, <2>6, <2>7, Zenon DEF infos, after
<1>11. CASE info.num_consumers # 1
  <2> DEFINE less == [info EXCEPT !.num_consumers = @ - 1]  V == [infos EXCEPT ![j] = less]
  <2>1. after = [measures EXCEPT ![i] = V]
    BY <1>7, <1>11
  <2>2. /\ less \in ViewInformations /\ less.id = h /\ less.descriptor = info.descriptor
        /\ less.type = info.type /\ less.num_consumers = c[h] - 1 /\ c[h] - 1 > 0
    <3>1. c[h] - 1 \in Nat /\ c[h] - 1 > 0 /\ info.num_consumers - 1 = c[h] - 1
      BY <1>4, <1>11
    <3>2. info \in ViewInformations /\ info.id = h
      BY <1>4
    <3> HIDE DEF info
    <3> QED
      BY <3>1, <3>2 DEF ViewInformations
  <2>3. /\ V \in Seq(ViewInformations) /\ DOMAIN V = DOMAIN infos
        /\ \A k \in DOMAIN infos : V[k] = IF k = j THEN less ELSE infos[k]
    <3> HIDE DEF infos, less
    <3>1. j \in DOMAIN infos
      BY DEF infos
    <3> QED
      BY <1>1, <2>2, <3>1, Replaced
  <2>4. InfoOK(less, i, e, n)
    <3>1. InfoOK(info, i, c, n) /\ info.id = h
      BY <1>3
    <3>2. e[h] = c[h] - 1
      BY <1>5
    <3> HIDE DEF info, less, e
    <3> QED
      BY <2>2, <3>1, <3>2 DEF InfoOK
  <2>5. \A k \in DOMAIN infos :
          /\ V[k].id = infos[k].id /\ V[k].descriptor = infos[k].descriptor
          /\ InfoOK(V[k], i, e, n)
    <3> TAKE k \in DOMAIN infos
    <3>1. CASE k = j
      BY <2>2, <2>3, <2>4, <3>1
    <3>2. CASE k # j
      BY <1>9, <2>3, <3>2
    <3> QED
      BY <3>1, <3>2
  <2>6. \A k \in DOMAIN infos, l \in DOMAIN infos :
          Matches(V[k], V[l].descriptor) <=> Matches(infos[k], infos[l].descriptor)
    BY <2>5 DEF Matches
  <2> HIDE DEF V
  <2>7. \A k \in DOMAIN V :
          /\ InfoOK(V[k], i, e, n)
          /\ \E l \in DOMAIN infos :
               V[k].id = infos[l].id /\ V[k].descriptor = infos[l].descriptor
          /\ \A l \in DOMAIN V :
               Matches(V[k], V[l].descriptor) \/ V[k].id = V[l].id => k = l
    BY <1>3, <2>3, <2>5, <2>6
  <2>8. \A k \in DOMAIN infos : e[infos[k].id] > 0 => \E l \in DOMAIN V :
          V[l].id = infos[k].id /\ V[l].descriptor = infos[k].descriptor
    BY <2>3, <2>5
  <2> QED
    BY <1>8, <2>1, <2>3, <2>7, <2>8, Zenon DEF after
<1> QED
  BY <1>8, <1>10, <1>11 DEF after

\* With and without a View that has the handle h, or none.
With(consumers, h) == IF h = Null THEN consumers ELSE AddTo(consumers, h)
Without(consumers, h) == IF h = Null THEN consumers ELSE TakeFrom(consumers, h)

Counted(views) == IsFiniteSet(DOMAIN views) /\ views \in [DOMAIN views -> Views]

HavingHandle(views, h) == {v \in DOMAIN views : views[v].handle = h}

\* The consumers of a handle are the Views that have it.
LEMMA CountsOfViews ==
  ASSUME NEW views, Counted(views)
  PROVE  /\ Consumers(views) \in Counts
         /\ \A h \in Nat \ {0} : /\ IsFiniteSet(HavingHandle(views, h))
                                /\ Consumers(views)[h] = Cardinality(HavingHandle(views, h))
         /\ \A v \in DOMAIN views : views[v].handle # Null => Consumers(views)[views[v].handle] > 0
<1>1. \A h \in Nat \ {0} : /\ IsFiniteSet(HavingHandle(views, h))
                           /\ Cardinality(HavingHandle(views, h)) \in Nat
                           /\ Consumers(views)[h] = Cardinality(HavingHandle(views, h))
  <2> TAKE h \in Nat \ {0}
  <2>1. HavingHandle(views, h) \in SUBSET DOMAIN views
    BY DEF HavingHandle
  <2>2. IsFiniteSet(HavingHandle(views, h))
    BY <2>1, FS_Subset DEF Counted
  <2>3. Cardinality(HavingHandle(views, h)) \in Nat
    BY <2>2, FS_CardinalityType
  <2> QED
    BY <2>2, <2>3 DEF Consumers, HavingHandle
<1>2. Consumers(views) \in Counts
  <2>1. Consumers(views) = [h \in Nat \ {0} |-> Cardinality(HavingHandle(views, h))]
    BY DEF Consumers, HavingHandle
  <2> QED
    BY <1>1, <2>1 DEF Counts
<1>3. ASSUME NEW v \in DOMAIN views, views[v].handle # Null
      PROVE  Consumers(views)[views[v].handle] > 0
  <2> DEFINE h == views[v].handle
  <2>1. h \in Nat \ {0}
    BY <1>3 DEF Counted, Views, Null
  <2>2. v \in HavingHandle(views, h)
    BY DEF HavingHandle
  <2> HIDE DEF h
  <2> DEFINE H == HavingHandle(views, h)  n == Cardinality(H)
  <2>3. n # 0 /\ n \in Nat /\ Consumers(views)[h] = n
    <3>1. IsFiniteSet(H) /\ H # {}
      BY <1>1, <2>1, <2>2
    <3> HIDE DEF H
    <3>2. Cardinality(H) # 0
      BY <3>1, FS_EmptySet
    <3> QED
      BY <1>1, <2>1, <3>2 DEF H
  <2> HIDE DEF n
  <2>4. Consumers(views)[h] > 0
    BY <2>3
  <2> QED
    BY <2>4 DEF h
<1> QED
  BY <1>1, <1>2, <1>3

\* Counts are functions.
LEMMA SameCounts ==
  ASSUME NEW c \in Counts, NEW e \in Counts, \A x \in Nat \ {0} : c[x] = e[x]
  PROVE  c = e
  BY DEF Counts

\* A new View is one consumer more of its handle.
LEMMA PutCounts ==
  ASSUME NEW views, Counted(views), NEW key, key \notin DOMAIN views, NEW view \in Views,
         NEW after,
         after = [k \in DOMAIN views \cup {key} |-> IF k = key THEN view ELSE views[k]]
  PROVE  Counted(after) /\ Consumers(after) = With(Consumers(views), view.handle)
<1>1. DOMAIN after = DOMAIN views \cup {key} /\ after[key] = view
      /\ \A k \in DOMAIN views : after[k] = views[k]
  OBVIOUS
<1>2. Counted(after)
  <2>1. IsFiniteSet(DOMAIN after)
    BY <1>1, FS_AddElement DEF Counted
  <2>2. \A k \in DOMAIN after : after[k] \in Views
    BY <1>1 DEF Counted
  <2>3. after = [k \in DOMAIN after |-> after[k]]
    OBVIOUS
  <2> QED
    BY <2>1, <2>2, <2>3 DEF Counted
<1> DEFINE c == Consumers(views)  h == view.handle  w == With(c, h)
<1>3. c \in Counts /\ Consumers(after) \in Counts /\ h \in Nat
  BY <1>2, CountsOfViews DEF Views
<1>4. w \in Counts /\ \A x \in Nat \ {0} : w[x] = IF x = h THEN c[x] + 1 ELSE c[x]
  <2> HIDE DEF c, h
  <2>1. CASE h = Null
    BY <1>3, <2>1 DEF With, Null
  <2>2. CASE h # Null
    BY <1>3, <2>2 DEF With, AddTo, Null, Counts
  <2> QED
    BY <2>1, <2>2
<1>5. ASSUME NEW x \in Nat \ {0} PROVE Consumers(after)[x] = w[x]
  <2> DEFINE H == HavingHandle(views, x)
  <2>1. IsFiniteSet(H) /\ c[x] = Cardinality(H)
        /\ Consumers(after)[x] = Cardinality(HavingHandle(after, x))
    BY <1>2, CountsOfViews
  <2>2. key \notin H
    BY DEF HavingHandle
  <2>3. HavingHandle(after, x) = IF h = x THEN H \cup {key} ELSE H
    BY <1>1 DEF HavingHandle
  <2> HIDE DEF H
  <2>4. Cardinality(H \cup {key}) = Cardinality(H) + 1
    BY <2>1, <2>2, FS_AddElement
  <2> HIDE DEF h, w, c
  <2> QED
    BY <1>4, <2>1, <2>3, <2>4
<1> HIDE DEF w
<1>6. Consumers(after) = w
  <2> HIDE DEF c, h
  <2> QED
    BY <1>3, <1>4, <1>5, SameCounts
<1> QED
  BY <1>2, <1>6 DEF w

\* A View that goes is one consumer less of its handle.
LEMMA DropCounts ==
  ASSUME NEW views, Counted(views), NEW key \in DOMAIN views,
         NEW after, after = [k \in DOMAIN views \ {key} |-> views[k]]
  PROVE  Counted(after) /\ Consumers(after) = Without(Consumers(views), views[key].handle)
<1>1. DOMAIN after = DOMAIN views \ {key} /\ \A k \in DOMAIN after : after[k] = views[k]
  OBVIOUS
<1>2. Counted(after)
  <2>1. IsFiniteSet(DOMAIN after)
    BY <1>1, FS_RemoveElement DEF Counted
  <2>2. \A k \in DOMAIN after : after[k] \in Views
    BY <1>1 DEF Counted
  <2>3. after = [k \in DOMAIN after |-> after[k]]
    OBVIOUS
  <2> QED
    BY <2>1, <2>2, <2>3 DEF Counted
<1> DEFINE c == Consumers(views)  h == views[key].handle  w == Without(c, h)
<1>3. c \in Counts /\ Consumers(after) \in Counts /\ h \in Nat /\ (h # 0 => c[h] > 0)
  BY <1>2, CountsOfViews DEF Views, Counted, Null
<1>4. w \in Counts /\ \A x \in Nat \ {0} : w[x] = IF x = h THEN c[x] - 1 ELSE c[x]
  <2> HIDE DEF c, h
  <2>1. CASE h = Null
    BY <1>3, <2>1 DEF Without, Null
  <2>2. CASE h # Null
    <3>1. h \in Nat \ {0} /\ c[h] \in Nat /\ c[h] - 1 \in Nat
      BY <1>3, <2>2 DEF Null, Counts
    <3> QED
      BY <1>3, <2>2, <3>1 DEF Without, TakeFrom, Counts
  <2> QED
    BY <2>1, <2>2
<1>5. ASSUME NEW x \in Nat \ {0} PROVE Consumers(after)[x] = w[x]
  <2> DEFINE H == HavingHandle(views, x)
  <2>1. IsFiniteSet(H) /\ c[x] = Cardinality(H)
        /\ Consumers(after)[x] = Cardinality(HavingHandle(after, x))
    BY <1>2, CountsOfViews
  <2>2. key \in H <=> h = x
    BY DEF HavingHandle
  <2>3. HavingHandle(after, x) = H \ {key}
    BY <1>1 DEF HavingHandle
  <2> HIDE DEF H
  <2>4. Cardinality(H \ {key}) = IF key \in H THEN Cardinality(H) - 1 ELSE Cardinality(H)
    BY <2>1, FS_RemoveElement
  <2> HIDE DEF h, w, c
  <2> QED
    BY <1>4, <2>1, <2>2, <2>3, <2>4
<1> HIDE DEF w
<1>6. Consumers(after) = w
  <2> HIDE DEF c, h
  <2> QED
    BY <1>3, <1>4, <1>5, SameCounts
<1> QED
  BY <1>2, <1>6 DEF w

\* It does not matter whether the old View goes before the new one comes.
LEMMA WithWithout ==
  ASSUME NEW c \in Counts, NEW g \in Nat, NEW h \in Nat
  PROVE  With(Without(c, g), h) = Without(With(c, h), g)
<1>1. \A x \in Nat \ {0} : c[x] \in Nat
  BY DEF Counts
<1>2. DOMAIN c = Nat \ {0} /\ c = [x \in Nat \ {0} |-> c[x]]
  BY DEF Counts
<1>3. CASE g = 0 \/ h = 0
  BY <1>3 DEF With, Without, Null
<1>4. CASE g # 0 /\ h # 0
  <2> DEFINE a == AddTo(TakeFrom(c, g), h)  b == TakeFrom(AddTo(c, h), g)
  <2>1. DOMAIN a = Nat \ {0} /\ DOMAIN b = Nat \ {0}
    BY <1>2 DEF AddTo, TakeFrom
  <2>2. ASSUME NEW x \in Nat \ {0} PROVE a[x] = b[x]
    BY <1>1, <1>2, <1>4 DEF AddTo, TakeFrom
  <2>3. a = [x \in DOMAIN a |-> a[x]] /\ b = [x \in DOMAIN b |-> b[x]]
    BY DEF AddTo, TakeFrom
  <2> HIDE DEF a, b
  <2>4. a = b
    BY <2>1, <2>2, <2>3
  <2> QED
    BY <1>4, <2>4 DEF a, b, With, Without, Null
<1> QED
  BY <1>3, <1>4

\* More ViewInformations may have been made than there are.
LEMMA InfosStay ==
  ASSUME NEW measures, NEW c, NEW n \in Nat, InfosOK(measures, c, n)
  PROVE  InfosOK(measures, c, n + 1)
<1>1. ASSUME NEW i \in DOMAIN measures, NEW j \in DOMAIN measures[i]
      PROVE  InfoOK(measures[i][j], i, c, n + 1)
  <2>1. InfoOK(measures[i][j], i, c, n) /\ measures[i][j].id \in 1 .. n
    BY InfosAt
  <2>2. \A x \in 1 .. n : x \in 1 .. n + 1
    OBVIOUS
  <2> QED
    BY <2>1, <2>2, Zenon DEF InfoOK
<1> QED
  BY <1>1 DEF InfosOK

\* What does not change keeps all that is in use.
LEMMA AllKept == ASSUME NEW measures, NEW c PROVE Kept(measures, measures, c)
<1>1. ASSUME NEW i \in DOMAIN measures, NEW j \in DOMAIN measures[i]
      PROVE  \E l \in DOMAIN measures[i] : /\ measures[i][l].id = measures[i][j].id
                                          /\ measures[i][l].descriptor = measures[i][j].descriptor
  OBVIOUS
<1> QED
  BY <1>1, Zenon DEF Kept

\* A View still has its ViewInformation.
LEMMA ViewOfKept ==
  ASSUME NEW old, NEW new, NEW c, NEW view, ViewOf(old, view), Kept(old, new, c),
         view.handle # Null =>
           c[view.handle] > 0 /\ IdToIndex(view.descriptor.measure_id) + 1 \in DOMAIN old
  PROVE  ViewOf(new, view)
<1>1. CASE view.handle = Null
  BY <1>1, ZenonT(20) DEF ViewOf
<1>2. CASE view.handle # Null
  <2> DEFINE i == IdToIndex(view.descriptor.measure_id) + 1
  <2>1. PICK j \in DOMAIN old[i] :
          /\ old[i][j].id = view.handle
          /\ old[i][j].descriptor.measure_id = view.descriptor.measure_id
          /\ Matches(old[i][j], view.descriptor)
    BY <1>2 DEF ViewOf
  <2>2. PICK l \in DOMAIN new[i] :
          new[i][l].id = old[i][j].id /\ new[i][l].descriptor = old[i][j].descriptor
    BY <1>2, <2>1 DEF Kept
  <2>3. Matches(new[i][l], view.descriptor)
    BY <2>1, <2>2 DEF Matches
  <2>4. IdValid(view.descriptor.measure_id)
    BY <1>2 DEF ViewOf
  <2> QED
    BY <1>2, <2>1, <2>2, <2>3, <2>4 DEF ViewOf
<1> QED
  BY <1>1, <1>2

\* AddConsumer, also of an invalid descriptor.
LEMMA AddStep ==
  ASSUME RegistrationTypeOK, NamesOK, InfosKnown(measures_),
         NEW c \in Counts, InfosOK(measures_, c, made), NoneAfter(c, made),
         NEW d \in ViewDescriptors, HasMeasure(d), DescriptorOK(d),
         NEW added, added = AddConsumer(d)
  PROVE  /\ added.measures \in Seq(Seq(ViewInformations))
         /\ Len(added.measures) = Len(measures_)
         /\ added.handle \in 0 .. made + 1
         /\ InfosOK(added.measures, With(c, added.handle), made + 1)
         /\ InfosKnown(added.measures)
         /\ ViewOf(added.measures, [descriptor |-> d, handle |-> added.handle])
         /\ Kept(measures_, added.measures, c)
<1>1. measures_ \in Seq(Seq(ViewInformations)) /\ made \in Nat
  BY DEF RegistrationTypeOK
<1>2. CASE IdValid(d.measure_id)
  <2>1. /\ added.measures \in Seq(Seq(ViewInformations))
        /\ Len(added.measures) = Len(measures_)
        /\ added.handle \in 1 .. made + 1
        /\ InfosOK(added.measures, AddTo(c, added.handle), made + 1)
        /\ InfosKnown(added.measures)
        /\ ViewOf(added.measures, [descriptor |-> d, handle |-> added.handle])
        /\ Kept(measures_, added.measures, c)
    BY <1>2, ConsumerAdded
  <2>2. \A h \in 1 .. made + 1 : h \in 0 .. made + 1 /\ h # 0
    BY <1>1
  <2> QED
    BY <2>1, <2>2, Zenon DEF With, Null
<1>3. CASE ~ IdValid(d.measure_id)
  <2>1. added.measures = measures_ /\ added.handle = Null
    BY <1>3 DEF AddConsumer
  <2>2. InfosOK(measures_, c, made + 1) /\ Kept(measures_, measures_, c)
    BY <1>1, InfosStay, AllKept
  <2>3. ViewOf(measures_, [descriptor |-> d, handle |-> Null])
    BY <1>3 DEF ViewOf
  <2>4. Null \in 0 .. made + 1
    BY <1>1 DEF Null
  <2> QED
    BY <1>1, <2>1, <2>2, <2>3, <2>4, Zenon DEF With
<1> QED
  BY <1>2, <1>3

\* RemoveConsumer, also of a View without a handle.
LEMMA DropStep ==
  ASSUME NEW measures \in Seq(Seq(ViewInformations)), NEW c \in Counts, NEW n \in Nat,
         InfosOK(measures, c, n), InfosKnown(measures), NEW view, ViewOf(measures, view),
         view.handle # Null => IdToIndex(view.descriptor.measure_id) + 1 \in DOMAIN measures,
         NEW after, after = RemoveConsumer(measures, view.handle)
  PROVE  /\ after \in Seq(Seq(ViewInformations)) /\ Len(after) = Len(measures)
         /\ InfosOK(after, Without(c, view.handle), n)
         /\ InfosKnown(after)
         /\ Kept(measures, after, Without(c, view.handle))
<1>1. CASE view.handle = Null
  <2>1. after = measures
    BY <1>1 DEF RemoveConsumer
  <2> QED
    BY <1>1, <2>1, AllKept DEF Without
<1>2. CASE view.handle # Null
  <2> DEFINE i == IdToIndex(view.descriptor.measure_id) + 1  h == view.handle
  <2>1. PICK j \in DOMAIN measures[i] : h = measures[i][j].id
    BY <1>2 DEF ViewOf
  <2>2. i \in DOMAIN measures
    BY <1>2
  <2>3. after = RemoveConsumer(measures, h) /\ Without(c, h) = TakeFrom(c, h)
    BY <1>2 DEF Without
  <2> HIDE DEF i, h
  <2>4. /\ after \in Seq(Seq(ViewInformations)) /\ Len(after) = Len(measures)
        /\ InfosOK(after, TakeFrom(c, h), n)
        /\ InfosKnown(measures) => InfosKnown(after)
        /\ Kept(measures, after, TakeFrom(c, h))
    BY <2>1, <2>2, <2>3, ConsumerRemoved
  <2> QED
    BY <2>3, <2>4, Zenon DEF h
<1> QED
  BY <1>1, <1>2

\* What is known of the Views that there are.
LEMMA ViewsAre ==
  ASSUME RegistrationInv
  PROVE  /\ Counted(views_) /\ NoneAfter(Consumers(views_), made)
         /\ \A v \in DOMAIN views_ :
              /\ ViewOf(measures_, views_[v])
              /\ views_[v].handle # Null =>
                   /\ IdToIndex(views_[v].descriptor.measure_id) + 1 \in DOMAIN measures_
                   /\ Consumers(views_)[views_[v].handle] > 0
<1>1. Counted(views_) /\ made \in Nat
  BY DEF RegistrationInv, RegistrationTypeOK, Counted
<1>2. ASSUME NEW v \in DOMAIN views_, views_[v].handle # Null
      PROVE  /\ IdToIndex(views_[v].descriptor.measure_id) + 1 \in DOMAIN measures_
             /\ views_[v].handle \in 1 .. made
  <2> DEFINE d == views_[v].descriptor  i == IdToIndex(d.measure_id) + 1
  <2>1. /\ IdValid(d.measure_id) /\ HasMeasure(d) /\ DescriptorOK(d)
        /\ \E j \in DOMAIN measures_[i] : measures_[i][j].id = views_[v].handle
    BY <1>2 DEF RegistrationInv, ViewsOK, ViewOf
  <2>2. d.measure_name \in DOMAIN id_map_ /\ d.measure_id = id_map_[d.measure_name]
    BY <2>1 DEF DescriptorOK
  <2>3. i \in DOMAIN measures_
    BY <2>2, IndexIs DEF RegistrationInv, MeasuresOK
  <2> HIDE DEF d, i
  <2>4. InfosOK(measures_, Consumers(views_), made)
    BY DEF RegistrationInv, ViewsOK
  <2>5. \A j \in DOMAIN measures_[i] : measures_[i][j].id \in 1 .. made
    BY <1>1, <2>3, <2>4, InfosAt
  <2> QED
    BY <2>1, <2>3, <2>5 DEF d, i
<1>3. ASSUME NEW h \in Nat \ {0}, h > made PROVE Consumers(views_)[h] = 0
  <2>1. ASSUME NEW v \in DOMAIN views_, views_[v].handle = h PROVE FALSE
    <3>1. h \in 1 .. made
      BY <1>2, <2>1 DEF Null
    <3> QED
      BY <1>1, <1>3, <3>1
  <2>2. HavingHandle(views_, h) = {}
    BY <2>1 DEF HavingHandle
  <2> QED
    BY <1>1, <2>2, CountsOfViews, FS_EmptySet
<1>4. \A v \in DOMAIN views_ : ViewOf(measures_, views_[v])
  BY DEF RegistrationInv, ViewsOK
<1> QED
  BY <1>1, <1>2, <1>3, <1>4, CountsOfViews DEF NoneAfter

\* Views are made and removed: what then holds of those that there are.
LEMMA PutStep ==
  ASSUME RegistrationInv, NEW key, NEW d \in ViewDescriptors, HasMeasure(d), DescriptorOK(d),
         PutView(key, d)
  PROVE  /\ measures_' \in Seq(Seq(ViewInformations)) /\ Len(measures_') = Len(measures_)
         /\ Counted(views_') /\ InfosKnown(measures_')
         /\ InfosOK(measures_', Consumers(views_'), made')
         /\ \A v \in DOMAIN views_' :
              /\ views_'[v].descriptor = d \/ \E w \in DOMAIN views_ : views_'[v] = views_[w]
              /\ ViewOf(measures_', views_'[v])
<1> DEFINE c == Consumers(views_)
<1>1. PICK added : added = AddConsumer(d)
  OBVIOUS
<1>2. PICK h : h = added.handle
  OBVIOUS
<1>3. PICK view : view = [descriptor |-> d, handle |-> h]
  OBVIOUS
<1>4. /\ RegistrationTypeOK /\ NamesOK /\ InfosKnown(measures_) /\ made \in Nat
      /\ InfosOK(measures_, c, made)
  BY DEF RegistrationInv, MeasuresOK, ViewsOK, RegistrationTypeOK
<1>5. Counted(views_) /\ c \in Counts /\ NoneAfter(c, made)
  BY ViewsAre, CountsOfViews
<1>6. /\ added.measures \in Seq(Seq(ViewInformations))
      /\ Len(added.measures) = Len(measures_)
      /\ h \in 0 .. made + 1
      /\ InfosOK(added.measures, With(c, h), made + 1)
      /\ InfosKnown(added.measures)
      /\ ViewOf(added.measures, view)
      /\ Kept(measures_, added.measures, c)
  BY <1>1, <1>2, <1>3, <1>4, <1>5, AddStep
<1>7. /\ made' = made + 1
      /\ views_' = [k \in DOMAIN views_ \cup {key} |-> IF k = key THEN view ELSE views_[k]]
      /\ key \in DOMAIN views_ => measures_' = RemoveConsumer(added.measures, views_[key].handle)
      /\ key \notin DOMAIN views_ => measures_' = added.measures
  BY <1>1, <1>2, <1>3 DEF PutView
<1>8. h \in Nat /\ view \in Views /\ view.handle = h /\ view.descriptor = d /\ made + 1 \in Nat
  <2>1. h \in Nat /\ made + 1 \in Nat
    BY <1>4, <1>6
  <2> QED
    BY <1>3, <2>1 DEF Views
<1> HIDE DEF c
<1>9. /\ DOMAIN views_' = DOMAIN views_ \cup {key} /\ views_'[key] = view
      /\ \A v \in DOMAIN views_ : v # key => views_'[v] = views_[v]
  BY <1>7
<1>10. \A v \in DOMAIN views_ : ViewOf(added.measures, views_[v])
  BY <1>6, ViewsAre, ViewOfKept DEF c
<1>11. DOMAIN added.measures = DOMAIN measures_
  BY <1>4, <1>6, LenProperties DEF RegistrationTypeOK
<1>12. \A v \in DOMAIN views_' : v # key => v \in DOMAIN views_ /\ views_'[v] = views_[v]
  BY <1>9
<1>13. CASE key \notin DOMAIN views_
  <2>1. Counted(views_') /\ Consumers(views_') = With(c, h)
    BY <1>5, <1>7, <1>8, <1>13, PutCounts DEF c
  <2>2. \A v \in DOMAIN views_' :
          /\ views_'[v].descriptor = d \/ \E w \in DOMAIN views_ : views_'[v] = views_[w]
          /\ ViewOf(added.measures, views_'[v])
    <3> TAKE v \in DOMAIN views_'
    <3>1. CASE v = key
      BY <1>6, <1>8, <1>9, <3>1
    <3>2. CASE v # key
      BY <1>10, <1>12, <3>2
    <3> QED
      BY <3>1, <3>2
  <2> QED
    BY <1>6, <1>7, <1>13, <2>1, <2>2
<1>14. CASE key \in DOMAIN views_
  <2> DEFINE g == views_[key].handle  rest == [k \in DOMAIN views_ \ {key} |-> views_[k]]
             e == Without(With(c, h), g)
  <2>1. Counted(rest) /\ Consumers(rest) = Without(c, g)
    BY <1>5, <1>14, DropCounts DEF c
  <2>2. /\ key \notin DOMAIN rest
        /\ views_' = [k \in DOMAIN rest \cup {key} |-> IF k = key THEN view ELSE rest[k]]
    BY <1>7, <1>14
  <2>3. g \in Nat
    BY <1>5, <1>14 DEF Counted, Views
  <2> HIDE DEF rest
  <2>4. Counted(views_') /\ Consumers(views_') = With(Without(c, g), h)
    BY <1>8, <2>1, <2>2, PutCounts
  <2>5. Consumers(views_') = e
    BY <1>5, <1>8, <2>3, <2>4, WithWithout
  <2>6. With(c, h) \in Counts
    <3>1. \A x \in Nat \ {0} : c[x] \in Nat
      BY <1>5 DEF Counts
    <3> QED
      BY <1>5, <1>8, <3>1 DEF With, AddTo, Null, Counts
  <2>7. g # Null =>
          IdToIndex(views_[key].descriptor.measure_id) + 1 \in DOMAIN added.measures
    BY <1>11, <1>14, ViewsAre
  <2>8. /\ measures_' \in Seq(Seq(ViewInformations)) /\ Len(measures_') = Len(added.measures)
        /\ InfosOK(measures_', e, made + 1)
        /\ InfosKnown(measures_')
        /\ Kept(added.measures, measures_', e)
    <3>1. measures_' = RemoveConsumer(added.measures, g)
      BY <1>7, <1>14
    <3>2. ViewOf(added.measures, views_[key])
      BY <1>10, <1>14
    <3> QED
      BY <1>6, <1>8, <2>6, <2>7, <3>1, <3>2, DropStep
  <2> HIDE DEF e, g
  <2>9. \A v \in DOMAIN views_' :
          views_'[v].handle # Null => e[views_'[v].handle] > 0
    BY <2>4, <2>5, CountsOfViews
  <2>10. \A v \in DOMAIN views_' :
          /\ views_'[v].descriptor = d \/ \E w \in DOMAIN views_ : views_'[v] = views_[w]
          /\ ViewOf(measures_', views_'[v])
    <3> TAKE v \in DOMAIN views_'
    <3>1. /\ ViewOf(added.measures, views_'[v])
          /\ views_'[v].descriptor = d \/ \E w \in DOMAIN views_ : views_'[v] = views_[w]
      <4>1. CASE v = key
        BY <1>6, <1>8, <1>9, <4>1
      <4>2. CASE v # key
        BY <1>10, <1>12, <4>2
      <4> QED
        BY <4>1, <4>2
    <3>2. views_'[v].handle # Null =>
            IdToIndex(views_'[v].descriptor.measure_id) + 1 \in DOMAIN added.measures
      <4>1. CASE v = key
        <5>1. h # Null =>
                d.measure_name \in DOMAIN id_map_ /\ d.measure_id = id_map_[d.measure_name]
          BY <1>6, <1>8 DEF ViewOf, DescriptorOK
        <5> QED
          BY <1>4, <1>8, <1>9, <1>11, <4>1, <5>1, IndexIs
      <4>2. CASE v # key
        BY <1>11, <1>12, <4>2, ViewsAre
      <4> QED
        BY <4>1, <4>2
    <3> QED
      BY <2>8, <2>9, <3>1, <3>2, ViewOfKept
  <2> QED
    BY <1>6, <1>7, <2>4, <2>5, <2>8, <2>10
<1> QED
  BY <1>13, <1>14

\* Nothing is registered at the start.
LEMMA RegistrationInvStarts == RegistrationInit => RegistrationInv
<1> SUFFICES ASSUME RegistrationInit PROVE RegistrationInv
  OBVIOUS
<1>1. /\ registered_descriptors_ = <<>> /\ id_map_ = <<>> /\ measures_ = <<>> /\ held = {}
      /\ descriptors = [k \in Descriptors |-> NewViewDescriptor(0)]
      /\ views_ = <<>> /\ made = 0
  BY DEF RegistrationInit
<1>2. DOMAIN <<>> = {} /\ Len(<<>>) = 0 /\ \A S : <<>> \in Seq(S)
  <2>1. \A S : <<>> \in Seq(S) /\ Len(<<>>) = 0
    BY EmptySeq
  <2> QED
    BY <2>1
<1>3. <<>> \in [{} -> Nat] /\ <<>> \in [{} -> Views]
  OBVIOUS
<1>4. IsFiniteSet({}) /\ Cardinality({}) = 0
  BY FS_EmptySet
<1>5. \A k \in Descriptors :
        NewViewDescriptor(0) \in ViewDescriptors /\ DescriptorOK(NewViewDescriptor(0))
  BY NewDescriptor
<1>6. RegistrationTypeOK
  BY <1>1, <1>2, <1>3, <1>4, <1>5 DEF RegistrationTypeOK
<1>7. NamesOK
  BY <1>1, <1>2, <1>4, IndexAssumption DEF NamesOK, IndexAssumption
<1>8. MeasuresOK
  BY <1>1, <1>5, <1>7 DEF MeasuresOK
<1>9. ViewsOK
  BY <1>1, <1>2 DEF ViewsOK, InfosOK
<1>10. InfosKnown(measures_)
  BY <1>1, <1>2 DEF InfosKnown
<1> QED
  BY <1>6, <1>8, <1>9, <1>10 DEF RegistrationInv

\* Calls that change neither names nor Views.
LEMMA NoViewsChange ==
  ASSUME RegistrationInv, UNCHANGED <<registered_descriptors_, id_map_, measures_, views_, made>>,
         held' \in SUBSET HeldMeasures, \A measure \in held' : MeasureOK(measure),
         descriptors' \in [Descriptors -> ViewDescriptors],
         \A k \in Descriptors : DescriptorOK(descriptors'[k])
  PROVE  RegistrationInv'
<1>1. RegistrationTypeOK'
  BY DEF RegistrationInv, RegistrationTypeOK
<1>2. MeasuresOK'
  BY DEF RegistrationInv, MeasuresOK, NamesOK, MeasureOK, DescriptorOK
<1>3. ViewsOK' /\ InfosKnown(measures_)'
  BY DEF RegistrationInv, ViewsOK, InfosKnown, DescriptorOK
<1> QED
  BY <1>1, <1>2, <1>3 DEF RegistrationInv

\* Give adds one Measure to those the program has.
LEMMA GivenMeasure ==
  ASSUME RegistrationInv, NEW name \in MeasureNames, NEW type \in Types, NEW id \in Nat,
         NEW known \in Types \cup {"none"}, Give(name, type, id, known)
  PROVE  /\ held' \in SUBSET HeldMeasures
         /\ \A measure \in held' : measure \in held
              \/ measure = [name |-> name, type |-> type, id |-> id, known |-> known]
  BY DEF Give, RegistrationInv, RegistrationTypeOK, HeldMeasures

\* A registration keeps the invariant.
LEMMA RegisterKeepsInv ==
  ASSUME RegistrationInv, NEW name \in MeasureNames, NEW units \in Units, NEW type \in Types,
         Register(name, units, type)
  PROVE  RegistrationInv'
<1> DEFINE id == CreateMeasureId(Len(registered_descriptors_), TRUE, type)
<1>1. /\ RegistrationTypeOK /\ NamesOK /\ MeasuresOK /\ ViewsOK /\ InfosKnown(measures_)
  BY DEF RegistrationInv, MeasuresOK
<1>2. /\ registered_descriptors_' \in Seq(MeasureDescriptors)
      /\ DOMAIN id_map_' \subseteq MeasureNames /\ id_map_' \in [DOMAIN id_map_' -> Nat]
      /\ DOMAIN id_map_' = DOMAIN id_map_ \cup {name}
      /\ \A other \in DOMAIN id_map_ : id_map_'[other] = id_map_[other]
      /\ id_map_'[name] = id /\ IdValid(id) /\ IdToType(id) = type
      /\ NamesOK'
  BY <1>1, NamesAfterRegister
<1>3. /\ measures_' = Append(measures_, <<>>) /\ Give(name, type, id, type)
      /\ UNCHANGED <<descriptors, views_, made>>
  BY Zenon DEF Register, AddMeasure, NoViews
<1>4. id \in Nat
  BY <1>2
<1> HIDE DEF id
<1>5. \A d : DescriptorOK(d) => d.measure_name \in DOMAIN id_map_
                                 \/ ~ (HasMeasure(d) /\ IdValid(d.measure_id))
  BY DEF DescriptorOK
<1>6. \A d : DescriptorOK(d) => DescriptorOK(d)'
  BY <1>2 DEF DescriptorOK
<1>7. /\ held' \in SUBSET HeldMeasures
      /\ \A measure \in held' : measure \in held
           \/ measure = [name |-> name, type |-> type, id |-> id, known |-> type]
  BY <1>3, <1>4, GivenMeasure
<1>8. \A measure \in held' : MeasureOK(measure)'
  <2> TAKE measure \in held'
  <2>1. CASE measure \in held
    <3>1. MeasureOK(measure)
      BY <1>1, <2>1 DEF MeasuresOK
    <3> QED
      BY <1>2, <3>1 DEF MeasureOK
  <2>2. CASE measure = [name |-> name, type |-> type, id |-> id, known |-> type]
    <3>1. measure.name = name /\ measure.id = id /\ measure.known = type
      BY <2>2
    <3> QED
      BY <1>2, <3>1 DEF MeasureOK
  <2> QED
    BY <1>7, <2>1, <2>2
<1>9. MeasuresOK'
  <2>1. \A k \in Descriptors : DescriptorOK(descriptors[k])'
    BY <1>1, <1>3, <1>6 DEF MeasuresOK
  <2> QED
    BY <1>2, <1>3, <1>8, <2>1 DEF MeasuresOK
<1>10. /\ measures_' \in Seq(Seq(ViewInformations))
       /\ DOMAIN measures_' = 1 .. Len(measures_) + 1 /\ DOMAIN measures_ = 1 .. Len(measures_)
       /\ Len(measures_) \in Nat /\ measures_'[Len(measures_) + 1] = <<>>
       /\ \A i \in DOMAIN measures_ : i \in DOMAIN measures_' /\ measures_'[i] = measures_[i]
  <2>1. measures_ \in Seq(Seq(ViewInformations))
    BY <1>1 DEF RegistrationTypeOK
  <2>2. <<>> \in Seq(ViewInformations)
    BY EmptySeq
  <2> QED
    BY <1>3, <2>1, <2>2, Appended
<1>11. DOMAIN <<>> = {}
  OBVIOUS
<1>12. \A i \in DOMAIN measures_' : \A j \in DOMAIN measures_'[i] :
         i \in DOMAIN measures_ /\ measures_'[i] = measures_[i]
  BY <1>10, <1>11
<1>13. RegistrationTypeOK'
  BY <1>1, <1>2, <1>3, <1>7, <1>10 DEF RegistrationTypeOK
<1>14. InfosKnown(measures_)'
  <2>1. \A i \in DOMAIN measures_' : \A j \in DOMAIN measures_'[i] :
          \E n \in DOMAIN id_map_ : measures_'[i][j].descriptor.measure_id = id_map_[n]
    BY <1>1, <1>12 DEF InfosKnown
  <2> QED
    BY <1>2, <2>1 DEF InfosKnown
<1>15. InfosOK(measures_', Consumers(views_), made)
  <2>1. InfosOK(measures_, Consumers(views_), made)
    BY <1>1 DEF ViewsOK
  <2> DEFINE c == Consumers(views_)
  <2> HIDE DEF c
  <2>2. \A i \in DOMAIN measures_' : \A j \in DOMAIN measures_'[i] :
          /\ InfoOK(measures_'[i][j], i, c, made)
          /\ \A k \in DOMAIN measures_'[i] :
               Matches(measures_'[i][j], measures_'[i][k].descriptor) => j = k
    BY <1>12, <2>1 DEF InfosOK, c
  <2>3. \A i \in DOMAIN measures_', k \in DOMAIN measures_' :
          \A j \in DOMAIN measures_'[i], l \in DOMAIN measures_'[k] :
            measures_'[i][j].id = measures_'[k][l].id => i = k /\ j = l
    BY <1>12, <2>1 DEF InfosOK
  <2> QED
    BY <2>2, <2>3 DEF InfosOK, c
<1>16. ViewsOK'
  <2>1. ASSUME NEW v \in DOMAIN views_
        PROVE  /\ HasMeasure(views_[v].descriptor) /\ DescriptorOK(views_[v].descriptor)'
               /\ ViewOf(measures_', views_[v])
    <3>1. /\ HasMeasure(views_[v].descriptor) /\ DescriptorOK(views_[v].descriptor)
          /\ ViewOf(measures_, views_[v])
      BY <1>1 DEF ViewsOK
    <3>2. views_[v].handle # Null =>
            IdToIndex(views_[v].descriptor.measure_id) + 1 \in DOMAIN measures_
      BY ViewsAre
    <3>3. DescriptorOK(views_[v].descriptor)'
      BY <1>2, <1>3, <3>1 DEF DescriptorOK
    <3> QED
      BY <1>10, <3>1, <3>2, <3>3 DEF ViewOf
  <2> QED
    BY <1>3, <1>15, <2>1 DEF ViewsOK
<1> QED
  BY <1>9, <1>13, <1>14, <1>16 DEF RegistrationInv

\* Calls of View and RegisterForExport.
LEMMA ViewsChange ==
  ASSUME RegistrationInv, UNCHANGED <<registered_descriptors_, id_map_, held, descriptors>>,
         measures_' \in Seq(Seq(ViewInformations)), Len(measures_') = Len(measures_),
         Counted(views_'), InfosKnown(measures_'), made' \in Nat,
         InfosOK(measures_', Consumers(views_'), made'),
         \A v \in DOMAIN views_' :
           /\ HasMeasure(views_'[v].descriptor) /\ DescriptorOK(views_'[v].descriptor)
           /\ ViewOf(measures_', views_'[v])
  PROVE  RegistrationInv'
<1>1. RegistrationTypeOK'
  BY DEF RegistrationInv, RegistrationTypeOK, Counted
<1>2. MeasuresOK'
  BY DEF RegistrationInv, MeasuresOK, NamesOK, MeasureOK, DescriptorOK
<1>3. ViewsOK' /\ InfosKnown(measures_)'
  BY DEF ViewsOK, InfosKnown, DescriptorOK
<1> QED
  BY <1>1, <1>2, <1>3 DEF RegistrationInv

\* View::View and RegisterForExport keep the invariant.
LEMMA PutKeepsInv ==
  ASSUME RegistrationInv, NEW key, NEW k \in Descriptors, HasMeasure(descriptors[k]),
         PutView(key, descriptors[k]),
         UNCHANGED <<registered_descriptors_, id_map_, held, descriptors>>
  PROVE  RegistrationInv'
<1> DEFINE d == descriptors[k]
<1>1. d \in ViewDescriptors /\ DescriptorOK(d) /\ made \in Nat
  BY DEF RegistrationInv, RegistrationTypeOK, MeasuresOK
<1>2. made' \in Nat
  BY <1>1 DEF PutView
<1>3. /\ measures_' \in Seq(Seq(ViewInformations)) /\ Len(measures_') = Len(measures_)
      /\ Counted(views_') /\ InfosKnown(measures_')
      /\ InfosOK(measures_', Consumers(views_'), made')
      /\ \A v \in DOMAIN views_' :
           /\ views_'[v].descriptor = d \/ \E w \in DOMAIN views_ : views_'[v] = views_[w]
           /\ ViewOf(measures_', views_'[v])
  BY <1>1, PutStep
<1>4. \A w \in DOMAIN views_ :
        HasMeasure(views_[w].descriptor) /\ DescriptorOK(views_[w].descriptor)
  BY DEF RegistrationInv, ViewsOK
<1>5. \A v \in DOMAIN views_' :
        HasMeasure(views_'[v].descriptor) /\ DescriptorOK(views_'[v].descriptor)
  BY <1>1, <1>3, <1>4
<1> QED
  BY <1>2, <1>3, <1>5, ViewsChange

\* View::~View keeps the invariant.
LEMMA DestroyKeepsInv ==
  ASSUME RegistrationInv, NEW v \in Locals, DestroyView(v)
  PROVE  RegistrationInv'
<1> DEFINE key == <<"local", v>>  e == Without(Consumers(views_), views_[key].handle)
<1>1. /\ key \in DOMAIN views_
      /\ views_' = [other \in DOMAIN views_ \ {key} |-> views_[other]]
      /\ measures_' = RemoveConsumer(measures_, views_[key].handle)
      /\ UNCHANGED <<registered_descriptors_, id_map_, held, descriptors, made>>
  BY DEF DestroyView
<1> HIDE DEF key
<1>2. /\ measures_ \in Seq(Seq(ViewInformations)) /\ made \in Nat
      /\ InfosOK(measures_, Consumers(views_), made) /\ InfosKnown(measures_)
      /\ Counted(views_) /\ Consumers(views_) \in Counts
  BY ViewsAre, CountsOfViews DEF RegistrationInv, RegistrationTypeOK, ViewsOK
<1>3. /\ ViewOf(measures_, views_[key])
      /\ views_[key].handle # Null =>
           IdToIndex(views_[key].descriptor.measure_id) + 1 \in DOMAIN measures_
  BY <1>1, ViewsAre
<1>4. /\ measures_' \in Seq(Seq(ViewInformations)) /\ Len(measures_') = Len(measures_)
      /\ InfosOK(measures_', e, made) /\ InfosKnown(measures_') /\ Kept(measures_, measures_', e)
  BY <1>1, <1>2, <1>3, DropStep
<1>5. Counted(views_') /\ Consumers(views_') = e
  BY <1>1, <1>2, DropCounts
<1>6. \A w \in DOMAIN views_' : w \in DOMAIN views_ /\ views_'[w] = views_[w]
  BY <1>1
<1> HIDE DEF e
<1>7. ASSUME NEW w \in DOMAIN views_'
      PROVE  /\ HasMeasure(views_'[w].descriptor) /\ DescriptorOK(views_'[w].descriptor)
             /\ ViewOf(measures_', views_'[w])
  <2>1. w \in DOMAIN views_ /\ views_'[w] = views_[w]
    BY <1>6
  <2>2. HasMeasure(views_[w].descriptor) /\ DescriptorOK(views_[w].descriptor)
    BY <2>1 DEF RegistrationInv, ViewsOK
  <2>3. /\ ViewOf(measures_, views_[w])
        /\ views_[w].handle # Null =>
             IdToIndex(views_[w].descriptor.measure_id) + 1 \in DOMAIN measures_
    BY <2>1, ViewsAre
  <2>4. views_'[w].handle # Null => e[views_'[w].handle] > 0
    BY <1>5, CountsOfViews
  <2>5. views_[w].handle # Null => e[views_[w].handle] > 0
    BY <2>1, <2>4
  <2>6. ViewOf(measures_', views_[w])
    BY <1>4, <2>3, <2>5, ViewOfKept
  <2> QED
    BY <2>1, <2>2, <2>6
<1>8. made' \in Nat /\ made' = made
  BY <1>1, <1>2
<1>9. InfosOK(measures_', Consumers(views_'), made')
  BY <1>4, <1>5, <1>8
<1> QED
  BY <1>1, <1>4, <1>5, <1>7, <1>8, <1>9, ViewsChange

\* The descriptors of Views have a measure that was set.
LEMMA ViewedHasMeasure ==
  ASSUME ~ UnsetMeasures, NEW d, Viewed(d)
  PROVE  HasMeasure(d)
  BY Zenon DEF Viewed, HasMeasure, NoName

\* Every call keeps the invariant.
LEMMA RegistrationInvStep ==
  ASSUME ~ UnsetMeasures
  PROVE  RegistrationInv /\ [RegistrationNext]_registrationVars => RegistrationInv'
<1> SUFFICES ASSUME RegistrationInv, [RegistrationNext]_registrationVars
             PROVE  RegistrationInv'
  OBVIOUS
<1>1. /\ RegistrationTypeOK /\ MeasuresOK
      /\ held \in SUBSET HeldMeasures /\ (\A measure \in held : MeasureOK(measure))
      /\ descriptors \in [Descriptors -> ViewDescriptors]
      /\ \A k \in Descriptors : DescriptorOK(descriptors[k])
  BY DEF RegistrationInv, RegistrationTypeOK, MeasuresOK
<1>2. ASSUME NEW name \in MeasureNames, NEW type \in Types,
             NEW units \in Units, Register(name, units, type)
      PROVE  RegistrationInv'
  BY <1>2, RegisterKeepsInv
<1>3. ASSUME NEW name \in MeasureNames, NEW type \in Types, RegisterFails(name, type)
      PROVE  RegistrationInv'
  <2> DEFINE id == CreateMeasureId(0, FALSE, type)
  <2>1. id \in Nat /\ ~ IdValid(id)
    BY NoMeasureId
  <2>2. Give(name, type, id, "none")
        /\ UNCHANGED <<registered_descriptors_, id_map_, measures_, descriptors, views_, made>>
    BY <1>3, Zenon DEF RegisterFails
  <2> HIDE DEF id
  <2>3. /\ held' \in SUBSET HeldMeasures
        /\ \A measure \in held' : measure \in held
             \/ measure = [name |-> name, type |-> type, id |-> id, known |-> "none"]
    BY <2>1, <2>2, GivenMeasure
  <2>4. \A measure \in held' : MeasureOK(measure)
    BY <1>1, <2>1, <2>3 DEF MeasureOK
  <2> QED
    BY <1>1, <2>2, <2>3, <2>4, NoViewsChange
<1>4. ASSUME NEW name \in MeasureNames, NEW type \in Types, GetMeasureByName(name, type)
      PROVE  RegistrationInv'
  <2> DEFINE id == GetIdByName(name)
             known == IF name \in DOMAIN id_map_ THEN GetDescriptorByName(name).type ELSE "none"
  <2>1. id \in Nat /\ (IF name \in DOMAIN id_map_ THEN id = id_map_[name] ELSE ~ IdValid(id))
    BY <1>1, LookedUp
  <2>2. Give(name, type, id, known)
        /\ UNCHANGED <<registered_descriptors_, id_map_, measures_, descriptors, views_, made>>
    BY <1>4 DEF GetMeasureByName
  <2>3. IF name \in DOMAIN id_map_ THEN known = IdToType(id) ELSE known = "none"
    <3>1. CASE name \in DOMAIN id_map_
      <4>1. AtIndex(id_map_[name]).type = IdToType(id_map_[name])
        BY <1>1, <3>1, NameIs DEF MeasuresOK
      <4> QED
        BY <2>1, <3>1, <4>1 DEF GetDescriptorByName
    <3>2. CASE name \notin DOMAIN id_map_
      BY <3>2
    <3> QED
      BY <3>1, <3>2
  <2> HIDE DEF id, known
  <2>4. known \in Types \cup {"none"}
    BY <2>3 DEF IdToType, Types
  <2>5. /\ held' \in SUBSET HeldMeasures
        /\ \A measure \in held' : measure \in held
             \/ measure = [name |-> name, type |-> type, id |-> id, known |-> known]
    BY <2>1, <2>2, <2>4, GivenMeasure
  <2>6. \A measure \in held' : MeasureOK(measure)
    BY <1>1, <2>1, <2>3, <2>5 DEF MeasureOK
  <2> QED
    BY <1>1, <2>2, <2>5, <2>6, NoViewsChange
<1>5. ASSUME NEW k \in Descriptors, Declare(k) PROVE RegistrationInv'
  <2>1. PICK memory \in Memory :
          descriptors' = [descriptors EXCEPT ![k] = NewViewDescriptor(memory)]
    BY <1>5 DEF Declare
  <2>2. memory \in Nat
    BY <1>1, ElementsTyped DEF Memory
  <2>3. NewViewDescriptor(memory) \in ViewDescriptors /\ DescriptorOK(NewViewDescriptor(memory))
    BY <2>2, NewDescriptor
  <2>4. UNCHANGED <<registered_descriptors_, id_map_, measures_, held, views_, made>>
    BY <1>5 DEF Declare
  <2>5. /\ descriptors' \in [Descriptors -> ViewDescriptors]
        /\ \A j \in Descriptors : DescriptorOK(descriptors'[j])
    BY <1>1, <2>1, <2>3
  <2> QED
    BY <1>1, <2>4, <2>5, NoViewsChange
<1>6. ASSUME NEW k \in Descriptors, SetDescriptor(k) PROVE RegistrationInv'
  <2>1. PICK d \in Changed(descriptors[k]) : descriptors' = [descriptors EXCEPT ![k] = d]
    BY <1>6 DEF SetDescriptor
  <2>2. d \in ViewDescriptors /\ DescriptorOK(d)
    BY <1>1, ChangedDescriptor
  <2>3. UNCHANGED <<registered_descriptors_, id_map_, measures_, held, views_, made>>
    BY <1>6 DEF SetDescriptor
  <2>4. /\ descriptors' \in [Descriptors -> ViewDescriptors]
        /\ \A j \in Descriptors : DescriptorOK(descriptors'[j])
    BY <1>1, <2>1, <2>2
  <2> QED
    BY <1>1, <2>3, <2>4, NoViewsChange
<1>7. ASSUME NEW k \in Descriptors, RegisterForExport(k) PROVE RegistrationInv'
  <2>1. HasMeasure(descriptors[k])
    BY <1>7, ViewedHasMeasure DEF RegisterForExport
  <2> QED
    BY <1>7, <2>1, PutKeepsInv DEF RegisterForExport
<1>8. ASSUME NEW v \in Locals, NEW k \in Descriptors, MakeView(v, k) PROVE RegistrationInv'
  <2>1. HasMeasure(descriptors[k])
    BY <1>8, ViewedHasMeasure DEF MakeView
  <2> QED
    BY <1>8, <2>1, PutKeepsInv DEF MakeView
<1>9. ASSUME NEW v \in Locals, DestroyView(v) PROVE RegistrationInv'
  BY <1>9, DestroyKeepsInv
<1>10. CASE UNCHANGED registrationVars
  <2>1. UNCHANGED <<registered_descriptors_, id_map_, measures_, held, descriptors, views_, made>>
    BY <1>10 DEF registrationVars
  <2> QED
    BY <1>1, <2>1, NoViewsChange
<1> QED
  BY <1>2, <1>3, <1>4, <1>5, <1>6, <1>7, <1>8, <1>9, <1>10
  DEF RegistrationNext, MeasureCalls, RegistryCalls, DescriptorCalls, ViewCalls

\* RegistrationInv is an invariant.
LEMMA RegistrationInvHolds ==
  ASSUME ~ UnsetMeasures
  PROVE  RegistrationSpec => []RegistrationInv
  BY RegistrationInvStarts, RegistrationInvStep, PTL DEF RegistrationSpec

----------------------------------------------------------------------------
\* It says of measures what is promised of them.
LEMMA MeasuresAreRight == RegistrationInv => MeasuresAgree
<1> SUFFICES ASSUME RegistrationInv PROVE MeasuresAgree
  OBVIOUS
<1>1. RegistrationTypeOK /\ NamesOK /\ \A measure \in held : MeasureOK(measure)
  BY DEF RegistrationInv, MeasuresOK
<1>2. \A name \in DOMAIN id_map_ : LET id == id_map_[name] IN
        /\ IdValid(id) /\ IdToIndex(id) < Len(registered_descriptors_)
        /\ AtIndex(id).name = name /\ AtIndex(id).type = IdToType(id)
  <2> TAKE name \in DOMAIN id_map_
  <2>1. /\ IdValid(id_map_[name])
        /\ IdToIndex(id_map_[name]) \in 0 .. Len(registered_descriptors_) - 1
        /\ AtIndex(id_map_[name]).name = name
        /\ AtIndex(id_map_[name]).type = IdToType(id_map_[name])
    BY <1>1, NameIs
  <2>2. Len(registered_descriptors_) \in Nat
    BY <1>1, ElementsTyped
  <2> QED
    BY <2>1, <2>2
<1>3. ASSUME NEW measure \in held
      PROVE  /\ IsValid(measure) <=> measure.known = measure.type
             /\ GetDescriptor(measure) =
                  IF IsValid(measure) THEN GetDescriptorByName(measure.name) ELSE DefaultDescriptor
  <2>1. measure.type \in Types /\ MeasureOK(measure)
    BY <1>1 DEF RegistrationTypeOK, HeldMeasures
  <2>2. CASE measure.known = "none" /\ ~ IdValid(measure.id)
    BY <2>1, <2>2 DEF IsValid, GetDescriptor, Types
  <2>3. CASE /\ measure.name \in DOMAIN id_map_ /\ measure.id = id_map_[measure.name]
             /\ measure.known = IdToType(measure.id)
    <3>1. IdValid(measure.id)
      BY <1>2, <2>3
    <3>2. IsValid(measure) <=> measure.known = measure.type
      BY <2>3, <3>1 DEF IsValid
    <3>3. GetDescriptorByName(measure.name) = AtIndex(measure.id)
      BY <2>3 DEF GetDescriptorByName
    <3> QED
      BY <3>2, <3>3 DEF GetDescriptor
  <2> QED
    BY <2>1, <2>2, <2>3 DEF MeasureOK
<1> QED
  BY <1>1, <1>2, <1>3 DEF MeasuresAgree, NamesOK

\* It says of Views what is promised of them.
LEMMA ViewsAreRight == RegistrationInv => ViewsAgree
<1> SUFFICES ASSUME RegistrationInv PROVE ViewsAgree
  OBVIOUS
<1> DEFINE Infos(index) == {measures_[index][i] : i \in DOMAIN measures_[index]}
           all == UNION {Infos(index) : index \in DOMAIN measures_}
<1>1. /\ RegistrationTypeOK /\ NamesOK /\ Counted(views_)
      /\ InfosOK(measures_, Consumers(views_), made) /\ made \in Nat
  BY ViewsAre DEF RegistrationInv, MeasuresOK, ViewsOK, RegistrationTypeOK
<1>2. ASSUME NEW info \in all
      PROVE  info.num_consumers = Cardinality({v \in DOMAIN views_ : views_[v].handle = info.id})
  <2>3. PICK i \in DOMAIN measures_ : info \in Infos(i)
    OBVIOUS
  <2>1. PICK j \in DOMAIN measures_[i] : info = measures_[i][j]
    BY <2>3
  <2>2. /\ info.id \in Nat \ {0} /\ info.num_consumers = Consumers(views_)[info.id]
    BY <1>1, <2>1, InfosAt
  <2> QED
    BY <2>2 DEF Consumers
<1>3. ASSUME NEW v \in DOMAIN views_
      PROVE  LET d == views_[v].descriptor IN
             /\ views_[v].handle = Null <=> ~ IdValid(d.measure_id)
             /\ d \in ViewDescriptors /\ HasMeasure(d) /\ DescriptorOK(d)
             /\ views_[v].handle # Null =>
                  /\ d.measure_id = id_map_[d.measure_name]
                  /\ IdToIndex(d.measure_id) + 1 \in DOMAIN measures_
                  /\ \E j \in DOMAIN measures_[IdToIndex(d.measure_id) + 1] :
                       LET info == measures_[IdToIndex(d.measure_id) + 1][j] IN
                       /\ info.id = views_[v].handle /\ info.descriptor.measure_id = d.measure_id
                       /\ Matches(info, d)
  <2> DEFINE d == views_[v].descriptor
  <2>1. HasMeasure(d) /\ DescriptorOK(d) /\ ViewOf(measures_, views_[v])
    BY DEF RegistrationInv, ViewsOK
  <2>2. d \in ViewDescriptors
    BY <1>1 DEF Counted, Views
  <2>3. views_[v].handle = Null <=> ~ IdValid(d.measure_id)
    BY <2>1 DEF ViewOf
  <2>4. ASSUME views_[v].handle # Null
        PROVE  /\ d.measure_id = id_map_[d.measure_name]
               /\ IdToIndex(d.measure_id) + 1 \in DOMAIN measures_
               /\ \E j \in DOMAIN measures_[IdToIndex(d.measure_id) + 1] :
                    LET info == measures_[IdToIndex(d.measure_id) + 1][j] IN
                    /\ info.id = views_[v].handle /\ info.descriptor.measure_id = d.measure_id
                    /\ Matches(info, d)
    <3>1. d.measure_id = id_map_[d.measure_name]
      BY <2>1, <2>3, <2>4 DEF DescriptorOK
    <3>2. IdToIndex(d.measure_id) + 1 \in DOMAIN measures_
      BY <2>4, ViewsAre
    <3> QED
      BY <2>1, <2>4, <3>1, <3>2 DEF ViewOf
  <2> QED
    BY <2>1, <2>2, <2>3, <2>4
<1>4. ASSUME NEW v \in DOMAIN views_, views_[v].handle # Null
      PROVE  LET d == views_[v].descriptor IN
             /\ d.measure_id = id_map_[d.measure_name]
             /\ \E info \in Infos(IdToIndex(d.measure_id) + 1) :
                  /\ info.id = views_[v].handle /\ info.type = DataType(d)
                  /\ info.descriptor.columns = d.columns
  <2> DEFINE d == views_[v].descriptor  i == IdToIndex(d.measure_id) + 1
  <2>1. /\ d.measure_id = id_map_[d.measure_name] /\ d \in ViewDescriptors
        /\ HasMeasure(d) /\ DescriptorOK(d) /\ IdValid(d.measure_id) /\ i \in DOMAIN measures_
    BY <1>3, <1>4
  <2>2. PICK j \in DOMAIN measures_[i] :
          /\ measures_[i][j].id = views_[v].handle
          /\ measures_[i][j].descriptor.measure_id = d.measure_id
          /\ Matches(measures_[i][j], d)
    BY <1>3, <1>4
  <2>3. DataType(d) = TypeOfData(d)
    BY <1>1, <2>1, DataTypeIs
  <2>4. measures_[i][j].type = TypeOfData(measures_[i][j].descriptor)
    <3> HIDE DEF d, i
    <3>1. InfoOK(measures_[i][j], i, Consumers(views_), made)
      BY <1>1, <2>1, InfosAt
    <3> QED
      BY <3>1 DEF InfoOK
  <2>5. TypeOfData(measures_[i][j].descriptor) = TypeOfData(d)
    BY <2>2 DEF TypeOfData, Matches
  <2>6. measures_[i][j].descriptor.columns = d.columns
    BY <2>2 DEF Matches
  <2> QED
    BY <2>1, <2>2, <2>3, <2>4, <2>5, <2>6
<1>5. ASSUME NEW v \in DOMAIN views_, NEW w \in DOMAIN views_,
             SameDescriptor(views_[v].descriptor, views_[w].descriptor)
      PROVE  views_[w].handle = views_[v].handle
  <2> DEFINE d == views_[v].descriptor  e == views_[w].descriptor
             i == IdToIndex(d.measure_id) + 1
  <2>1. /\ d.measure_id = e.measure_id /\ d.aggregation = e.aggregation
        /\ d.window = e.window /\ d.columns = e.columns
    BY <1>5 DEF SameDescriptor
  <2>2. CASE ~ IdValid(d.measure_id)
    BY <1>3, <2>1, <2>2
  <2>3. CASE IdValid(d.measure_id)
    <3>1. i \in DOMAIN measures_
      BY <1>3, <2>3
    <3>2. PICK j \in DOMAIN measures_[i] :
            measures_[i][j].id = views_[v].handle /\ Matches(measures_[i][j], d)
      BY <1>3, <2>3
    <3>3. PICK k \in DOMAIN measures_[i] :
            measures_[i][k].id = views_[w].handle /\ Matches(measures_[i][k], e)
      BY <1>3, <2>1, <2>3
    <3>4. Matches(measures_[i][j], measures_[i][k].descriptor)
      BY <2>1, <3>2, <3>3 DEF Matches
    <3> HIDE DEF d, e, i
    <3>5. j = k
      BY <1>1, <3>1, <3>4, InfosAt
    <3> QED
      BY <3>2, <3>3, <3>5
  <2> QED
    BY <2>2, <2>3
<1>6. \A v \in DOMAIN views_ :
        views_[v].handle = Null <=> ~ IdValid(views_[v].descriptor.measure_id)
  BY <1>3
<1> QED
  BY <1>2, <1>4, <1>5, <1>6 DEF ViewsAgree

\* Whatever is registered, looked up, described, viewed and destroyed, a name, an id
\* and a View stand for one thing for ever, if Views are of measures that were set.
THEOREM RegistrationsHold ==
  ASSUME ~ UnsetMeasures
  PROVE  RegistrationSpec => []RegistrationsAgree
<1>1. RegistrationInv => RegistrationsAgree
  BY MeasuresAreRight, ViewsAreRight DEF RegistrationsAgree
<1> QED
  BY <1>1, RegistrationInvHolds, PTL

----------------------------------------------------------------------------
----------------------------------------------------------------------------
\* StackdriverStats: any views, rows and options, and any number of exports.

\* What the handler keeps of the options that it was given.
OptionsOK ==
  /\ opts_.metric_name_prefix \in Seq(Range(opts_.metric_name_prefix))
  /\ opts_.metric_name_prefix # <<>>
  /\ opts_.project_id = <<"projects/", given.opts.project_id>>
  /\ opts_.prepare_client_context = given.opts.prepare_client_context
  /\ opts_.rpc_deadline = given.opts.rpc_deadline
  /\ given.by # "copy" /\ given.opts.metric_service_stub # "null" =>
       opts_.metric_service_stub = given.opts.metric_service_stub

\* What is remembered is what the service was told last, and was accepted once.
DescribedOK ==
  /\ DOMAIN series_descriptors_ \subseteq MetricNames
  /\ \A name \in DOMAIN series_descriptors_ :
       LET view == series_descriptors_[name] IN
       /\ view \in MetricViews /\ view.name = name
       /\ name \in DOMAIN described /\ described[name] = MetricDescriptor(view, TRUE)
  /\ accepted = [name \in MetricNames |-> IF name \in DOMAIN series_descriptors_ THEN 1 ELSE 0]

\* Whether the metrics are custom: a prefix is for all of them.
Custom == IsKnownCustomMetric(opts_.metric_name_prefix)

\* The series that are made of the rows of a view.
SeriesOf(datum) ==
  {TimeSeries(datum.view, datum.rows[j], ViewDataType(datum.view), Custom) : j \in DOMAIN datum.rows}

\* The series of the last export, in order.
Sent == FlattenSeq([i \in DOMAIN requests |-> requests[i].time_series])

\* The series are those of the rows of the views that can be exported, and as many.
SentOK(series) ==
  /\ series \in Seq(Range(series))
  /\ Len(series) = Total([i \in DOMAIN exported |->
                            IF Exportable(exported[i].view) THEN Len(exported[i].rows) ELSE 0])
  /\ Range(series) =
       UNION {SeriesOf(exported[i]) : i \in {k \in DOMAIN exported : Exportable(exported[k].view)}}

SeriesInv ==
  /\ OptionsOK /\ DescribedOK /\ exported \in ExportData
  /\ requests = Batches(Sent) /\ SentOK(Sent)

NumberAdded(number, sum) == Plus(sum, number)
SeriesVisited(visit, acc) == VisitView(acc, visit)

Adding == INSTANCE FoldUnfolds WITH op <- NumberAdded, choose <- Max
Visits == INSTANCE FoldUnfolds WITH op <- SeriesVisited, choose <- Max

\* g is the recursive function by which seqs is flattened.
Flattens(g, seqs) ==
  g = [i \in 1 .. Len(seqs) |-> IF i = 1 THEN seqs[i] ELSE g[i - 1] \o seqs[i]]

\* A function that satisfies the recursion says what FlattenSeq is.
LEMMA FlattenSeqIs ==
  ASSUME NEW seqs, Len(seqs) \in Nat \ {0}, NEW g, Flattens(g, seqs)
  PROVE  FlattenSeq(seqs) = g[Len(seqs)]
<1> DEFINE n == Len(seqs)  f == CHOOSE h : Flattens(h, seqs)
           Good == {k \in 0 .. n : k > 0 => f[k] = g[k]}
<1>1. Flattens(f, seqs)
  OBVIOUS
<1>2. 0 \in Good
  OBVIOUS
<1>3. ASSUME NEW k \in Good, k < n PROVE k + 1 \in Good
  <2>1. k + 1 \in 1 .. n /\ (k + 1) - 1 = k
    BY <1>3
  <2> HIDE DEF f
  <2>2. f[k + 1] = IF k + 1 = 1 THEN seqs[k + 1] ELSE f[k] \o seqs[k + 1]
    BY <1>1, <2>1 DEF Flattens
  <2>3. g[k + 1] = IF k + 1 = 1 THEN seqs[k + 1] ELSE g[k] \o seqs[k + 1]
    BY <2>1 DEF Flattens
  <2> QED
    BY <1>3, <2>1, <2>2, <2>3
<1>4. n \in Good
  <2>1. Good \in SUBSET (0 .. n) /\ n \in Nat
    OBVIOUS
  <2> HIDE DEF Good, n
  <2> QED
    BY <1>2, <1>3, <2>1, Adding!InductionUpTo
<1>5. FlattenSeq(seqs) = f[n]
  BY DEF FlattenSeq, Flattens
<1> QED
  BY <1>4, <1>5

\* The number of requests for so many series, and where the i-th one ends.
NumRpcs(length) == (length + kTimeSeriesBatchSize - 1) \div kTimeSeriesBatchSize
EndOf(length, i) ==
  IF length < i * kTimeSeriesBatchSize THEN length ELSE i * kTimeSeriesBatchSize

\* The minimum of two numbers.
LEMMA LesserOfTwo ==
  ASSUME NEW m \in Nat, NEW n \in Nat
  PROVE  Min({m, n}) = IF m < n THEN m ELSE n
<1>1. \A x \in {m, n} :
        (\A y \in {m, n} : x <= y) <=> x = IF m < n THEN m ELSE n
  OBVIOUS
<1>2. (IF m < n THEN m ELSE n) \in {m, n}
  OBVIOUS
<1> DEFINE k == IF m < n THEN m ELSE n
<1> HIDE DEF k
<1> QED
  BY <1>1, <1>2 DEF Min, k

\* The requests are just enough, and each has at least one series to end with.
LEMMA RequestsNeeded ==
  ASSUME NEW length \in Nat
  PROVE  /\ NumRpcs(length) \in Nat
         /\ NumRpcs(length) * kTimeSeriesBatchSize >= length
         /\ \A i \in 1 .. NumRpcs(length) : (i - 1) * kTimeSeriesBatchSize < length
<1> DEFINE b == kTimeSeriesBatchSize  m == length + b - 1  n == NumRpcs(length)
<1>1. b \in Nat /\ b > 0 /\ m \in Int /\ m >= 0
  BY SeriesAssumption
<1>2. n \in Int /\ m % b \in 0 .. b - 1 /\ m = b * n + (m % b)
  <2>1. m \div b \in Int /\ m % b \in 0 .. b - 1 /\ m = b * (m \div b) + (m % b)
    <3> HIDE DEF b, m
    <3> QED
      BY <1>1, Division
  <2> QED
    BY <2>1 DEF NumRpcs
<1>3. PICK r \in 0 .. b - 1 : m = b * n + r
  BY <1>2
<1> HIDE DEF n
<1>4. n >= 0
  <2>1. SUFFICES ASSUME n <= -1 PROVE FALSE
    BY <1>2
  <2>2. b * n <= b * (-1)
    BY <1>1, <1>2, <2>1
  <2> QED
    BY <1>1, <1>2, <1>3, <2>2
<1>5. n * b >= length
  <2>1. b * n = n * b /\ b * n \in Int
    BY <1>1, <1>2
  <2> QED
    BY <1>1, <1>3, <2>1
<1>6. ASSUME NEW i \in 1 .. n PROVE (i - 1) * b < length
  <2>1. i \in Int /\ i - 1 <= n - 1
    BY <1>2
  <2>2. (i - 1) * b <= (n - 1) * b
    BY <1>1, <1>2, <2>1
  <2>3. (n - 1) * b = b * n - b /\ b * n \in Int /\ (i - 1) * b \in Int
    BY <1>1, <1>2, <2>1
  <2> QED
    BY <1>1, <1>3, <2>2, <2>3
<1>7. n \in Nat
  BY <1>2, <1>4
<1> QED
  BY <1>5, <1>6, <1>7, Zenon DEF n

\* Each request begins where the one before it ends, and the last one ends the series.
LEMMA RequestsCut ==
  ASSUME NEW length \in Nat
  PROVE  /\ NumRpcs(length) \in Nat /\ (NumRpcs(length) = 0 <=> length = 0)
         /\ EndOf(length, 0) = 0 /\ EndOf(length, NumRpcs(length)) = length
         /\ \A i \in 1 .. NumRpcs(length) :
              /\ EndOf(length, i) \in 0 .. length /\ EndOf(length, i - 1) \in 0 .. length
              /\ EndOf(length, i) - EndOf(length, i - 1) \in 1 .. kTimeSeriesBatchSize
              /\ EndOf(length, i - 1) = (i - 1) * kTimeSeriesBatchSize
              /\ EndOf(length, i) = Min({length, i * kTimeSeriesBatchSize})
<1> DEFINE b == kTimeSeriesBatchSize  n == NumRpcs(length)
<1>1. /\ b \in Nat /\ b > 0 /\ n \in Nat /\ n * b >= length
      /\ \A i \in 1 .. n : (i - 1) * b < length
  BY RequestsNeeded, SeriesAssumption
<1> HIDE DEF n
<1>2. ASSUME NEW i \in 1 .. n
      PROVE  /\ EndOf(length, i) \in 0 .. length /\ EndOf(length, i - 1) \in 0 .. length
             /\ EndOf(length, i) - EndOf(length, i - 1) \in 1 .. b
             /\ EndOf(length, i - 1) = (i - 1) * b
             /\ EndOf(length, i) = Min({length, i * b})
  <2>1. i * b \in Nat /\ (i - 1) * b \in Nat /\ i * b = (i - 1) * b + b
    BY <1>1
  <2>2. PICK p \in Nat, q \in Nat : p = (i - 1) * b /\ q = i * b
    BY <2>1
  <2>3. p < length /\ q = p + b
    BY <1>1, <2>1, <2>2
  <2>4. EndOf(length, i - 1) = p
    BY <2>2, <2>3 DEF EndOf
  <2>5. EndOf(length, i) = IF length < q THEN length ELSE q
    BY <2>2 DEF EndOf
  <2>6. Min({length, q}) = IF length < q THEN length ELSE q
    BY LesserOfTwo
  <2> QED
    BY <1>1, <2>2, <2>3, <2>4, <2>5, <2>6
<1>3. n = 0 <=> length = 0
  <2>1. n = 0 => length = 0
    BY <1>1
  <2>2. length = 0 => n = 0
    <3>1. ASSUME 1 \in 1 .. n PROVE length > 0
      <4>1. (1 - 1) * b < length
        BY <1>1, <3>1
      <4> QED
        BY <1>1, <4>1
    <3> QED
      BY <1>1, <3>1
  <2> QED
    BY <2>1, <2>2
<1>4. EndOf(length, 0) = 0
  BY <1>1 DEF EndOf
<1>5. EndOf(length, n) = length
  <2>1. PICK q \in Nat : q = n * b /\ q >= length
    BY <1>1
  <2> QED
    BY <2>1 DEF EndOf
<1> QED
  BY <1>1, <1>2, <1>3, <1>4, <1>5 DEF n

\* The requests are the series, cut, and none is empty or too long.
LEMMA BatchesAre ==
  ASSUME NEW S, NEW series \in Seq(S)
  PROVE  /\ \A i \in DOMAIN Batches(series) :
              /\ Len(Batches(series)[i].time_series) \in 1 .. kTimeSeriesBatchSize
              /\ Range(Batches(series)[i].time_series) \subseteq Range(series)
              /\ Batches(series)[i].to = opts_.metric_service_stub
              /\ Batches(series)[i].name = opts_.project_id
              /\ Batches(series)[i].deadline = opts_.rpc_deadline
              /\ Batches(series)[i].context = opts_.prepare_client_context
         /\ FlattenSeq([i \in DOMAIN Batches(series) |-> Batches(series)[i].time_series])
              = series
<1> DEFINE b == kTimeSeriesBatchSize  l == Len(series)  n == NumRpcs(l)
           B == Batches(series)
           seqs == [i \in DOMAIN B |-> B[i].time_series]
           g == [i \in 1 .. n |-> SubSeq(series, 1, EndOf(l, i))]
<1>1. l \in Nat /\ n \in Nat /\ (n = 0 <=> l = 0) /\ EndOf(l, 0) = 0 /\ EndOf(l, n) = l
  BY RequestsCut
<1>2. ASSUME NEW i \in 1 .. n
      PROVE  /\ EndOf(l, i) \in 0 .. l /\ EndOf(l, i - 1) \in 0 .. l
             /\ EndOf(l, i) - EndOf(l, i - 1) \in 1 .. b
  <2> HIDE DEF l
  <2> QED
    BY <1>1, RequestsCut, Zenon DEF n
<1>9. ASSUME NEW i \in 1 .. n
      PROVE  EndOf(l, i - 1) = (i - 1) * b /\ EndOf(l, i) = Min({l, i * b})
  <2> HIDE DEF l
  <2> QED
    BY <1>1, RequestsCut, Zenon DEF n
<1> DEFINE T(i) == SubSeq(series, EndOf(l, i - 1) + 1, EndOf(l, i))
<1>3. B = [i \in 1 .. n |->
             [to |-> opts_.metric_service_stub, name |-> opts_.project_id,
              deadline |-> opts_.rpc_deadline, context |-> opts_.prepare_client_context,
              time_series |-> T(i)]]
  <2>1. B = [i \in 1 .. n |->
             [to |-> opts_.metric_service_stub, name |-> opts_.project_id,
              deadline |-> opts_.rpc_deadline, context |-> opts_.prepare_client_context,
              time_series |-> SubSeq(series, (i - 1) * b + 1, Min({l, i * b}))]]
    BY Zenon DEF Batches, NumRpcs
  <2>2. \A i \in 1 .. n : SubSeq(series, (i - 1) * b + 1, Min({l, i * b})) = T(i)
    BY <1>9
  <2> HIDE DEF B, T, n, l, b
  <2> QED
    BY <2>1, <2>2
<1>4. ASSUME NEW i \in 1 .. n
      PROVE  /\ T(i) \in Seq(S) /\ Len(T(i)) \in 1 .. b /\ Range(T(i)) \subseteq Range(series)
  <2>1. PICK p \in 0 .. l, q \in 0 .. l :
          p = EndOf(l, i - 1) /\ q = EndOf(l, i) /\ q - p \in 1 .. b
    <3> HIDE DEF l, n
    <3> QED
      BY <1>2
  <2>2. p \in Nat /\ q \in Nat /\ p + 1 <= q /\ q <= Len(series)
        /\ \A k \in p + 1 .. q : k \in 1 .. Len(series) /\ series[k] \in S
    <3>1. p \in Nat /\ q \in Nat /\ p + 1 <= q /\ q <= Len(series)
      BY <1>1, <2>1, SeriesAssumption
    <3>2. \A k \in p + 1 .. q : k \in 1 .. Len(series)
      BY <3>1
    <3> QED
      BY <3>1, <3>2
  <2>3. /\ SubSeq(series, p + 1, q) \in Seq(S) /\ Len(SubSeq(series, p + 1, q)) = q - p
        /\ \A k \in 1 .. q - p : SubSeq(series, p + 1, q)[k] = series[p + k]
    <3>1. p + 1 \in Int /\ q \in Int /\ q - (p + 1) + 1 = q - p
          /\ \A k \in 1 .. q - p : (p + 1) + k - 1 = p + k
      BY <2>2
    <3> HIDE DEF l
    <3> QED
      BY <2>2, <3>1, SubSeqProperties
  <2>4. Range(SubSeq(series, p + 1, q)) \subseteq Range(series)
    <3>1. DOMAIN SubSeq(series, p + 1, q) = 1 .. q - p /\ \A k \in 1 .. q - p : p + k \in 1 .. l
      BY <1>1, <2>1, <2>3
    <3> QED
      BY <2>3, <3>1 DEF Range
  <2> QED
    BY <2>1, <2>3, <2>4
<1>5. DOMAIN B = 1 .. n /\ seqs = [i \in 1 .. n |-> T(i)]
  <2> HIDE DEF B, T, n
  <2> QED
    BY <1>3
<1>6. seqs \in [1 .. n -> Seq(S)] /\ Len(seqs) = n
  <2> HIDE DEF T, n, seqs
  <2> QED
    BY <1>1, <1>4, <1>5
<1>7. \A i \in DOMAIN B :
        /\ Len(B[i].time_series) \in 1 .. b /\ Range(B[i].time_series) \subseteq Range(series)
        /\ B[i].to = opts_.metric_service_stub /\ B[i].name = opts_.project_id
        /\ B[i].deadline = opts_.rpc_deadline
        /\ B[i].context = opts_.prepare_client_context
  <2> HIDE DEF B, T, n, b
  <2> QED
    BY <1>3, <1>4
<1>8. FlattenSeq(seqs) = series
  <2>1. CASE n = 0
    <3>1. seqs = <<>> /\ series = <<>>
      <4> HIDE DEF seqs, n
      <4> QED
        BY <1>1, <1>6, <2>1
    <3> HIDE DEF seqs
    <3> QED
      BY <1>6, <2>1, <3>1 DEF FlattenSeq
  <2>2. CASE n # 0
    <3>1. ASSUME NEW i \in 1 .. n
          PROVE  g[i] = IF i = 1 THEN seqs[i] ELSE g[i - 1] \o seqs[i]
      <4>1. g[i] = SubSeq(series, 1, EndOf(l, i)) /\ seqs[i] = T(i)
        <5> HIDE DEF T, seqs, n, l
        <5> QED
          BY <1>5
      <4>2. CASE i = 1
        <5>1. T(i) = SubSeq(series, 1, EndOf(l, i))
          <6>1. i - 1 = 0
            BY <4>2
          <6>2. EndOf(l, i - 1) + 1 = 1
            BY <1>1, <6>1
          <6> HIDE DEF n, l, g, seqs
          <6> QED
            BY <6>2, Zenon
        <5> QED
          BY <4>1, <4>2, <5>1
      <4>3. CASE i # 1
        <5>1. i - 1 \in 1 .. n
          BY <1>1, <4>3
        <5>2. g[i - 1] = SubSeq(series, 1, EndOf(l, i - 1))
          BY <5>1
        <5>3. PICK p \in 0 .. l, q \in 0 .. l : p = EndOf(l, i - 1) /\ q = EndOf(l, i) /\ p <= q
          <6> HIDE DEF n, l, g, seqs
          <6>1. \A x \in 0 .. l, y \in 0 .. l : y - x \in 1 .. b => x <= y
            BY <1>1, SeriesAssumption
          <6> QED
            BY <1>2, <6>1, Zenon
        <5>4. SubSeq(series, 1, p) \o SubSeq(series, p + 1, q) = SubSeq(series, 1, q)
          <6>1. 1 \in 1 .. Len(series) + 1 /\ p \in 1 - 1 .. Len(series) /\ q \in p .. Len(series)
            BY <1>1, <5>3
          <6> QED
            BY <6>1, ConcatAdjacentSubSeq
        <5> HIDE DEF g, seqs, n, l
        <5> QED
          BY <4>1, <4>3, <5>2, <5>3, <5>4 DEF T
      <4> QED
        BY <4>2, <4>3
    <3>2. Flattens(g, seqs)
      <4>1. g = [i \in 1 .. n |-> IF i = 1 THEN seqs[i] ELSE g[i - 1] \o seqs[i]]
        <5>1. g = [i \in 1 .. n |-> g[i]]
          OBVIOUS
        <5> HIDE DEF g, seqs, n
        <5> QED
          BY <3>1, <5>1
      <4> HIDE DEF g, seqs, n
      <4> QED
        BY <1>6, <4>1 DEF Flattens
    <3>3. FlattenSeq(seqs) = g[n]
      <4> HIDE DEF g, seqs, n
      <4> QED
        BY <1>1, <1>6, <2>2, <3>2, FlattenSeqIs
    <3>4. g[n] = SubSeq(series, 1, l)
      <4>1. n \in 1 .. n
        BY <1>1, <2>2
      <4> HIDE DEF n, l
      <4> QED
        BY <1>1, <4>1
    <3> QED
      BY <3>3, <3>4, SubSeqFull
  <2> QED
    BY <2>1, <2>2
<1> QED
  BY <1>7, <1>8
----------------------------------------------------------------------------
\* The type of a metric is custom or not as the prefix says, and ends in the view's name.
LEMMA MetricTypes ==
  ASSUME OptionsOK, NEW view
  PROVE  /\ IsKnownCustomMetric(MakeType(view)) <=> Custom
         /\ Last(MakeType(view)) = view.name
<1> DEFINE p == opts_.metric_name_prefix  S == Range(p) \cup {view.name}
<1>1. p \in Seq(S) /\ p # <<>> /\ Len(p) \in Nat /\ Len(p) > 0
  BY DEF OptionsOK
<1>2. /\ Len(Append(p, view.name)) = Len(p) + 1
      /\ Append(p, view.name)[1] = p[1] /\ Append(p, view.name)[Len(p) + 1] = view.name
  BY <1>1
<1>3. Head(Append(p, view.name)) = Head(p)
  BY <1>1, <1>2
<1> QED
  BY <1>2, <1>3 DEF IsKnownCustomMetric, MakeType, Custom, Last

\* Sequences put together: how long they are and what is in them.
LEMMA ConcatRange ==
  ASSUME NEW s, s \in Seq(Range(s)), NEW t, t \in Seq(Range(t))
  PROVE  /\ s \o t \in Seq(Range(s \o t)) /\ Len(s \o t) = Len(s) + Len(t)
         /\ Range(s \o t) = Range(s) \cup Range(t)
<1> DEFINE S == Range(s) \cup Range(t)  c == s \o t
<1>1. s \in Seq(S) /\ t \in Seq(S)
  OBVIOUS
<1>2. /\ c \in Seq(S) /\ Len(c) = Len(s) + Len(t)
      /\ \A i \in 1 .. Len(s) + Len(t) : c[i] = IF i <= Len(s) THEN s[i] ELSE t[i - Len(s)]
  <2> HIDE DEF S
  <2> QED
    BY <1>1, ConcatProperties
<1>3. /\ Len(s) \in Nat /\ Len(t) \in Nat /\ DOMAIN s = 1 .. Len(s) /\ DOMAIN t = 1 .. Len(t)
      /\ DOMAIN c = 1 .. Len(s) + Len(t)
  BY <1>1, <1>2
<1> HIDE DEF c
<1>4. \A x \in Range(s) : x \in Range(c)
  <2> SUFFICES ASSUME NEW i \in DOMAIN s PROVE s[i] \in Range(c)
    BY DEF Range
  <2>1. i \in DOMAIN c /\ c[i] = s[i]
    BY <1>2, <1>3
  <2> QED
    BY <2>1 DEF Range
<1>5. \A x \in Range(t) : x \in Range(c)
  <2> SUFFICES ASSUME NEW i \in DOMAIN t PROVE t[i] \in Range(c)
    BY DEF Range
  <2>1. i + Len(s) \in DOMAIN c /\ c[i + Len(s)] = t[i]
    BY <1>2, <1>3
  <2> QED
    BY <2>1 DEF Range
<1>6. \A x \in Range(c) : x \in S
  <2> HIDE DEF S
  <2> QED
    BY <1>2 DEF Range
<1>7. Range(c) = S
  BY <1>4, <1>5, <1>6
<1> QED
  BY <1>2, <1>7 DEF c

\* A row of a view makes one series.
LEMMA SeriesMade ==
  ASSUME NEW datum, datum.rows \in Seq(Range(datum.rows))
  PROVE  LET fresh == MakeTimeSeries(datum, Custom) IN
         /\ fresh \in Seq(Range(fresh)) /\ Len(fresh) = Len(datum.rows)
         /\ Range(fresh) = SeriesOf(datum)
<1> DEFINE F(j) == TimeSeries(datum.view, datum.rows[j], ViewDataType(datum.view), Custom)
           fresh == MakeTimeSeries(datum, Custom)
<1>1. fresh = [j \in DOMAIN datum.rows |-> F(j)]
  BY DEF MakeTimeSeries, Accessor
<1>2. DOMAIN datum.rows = 1 .. Len(datum.rows) /\ Len(datum.rows) \in Nat
  OBVIOUS
<1>3. SeriesOf(datum) = {F(j) : j \in DOMAIN datum.rows}
  BY DEF SeriesOf
<1> HIDE DEF F, fresh
<1>4. Range(fresh) = SeriesOf(datum)
  BY <1>1, <1>3 DEF Range
<1>5. fresh \in [1 .. Len(datum.rows) -> Range(fresh)]
  BY <1>1, <1>2 DEF Range
<1>6. fresh \in Seq(Range(fresh)) /\ Len(fresh) = Len(datum.rows)
  BY <1>2, <1>5
<1> QED
  BY <1>4, <1>6 DEF fresh

----------------------------------------------------------------------------
\* The loop over the views: whether rows of a visited view are sent, and whether it is
\* remembered, by what was registered before the loop.
NameOf(visit) == visit.datum.view.name

Taken(visit) ==
  Custom => IF NameOf(visit) \in DOMAIN series_descriptors_
            THEN series_descriptors_[NameOf(visit)] = visit.datum.view ELSE visit.ok

Added(visit) == Custom /\ NameOf(visit) \notin DOMAIN series_descriptors_ /\ visit.ok

LengthsOf(visits) ==
  [i \in DOMAIN visits |-> IF Taken(visits[i]) THEN Len(visits[i].datum.rows) ELSE 0]

\* What is so after k visits.
AfterVisits(visits, k, acc) ==
  /\ DOMAIN acc.registered =
       DOMAIN series_descriptors_ \cup {NameOf(visits[i]) : i \in {j \in 1 .. k : Added(visits[j])}}
  /\ \A name \in DOMAIN series_descriptors_ : acc.registered[name] = series_descriptors_[name]
  /\ \A i \in 1 .. k : Added(visits[i]) =>
       acc.registered[NameOf(visits[i])] = visits[i].datum.view
  /\ acc.time_series \in Seq(Range(acc.time_series))
  /\ Len(acc.time_series) = Adding!Fold(LengthsOf(visits), 0, 1 .. k)
  /\ Range(acc.time_series) =
       UNION {SeriesOf(visits[i].datum) : i \in {j \in 1 .. k : Taken(visits[j])}}

VisitsOK(visits) ==
  /\ visits \in Seq(Range(visits))
  /\ \A i \in DOMAIN visits : LET rows == visits[i].datum.rows IN
       rows \in Seq(Range(rows)) /\ visits[i].ok \in BOOLEAN
  /\ \A i, j \in DOMAIN visits : NameOf(visits[i]) = NameOf(visits[j]) => i = j

\* A function with values for more arguments.
LEMMA Extended ==
  ASSUME NEW f, NEW g
  PROVE  /\ DOMAIN Over(f, g) = DOMAIN f \cup DOMAIN g
         /\ \A x \in DOMAIN f : Over(f, g)[x] = f[x]
         /\ \A x \in DOMAIN g \ DOMAIN f : Over(f, g)[x] = g[x]
BY DEF Over

\* A visit registers its view at most.
LEMMA VisitRegisters ==
  ASSUME OptionsOK, NEW visits, VisitsOK(visits), NEW k \in Nat, k + 1 \in DOMAIN visits,
         NEW acc, AfterVisits(visits, k, acc)
  PROVE  LET visit == visits[k + 1]
             next == VisitView(acc, visit)
         IN /\ next.registered =
                 IF Added(visit) THEN Over(acc.registered, [name \in {NameOf(visit)} |-> visit.datum.view])
                 ELSE acc.registered
            /\ next.time_series =
                 IF Taken(visit) THEN acc.time_series \o MakeTimeSeries(visit.datum, Custom)
                 ELSE acc.time_series
<1> DEFINE visit == visits[k + 1]  view == visit.datum.view  R == acc.registered
           maybe == IF Custom THEN MaybeRegisterView(R, view, visit.ok)
                    ELSE [registered |-> R, result |-> TRUE]
<1>1. NameOf(visit) \in DOMAIN R <=> NameOf(visit) \in DOMAIN series_descriptors_
  <2>1. \A i \in 1 .. k : NameOf(visits[i]) # NameOf(visit)
    <3>1. \A i \in 1 .. k : i \in DOMAIN visits /\ i # k + 1
      BY DEF VisitsOK
    <3> QED
      BY <3>1 DEF VisitsOK
  <2> QED
    BY <2>1 DEF AfterVisits
<1>2. NameOf(visit) \in DOMAIN series_descriptors_ =>
        R[NameOf(visit)] = series_descriptors_[NameOf(visit)]
  BY DEF AfterVisits
<1>3. /\ maybe.registered = IF Added(visit) THEN Over(R, [name \in {NameOf(visit)} |-> view]) ELSE R
      /\ maybe.result <=> Taken(visit)
  <2>1. visit.ok \in BOOLEAN
    BY DEF VisitsOK
  <2> QED
    BY <1>1, <1>2, <2>1 DEF MaybeRegisterView, Added, Taken, NameOf
<1>4. IsKnownCustomMetric(MakeType(view)) = Custom
  <2>1. IsKnownCustomMetric(MakeType(view)) \in BOOLEAN /\ Custom \in BOOLEAN
    BY DEF IsKnownCustomMetric, Custom
  <2> QED
    BY <2>1, MetricTypes
<1>5. VisitView(acc, visit) =
        [registered |-> maybe.registered,
         time_series |-> IF maybe.result
                         THEN acc.time_series \o MakeTimeSeries(visit.datum, Custom)
                         ELSE acc.time_series]
  BY <1>4, Zenon DEF VisitView
<1> HIDE DEF maybe
<1> QED
  BY <1>3, <1>5

\* The sum of the first k lengths.
LEMMA SumsUpTo ==
  ASSUME NEW lengths, NEW k \in Nat
  PROVE  /\ Adding!Fold(lengths, 0, 1 .. 0) = 0
         /\ Adding!Fold(lengths, 0, 1 .. k + 1) = Adding!Fold(lengths, 0, 1 .. k) + lengths[k + 1]
<1>1. k + 1 \in Nat /\ k + 1 > 0 /\ (k + 1) - 1 = k
  OBVIOUS
<1>2. (\A j \in 1 .. k + 1 : Max(1 .. j) = j) /\ Adding!Chooses(1 .. k + 1)
  BY <1>1, PrefixesAreVisited DEF Adding!Chooses
<1>3. /\ Adding!Fold(lengths, 0, 1 .. 0) = 0
      /\ k + 1 > 0 => Adding!Fold(lengths, 0, 1 .. k + 1)
                        = NumberAdded(lengths[k + 1], Adding!Fold(lengths, 0, 1 .. (k + 1) - 1))
  BY <1>1, <1>2, Adding!FoldUpTo
<1> QED
  BY <1>1, <1>3 DEF NumberAdded, Plus

\* One visit more.
LEMMA OneMoreVisit ==
  ASSUME OptionsOK, NEW visits, VisitsOK(visits), NEW k \in Nat, k + 1 \in DOMAIN visits,
         NEW acc, AfterVisits(visits, k, acc)
  PROVE  AfterVisits(visits, k + 1, VisitView(acc, visits[k + 1]))
<1> DEFINE visit == visits[k + 1]  view == visit.datum.view  R == acc.registered
           T == acc.time_series  next == VisitView(acc, visit)
           fresh == MakeTimeSeries(visit.datum, Custom)
<1>1. /\ next.registered = IF Added(visit) THEN Over(R, [name \in {NameOf(visit)} |-> view]) ELSE R
      /\ next.time_series = IF Taken(visit) THEN T \o fresh ELSE T
  BY VisitRegisters
<1>2. 1 .. k + 1 = (1 .. k) \cup {k + 1} /\ k + 1 \notin 1 .. k
  OBVIOUS
<1>3. \A i \in 1 .. k : i \in DOMAIN visits /\ NameOf(visits[i]) # NameOf(visit)
  <2>1. \A i \in 1 .. k : i \in DOMAIN visits /\ i # k + 1
    BY DEF VisitsOK
  <2> QED
    BY <2>1 DEF VisitsOK
<1> HIDE DEF next, fresh
<1>0. ASSUME Added(visit)
      PROVE  /\ DOMAIN next.registered = DOMAIN R \cup {NameOf(visit)}
             /\ \A name \in DOMAIN R : next.registered[name] = R[name]
             /\ NameOf(visit) \notin DOMAIN R => next.registered[NameOf(visit)] = view
  <2> DEFINE one == [name \in {NameOf(visit)} |-> view]
  <2>1. DOMAIN one = {NameOf(visit)} /\ one[NameOf(visit)] = view
    OBVIOUS
  <2>2. next.registered = Over(R, one)
    BY <1>0, <1>1
  <2> HIDE DEF one
  <2>3. /\ DOMAIN Over(R, one) = DOMAIN R \cup DOMAIN one
        /\ \A name \in DOMAIN R : Over(R, one)[name] = R[name]
        /\ \A name \in DOMAIN one \ DOMAIN R : Over(R, one)[name] = one[name]
    BY Extended
  <2> QED
    BY <2>1, <2>2, <2>3
<1>4. DOMAIN next.registered =
        DOMAIN series_descriptors_
          \cup {NameOf(visits[i]) : i \in {j \in 1 .. k + 1 : Added(visits[j])}}
  <2>1. DOMAIN R = DOMAIN series_descriptors_
                     \cup {NameOf(visits[i]) : i \in {j \in 1 .. k : Added(visits[j])}}
    BY DEF AfterVisits
  <2>2. DOMAIN next.registered = DOMAIN R \cup (IF Added(visit) THEN {NameOf(visit)} ELSE {})
    BY <1>0, <1>1
  <2>3. {j \in 1 .. k + 1 : Added(visits[j])} =
          {j \in 1 .. k : Added(visits[j])} \cup (IF Added(visit) THEN {k + 1} ELSE {})
    BY <1>2
  <2> QED
    BY <2>1, <2>2, <2>3
<1>5. \A name \in DOMAIN series_descriptors_ : next.registered[name] = series_descriptors_[name]
  BY <1>0, <1>1 DEF AfterVisits
<1>6. ASSUME NEW i \in 1 .. k + 1, Added(visits[i])
      PROVE  next.registered[NameOf(visits[i])] = visits[i].datum.view
  <2>1. CASE i = k + 1
    <3>1. NameOf(visit) \notin DOMAIN R
      BY <1>3, <1>6, <2>1 DEF AfterVisits, Added
    <3> QED
      BY <1>0, <1>6, <2>1, <3>1
  <2>2. CASE i \in 1 .. k
    <3>1. R[NameOf(visits[i])] = visits[i].datum.view /\ NameOf(visits[i]) \in DOMAIN R
      BY <1>6, <2>2 DEF AfterVisits
    <3> QED
      BY <1>0, <1>1, <1>3, <2>2, <3>1
  <2> QED
    BY <1>2, <2>1, <2>2
<1>7. /\ T \in Seq(Range(T)) /\ fresh \in Seq(Range(fresh)) /\ Len(fresh) = Len(visit.datum.rows)
      /\ Range(fresh) = SeriesOf(visit.datum)
  <2>1. visit.datum.rows \in Seq(Range(visit.datum.rows))
    BY DEF VisitsOK
  <2> QED
    BY <2>1, SeriesMade DEF AfterVisits, fresh
<1>8. /\ next.time_series \in Seq(Range(next.time_series))
      /\ Len(next.time_series) = Len(T) + (IF Taken(visit) THEN Len(fresh) ELSE 0)
      /\ Range(next.time_series) = Range(T) \cup (IF Taken(visit) THEN Range(fresh) ELSE {})
  <2>1. /\ T \o fresh \in Seq(Range(T \o fresh)) /\ Len(T \o fresh) = Len(T) + Len(fresh)
        /\ Range(T \o fresh) = Range(T) \cup Range(fresh)
    BY <1>7, ConcatRange
  <2>2. Len(T) + 0 = Len(T)
    BY <1>7
  <2> QED
    BY <1>1, <1>7, <2>1, <2>2
<1>9. Len(next.time_series) = Adding!Fold(LengthsOf(visits), 0, 1 .. k + 1)
  <2>1. LengthsOf(visits)[k + 1] = IF Taken(visit) THEN Len(visit.datum.rows) ELSE 0
    BY DEF LengthsOf
  <2>2. Len(T) = Adding!Fold(LengthsOf(visits), 0, 1 .. k)
    BY DEF AfterVisits
  <2> QED
    BY <1>7, <1>8, <2>1, <2>2, SumsUpTo
<1>10. Range(next.time_series) =
         UNION {SeriesOf(visits[i].datum) : i \in {j \in 1 .. k + 1 : Taken(visits[j])}}
  <2>1. Range(T) = UNION {SeriesOf(visits[i].datum) : i \in {j \in 1 .. k : Taken(visits[j])}}
    BY DEF AfterVisits
  <2>2. {j \in 1 .. k + 1 : Taken(visits[j])} =
          {j \in 1 .. k : Taken(visits[j])} \cup (IF Taken(visit) THEN {k + 1} ELSE {})
    BY <1>2
  <2> QED
    BY <1>7, <1>8, <2>1, <2>2
<1> QED
  BY <1>4, <1>5, <1>6, <1>8, <1>9, <1>10 DEF AfterVisits, next

\* The loop, over any views of different names.
LEMMA LoopDone ==
  ASSUME OptionsOK, NEW visits, VisitsOK(visits)
  PROVE  AfterVisits(visits, Len(visits),
                     FoldLeft(VisitView, [registered |-> series_descriptors_, time_series |-> <<>>],
                              visits))
<1> DEFINE n == Len(visits)
           start == [registered |-> series_descriptors_, time_series |-> <<>>]
           acc(k) == Visits!Fold(visits, start, 1 .. k)
           Good == {k \in 0 .. n : AfterVisits(visits, k, acc(k))}
<1>1. n \in Nat /\ DOMAIN visits = 1 .. n
  BY DEF VisitsOK
<1>2. ASSUME NEW k \in 0 .. n
      PROVE  acc(0) = start /\ (k > 0 => acc(k) = SeriesVisited(visits[k], acc(k - 1)))
  <2>1. k \in Nat
    BY <1>1
  <2>2. (\A j \in 1 .. k : Max(1 .. j) = j) /\ Visits!Chooses(1 .. k)
    BY <2>1, PrefixesAreVisited DEF Visits!Chooses
  <2> QED
    BY <2>1, <2>2, Visits!FoldUpTo
<1>3. 0 \in Good
  <2>1. 0 \in 0 .. n /\ acc(0) = start /\ 1 .. 0 = {} /\ Len(<<>>) = 0
    BY <1>1, <1>2
  <2>2. <<>> \in Seq(Range(<<>>)) /\ Range(<<>>) = {}
    BY DEF Range
  <2>3. Adding!Fold(LengthsOf(visits), 0, 1 .. 0) = 0
    BY SumsUpTo
  <2>4. AfterVisits(visits, 0, start)
    <3> HIDE DEF acc
    <3> QED
      BY <2>1, <2>2, <2>3 DEF AfterVisits
  <2> HIDE DEF acc
  <2> QED
    BY <2>1, <2>4
<1>4. ASSUME NEW k \in Good, k < n PROVE k + 1 \in Good
  <2>1. k \in Nat /\ k + 1 \in 0 .. n /\ k + 1 > 0 /\ (k + 1) - 1 = k /\ k + 1 \in DOMAIN visits
    BY <1>1, <1>4
  <2>2. acc(k + 1) = SeriesVisited(visits[k + 1], acc(k))
    BY <1>2, <2>1
  <2>3. AfterVisits(visits, k, acc(k))
    BY <1>4
  <2> HIDE DEF acc
  <2>4. AfterVisits(visits, k + 1, VisitView(acc(k), visits[k + 1]))
    BY <2>1, <2>3, OneMoreVisit
  <2> QED
    BY <2>1, <2>2, <2>4 DEF SeriesVisited
<1>5. n \in Good
  <2>1. Good \in SUBSET (0 .. n)
    OBVIOUS
  <2> HIDE DEF Good, n
  <2> QED
    BY <1>1, <1>3, <1>4, <2>1, Adding!InductionUpTo
<1>6. FoldLeft(VisitView, start, visits) = acc(n)
  BY <1>1 DEF FoldLeft, MapThenFoldSet, Visits!Fold, Visits!MapThenFoldSet, SeriesVisited
<1> QED
  BY <1>5, <1>6
----------------------------------------------------------------------------
\* A program's options have a prefix, or get one.
LEMMA OptionsStart == SeriesInit => OptionsOK
<1> SUFFICES ASSUME NEW settings \in Settings,
                    NEW register \in Registered(Over(settings, StackdriverOptions)),
                    given = [by |-> register.by, opts |-> register.opts],
                    opts_ = SetOptionDefaults(register.made)
             PROVE  OptionsOK
  BY DEF SeriesInit
<1> DEFINE o == Over(settings, StackdriverOptions)
           fields == {"project_id", "opencensus_task", "rpc_deadline", "monitored_resource",
                      "per_metric_monitored_resource", "metric_name_prefix",
                      "metric_service_stub", "prepare_client_context"}
           named == [StackdriverOptions EXCEPT !.project_id = o.project_id,
                                               !.opencensus_task = o.opencensus_task]
           lost == [o EXCEPT !.metric_service_stub = "null"]
           options == register.made
<1>1. /\ DOMAIN StackdriverOptions = fields /\ DOMAIN named = fields
      /\ StackdriverOptions.metric_name_prefix = <<>> /\ <<>> \in Seq(Range(<<>>))
      /\ named.metric_name_prefix = <<>>
  <2>1. DOMAIN StackdriverOptions = fields /\ StackdriverOptions.metric_name_prefix = <<>>
    BY Zenon DEF StackdriverOptions
  <2> DEFINE D == StackdriverOptions  N == [D EXCEPT !.project_id = o.project_id]
  <2>2. DOMAIN N = DOMAIN D /\ N.metric_name_prefix = D.metric_name_prefix
    <3> HIDE DEF o, D, fields
    <3> QED
      OBVIOUS
  <2>3. named = [N EXCEPT !.opencensus_task = o.opencensus_task]
    OBVIOUS
  <2>4. DOMAIN named = DOMAIN N /\ named.metric_name_prefix = N.metric_name_prefix
    <3> HIDE DEF o, N, fields, named
    <3> QED
      BY <2>3
  <2> QED
    BY <2>1, <2>2, <2>4
<1>2. fields \subseteq DOMAIN o /\ o.metric_name_prefix \in Seq(Range(o.metric_name_prefix))
  <2>1. "metric_name_prefix" \in DOMAIN settings =>
          settings.metric_name_prefix \in Seq(Range(settings.metric_name_prefix))
    BY SeriesAssumption
  <2> QED
    BY <1>1, <2>1, Extended DEF Over
<1>3. \/ register = [by |-> "move", opts |-> o, made |-> o]
      \/ register = [by |-> "copy", opts |-> o, made |-> lost]
      \/ register = [by |-> "names", opts |-> named, made |-> named]
  BY DEF Registered
<1>4. /\ fields \subseteq DOMAIN options
      /\ options.metric_name_prefix \in Seq(Range(options.metric_name_prefix))
      /\ options.project_id = register.opts.project_id
      /\ options.prepare_client_context = register.opts.prepare_client_context
      /\ options.rpc_deadline = register.opts.rpc_deadline
      /\ register.by # "copy" => options.metric_service_stub = register.opts.metric_service_stub
  <2>1. /\ fields \subseteq DOMAIN lost /\ lost.metric_name_prefix = o.metric_name_prefix
        /\ lost.project_id = o.project_id
        /\ lost.prepare_client_context = o.prepare_client_context
        /\ lost.rpc_deadline = o.rpc_deadline
    <3> HIDE DEF o
    <3> QED
      BY <1>2
  <2>2. CASE register = [by |-> "move", opts |-> o, made |-> o]
    <3>1. options = o /\ register.opts = o
      BY <2>2
    <3> QED
      BY <1>2, <3>1
  <2>3. CASE register = [by |-> "copy", opts |-> o, made |-> lost]
    <3>1. options = lost /\ register.opts = o /\ register.by = "copy"
      BY <2>3
    <3> HIDE DEF o, lost, options
    <3> QED
      BY <1>2, <2>1, <3>1
  <2>4. CASE register = [by |-> "names", opts |-> named, made |-> named]
    <3>1. options = named /\ register.opts = named
      BY <2>4
    <3> HIDE DEF o, named, options
    <3> QED
      BY <1>1, <3>1
  <2> QED
    BY <1>3, <2>2, <2>3, <2>4
<1> HIDE DEF options, o, named, lost
<1>5. /\ opts_.project_id = <<"projects/", options.project_id>>
      /\ opts_.prepare_client_context = options.prepare_client_context
      /\ opts_.rpc_deadline = options.rpc_deadline
      /\ opts_.metric_name_prefix =
           IF options.metric_name_prefix = <<>> THEN <<"custom.googleapis.com/", "opencensus/">>
           ELSE options.metric_name_prefix
      /\ options.metric_service_stub # "null" => opts_.metric_service_stub = options.metric_service_stub
  <2> DEFINE task == IF options.opencensus_task = "" THEN "cpp-{PID}@{HOSTNAME}"
                     ELSE options.opencensus_task
             all == [options EXCEPT !.project_id = <<"projects/", @>>, !.opencensus_task = task,
                 !.metric_name_prefix =
                   IF @ = <<>> THEN <<"custom.googleapis.com/", "opencensus/">> ELSE @,
                 !.metric_service_stub = IF @ = "null" THEN "monitoring.googleapis.com" ELSE @]
  <2>1. opts_ = all
    BY Zenon DEF SetOptionDefaults, options
  <2>2. /\ all.project_id = <<"projects/", options.project_id>>
        /\ all.prepare_client_context = options.prepare_client_context
        /\ all.rpc_deadline = options.rpc_deadline
        /\ all.metric_name_prefix =
             IF options.metric_name_prefix = <<>> THEN <<"custom.googleapis.com/", "opencensus/">>
             ELSE options.metric_name_prefix
        /\ options.metric_service_stub # "null" => all.metric_service_stub = options.metric_service_stub
    <3> HIDE DEF task
    <3> QED
      BY <1>4
  <2> HIDE DEF all
  <2> QED
    BY <2>1, <2>2
<1>6. opts_.metric_name_prefix \in Seq(Range(opts_.metric_name_prefix)) /\ opts_.metric_name_prefix # <<>>
  <2> DEFINE default == <<"custom.googleapis.com/", "opencensus/">>
  <2>1. default \in Seq(Range(default)) /\ default # <<>>
    <3>1. ASSUME NEW x, NEW y
          PROVE  <<x, y>> \in Seq(Range(<<x, y>>)) /\ <<x, y>> # <<>>
      <4>1. <<x, y>> = [i \in 1 .. 2 |-> IF i = 1 THEN x ELSE y]
        OBVIOUS
      <4> QED
        BY <4>1 DEF Range
    <3> QED
      BY <3>1, Zenon
  <2> HIDE DEF default
  <2> QED
    BY <1>4, <1>5, <2>1, Zenon DEF default
<1>7. given.by = register.by /\ given.opts = register.opts
  OBVIOUS
<1> QED
  BY <1>4, <1>5, <1>6, <1>7 DEF OptionsOK

\* A sum, unfolded.
LEMMA TotalIs ==
  ASSUME NEW lengths, NEW n \in Nat, DOMAIN lengths = 1 .. n
  PROVE  Total(lengths) = Adding!Fold(lengths, 0, 1 .. n)
BY DEF Total, FoldLeft, MapThenFoldSet, Adding!Fold, Adding!MapThenFoldSet, NumberAdded

\* No series need no request.
LEMMA NothingToSend == Batches(<<>>) = <<>> /\ FlattenSeq(<<>>) = <<>>
<1>1. Len(<<>>) = 0 /\ NumRpcs(0) = 0
  BY RequestsCut
<1>2. DOMAIN Batches(<<>>) = 1 .. NumRpcs(Len(<<>>))
  BY DEF Batches, NumRpcs
<1>3. Batches(<<>>) = [i \in 1 .. 0 |-> Batches(<<>>)[i]]
  BY <1>1, <1>2 DEF Batches
<1> QED
  BY <1>1, <1>3 DEF FlattenSeq

\* At first nothing is described, and nothing sent.
LEMMA SeriesInvStarts == SeriesInit => SeriesInv
<1> SUFFICES ASSUME SeriesInit PROVE SeriesInv
  OBVIOUS
<1>1. OptionsOK
  BY OptionsStart
<1>2. DescribedOK
  BY DEF DescribedOK, SeriesInit
<1>3. exported = <<>> /\ exported \in ExportData
  <2> DEFINE n == Cardinality(MetricNames)
             D == [view : {v \in MetricViews : Exported(v)}, rows : MetricRows]
  <2>1. n \in Nat
    BY SeriesAssumption, FS_CardinalityType
  <2>2. exported = <<>> /\ exported \in [1 .. 0 -> D] /\ 0 \in 0 .. n /\ DOMAIN exported = {}
    BY <2>1 DEF SeriesInit
  <2> HIDE DEF n, D
  <2>3. exported \in UNION {[1 .. k -> D] : k \in 0 .. n}
    BY <2>2
  <2> QED
    BY <2>2, <2>3 DEF ExportData, n, D
<1>4. Sent = <<>> /\ requests = Batches(Sent)
  <2>1. requests = <<>> /\ [i \in DOMAIN requests |-> requests[i].time_series] = <<>>
    BY DEF SeriesInit
  <2> QED
    BY <2>1, NothingToSend DEF Sent
<1>5. SentOK(<<>>)
  <2> DEFINE L == [i \in DOMAIN exported |->
                     IF Exportable(exported[i].view) THEN Len(exported[i].rows) ELSE 0]
  <2>1. DOMAIN L = 1 .. 0 /\ DOMAIN exported = {}
    BY <1>3
  <2>2. Total(L) = 0
    <3> HIDE DEF L
    <3> QED
      BY <2>1, TotalIs, SumsUpTo
  <2> QED
    BY <2>1, <2>2 DEF SentOK, Range
<1> QED
  BY <1>1, <1>2, <1>3, <1>4, <1>5 DEF SeriesInv
----------------------------------------------------------------------------
\* The views of an export, as the loop visits them.
LEMMA DataVisited ==
  ASSUME NEW data \in ExportData, NEW answer
  PROVE  LET visits == [i \in DOMAIN data |->
                          [datum |-> data[i], ok |-> answer[data[i].view.name] = "ok"]]
         IN /\ VisitsOK(visits) /\ DOMAIN data = 1 .. Len(visits)
            /\ \A i \in DOMAIN data : data[i].view \in MetricViews /\ data[i].view.name \in MetricNames
            /\ \A i, j \in DOMAIN data : data[i].view.name = data[j].view.name => i = j
<1> DEFINE D == [view : {v \in MetricViews : Exported(v)}, rows : MetricRows]
           visits == [i \in DOMAIN data |->
                        [datum |-> data[i], ok |-> answer[data[i].view.name] = "ok"]]
<1>1. \A i, j \in DOMAIN data : data[i].view.name = data[j].view.name => i = j
  BY DEF ExportData
<1>2. PICK n \in 0 .. Cardinality(MetricNames) : data \in [1 .. n -> D]
  BY DEF ExportData
<1>3. n \in Nat /\ DOMAIN data = 1 .. n /\ \A i \in 1 .. n : data[i] \in D
  <2>1. Cardinality(MetricNames) \in Nat
    BY SeriesAssumption, FS_CardinalityType
  <2> QED
    BY <1>2, <2>1
<1>4. ASSUME NEW i \in DOMAIN data
      PROVE  /\ data[i].view \in MetricViews /\ data[i].view.name \in MetricNames
             /\ data[i].rows \in Seq(Range(data[i].rows))
  <2>1. data[i].view \in MetricViews /\ data[i].rows \in MetricRows
    BY <1>3
  <2> QED
    BY <2>1, SeriesAssumption
<1>5. DOMAIN visits = 1 .. n /\ visits \in Seq(Range(visits)) /\ Len(visits) = n
  <2>1. visits \in [1 .. n -> Range(visits)]
    BY <1>3 DEF Range
  <2> HIDE DEF visits
  <2> QED
    BY <1>3, <2>1
<1>6. \A i \in DOMAIN visits : /\ visits[i].datum = data[i] /\ visits[i].ok \in BOOLEAN
                               /\ NameOf(visits[i]) = data[i].view.name
  BY DEF NameOf
<1> HIDE DEF visits
<1>7. VisitsOK(visits)
  BY <1>1, <1>3, <1>4, <1>5, <1>6 DEF VisitsOK
<1> QED
  BY <1>1, <1>3, <1>4, <1>5, <1>7 DEF visits

\* After an export the metric of a view is known as the view describes it, or not
\* custom, just if its rows are sent.
LEMMA TakenIsExportable ==
  ASSUME NEW visits, VisitsOK(visits), NEW n \in Nat, DOMAIN visits = 1 .. n,
         NEW acc, AfterVisits(visits, n, acc), NEW i \in 1 .. n
  PROVE  Taken(visits[i]) <=>
           (Custom => /\ NameOf(visits[i]) \in DOMAIN acc.registered
                      /\ acc.registered[NameOf(visits[i])] = visits[i].datum.view)
<1> DEFINE name == NameOf(visits[i])
<1>1. visits[i].ok \in BOOLEAN
  BY DEF VisitsOK
<1>2. CASE ~Custom
  BY <1>2 DEF Taken
<1>3. CASE name \in DOMAIN series_descriptors_
  <2>1. name \in DOMAIN acc.registered /\ acc.registered[name] = series_descriptors_[name]
    BY <1>3 DEF AfterVisits
  <2> QED
    BY <1>3, <2>1 DEF Taken
<1>4. CASE Custom /\ name \notin DOMAIN series_descriptors_
  <2>1. Taken(visits[i]) <=> Added(visits[i])
    BY <1>1, <1>4 DEF Taken, Added
  <2>2. Added(visits[i]) =>
          name \in DOMAIN acc.registered /\ acc.registered[name] = visits[i].datum.view
    BY DEF AfterVisits
  <2>3. ASSUME name \in DOMAIN acc.registered PROVE Added(visits[i])
    <3>1. PICK j \in 1 .. n : Added(visits[j]) /\ NameOf(visits[j]) = name
      BY <1>4, <2>3 DEF AfterVisits
    <3>2. i = j
      BY <3>1 DEF VisitsOK
    <3> QED
      BY <3>1, <3>2
  <2> QED
    BY <1>4, <2>1, <2>2, <2>3
<1> QED
  BY <1>2, <1>3, <1>4

\* The views that the service is asked about have different names.
LEMMA AskedOnce ==
  ASSUME OptionsOK, NEW data, \A i, j \in DOMAIN data : data[i].view.name = data[j].view.name => i = j
  PROVE  LET asked == {datum.view : datum \in {d \in ToSet(data) :
                         /\ IsKnownCustomMetric(MakeType(d.view))
                         /\ d.view.name \notin DOMAIN series_descriptors_}}
         IN /\ asked = {data[i].view : i \in {j \in DOMAIN data :
                          Custom /\ data[j].view.name \notin DOMAIN series_descriptors_}}
            /\ \A v, w \in asked : v.name = w.name => v = w
<1> DEFINE asked == {datum.view : datum \in {d \in ToSet(data) :
                       /\ IsKnownCustomMetric(MakeType(d.view))
                       /\ d.view.name \notin DOMAIN series_descriptors_}}
           indices == {j \in DOMAIN data :
                         Custom /\ data[j].view.name \notin DOMAIN series_descriptors_}
<1>1. \A view : IsKnownCustomMetric(MakeType(view)) <=> Custom
  BY MetricTypes
<1>2. asked = {datum.view : datum \in {d \in ToSet(data) :
                 Custom /\ d.view.name \notin DOMAIN series_descriptors_}}
  BY <1>1
<1>3. asked = {data[i].view : i \in indices}
  <2> HIDE DEF asked
  <2> QED
    BY <1>2 DEF ToSet
<1> HIDE DEF asked, indices
<1>4. \A v, w \in asked : v.name = w.name => v = w
  <2> SUFFICES ASSUME NEW v \in asked, NEW w \in asked, v.name = w.name PROVE v = w
    OBVIOUS
  <2>1. PICK i \in DOMAIN data, j \in DOMAIN data : v = data[i].view /\ w = data[j].view
    BY <1>3 DEF indices
  <2> QED
    BY <2>1
<1> QED
  BY <1>3, <1>4 DEF asked, indices

\* What an export leaves remembered is what the service was told last.
LEMMA ExportDescribes ==
  ASSUME SeriesInv, NEW data \in ExportData, NEW answer, ExportViewData(data, answer)
  PROVE  DescribedOK'
<1> DEFINE visits == [i \in DOMAIN data |->
                        [datum |-> data[i], ok |-> answer[data[i].view.name] = "ok"]]
           n == Len(visits)
           after == FoldLeft(VisitView,
                      [registered |-> series_descriptors_, time_series |-> <<>>], visits)
           asked == {datum.view : datum \in {d \in ToSet(data) :
                       /\ IsKnownCustomMetric(MakeType(d.view))
                       /\ d.view.name \notin DOMAIN series_descriptors_}}
           done == {view \in asked : answer[view.name] # "refused"}
           told == [name \in {view.name : view \in done} |->
                      MetricDescriptor(CHOOSE view \in done : view.name = name, TRUE)]
           indices == {j \in DOMAIN data :
                         Custom /\ data[j].view.name \notin DOMAIN series_descriptors_}
           New(i) == Custom /\ data[i].view.name \notin DOMAIN series_descriptors_
                     /\ answer[data[i].view.name] = "ok"
<1> USE DEF SeriesInv
<1>1. /\ VisitsOK(visits) /\ DOMAIN data = 1 .. n
      /\ \A i \in DOMAIN data : data[i].view \in MetricViews /\ data[i].view.name \in MetricNames
      /\ \A i, j \in DOMAIN data : data[i].view.name = data[j].view.name => i = j
  BY DataVisited
<1>2. AfterVisits(visits, n, after)
  BY <1>1, LoopDone
<1>3. \A i \in DOMAIN data : /\ NameOf(visits[i]) = data[i].view.name
                             /\ visits[i].datum.view = data[i].view
                             /\ (Added(visits[i]) <=> New(i))
  BY DEF NameOf, Added
<1>4. asked = {data[i].view : i \in indices} /\ \A v, w \in asked : v.name = w.name => v = w
  BY <1>1, AskedOnce
<1>5. /\ series_descriptors_' = after.registered /\ described' = Over(told, described)
      /\ accepted' = [name \in MetricNames |->
           accepted[name] + Cardinality({view \in asked :
                              view.name = name /\ answer[name] = "ok"})]
      /\ opts_' = opts_
  BY DEF ExportViewData
<1> HIDE DEF visits, after, asked, told, n
<1>6. /\ DOMAIN series_descriptors_' =
           DOMAIN series_descriptors_ \cup {data[i].view.name : i \in {j \in DOMAIN data : New(j)}}
      /\ \A name \in DOMAIN series_descriptors_ :
           series_descriptors_'[name] = series_descriptors_[name]
      /\ \A i \in DOMAIN data : New(i) => series_descriptors_'[data[i].view.name] = data[i].view
  <2>1. /\ DOMAIN after.registered = DOMAIN series_descriptors_
             \cup {NameOf(visits[i]) : i \in {j \in 1 .. n : Added(visits[j])}}
        /\ \A name \in DOMAIN series_descriptors_ :
             after.registered[name] = series_descriptors_[name]
        /\ \A i \in 1 .. n : Added(visits[i]) =>
             after.registered[NameOf(visits[i])] = visits[i].datum.view
    BY <1>2 DEF AfterVisits
  <2> HIDE DEF New
  <2>2. {NameOf(visits[i]) : i \in {j \in 1 .. n : Added(visits[j])}}
          = {data[i].view.name : i \in {j \in DOMAIN data : New(j)}}
    BY <1>1, <1>3
  <2> QED
    BY <1>1, <1>3, <1>5, <2>1, <2>2
<1>7. /\ DOMAIN told = {view.name : view \in done}
      /\ \A view \in done : told[view.name] = MetricDescriptor(view, TRUE)
  <2>1. ASSUME NEW view \in done PROVE (CHOOSE v \in done : v.name = view.name) = view
    BY <1>4
  <2> QED
    BY <2>1 DEF told
<1>8. \A view : MetricDescriptor(view, TRUE)' = MetricDescriptor(view, TRUE)
  BY <1>5 DEF MetricDescriptor, MakeName, MakeType
<1>9. ASSUME NEW name \in DOMAIN series_descriptors_'
      PROVE  LET view == series_descriptors_'[name] IN
             /\ name \in MetricNames /\ view \in MetricViews /\ view.name = name
             /\ name \in DOMAIN described' /\ described'[name] = MetricDescriptor(view, TRUE)
  <2>1. /\ DOMAIN described' = DOMAIN told \cup DOMAIN described
        /\ \A x \in DOMAIN told : described'[x] = told[x]
        /\ \A x \in DOMAIN described \ DOMAIN told : described'[x] = described[x]
    <3>1. /\ DOMAIN Over(told, described) = DOMAIN told \cup DOMAIN described
          /\ \A x \in DOMAIN told : Over(told, described)[x] = told[x]
          /\ \A x \in DOMAIN described \ DOMAIN told : Over(told, described)[x] = described[x]
      BY Extended
    <3> QED
      BY <1>5, <3>1
  <2>2. CASE name \in DOMAIN series_descriptors_
    <3>1. name \notin DOMAIN told
      <4> SUFFICES ASSUME NEW view \in asked, view.name = name PROVE FALSE
        BY <1>7
      <4> QED
        BY <1>4, <2>2
    <3> QED
      BY <1>6, <2>1, <2>2, <3>1 DEF DescribedOK
  <2>3. CASE name \notin DOMAIN series_descriptors_
    <3>1. PICK i \in DOMAIN data : New(i) /\ data[i].view.name = name
      BY <1>6, <1>9, <2>3
    <3>2. data[i].view \in done
      BY <1>4, <3>1
    <3>3. name \in DOMAIN told /\ told[name] = MetricDescriptor(data[i].view, TRUE)
      BY <1>7, <3>1, <3>2
    <3> QED
      BY <1>1, <1>6, <2>1, <3>1, <3>3
  <2> QED
    BY <2>2, <2>3
<1>10. ASSUME NEW name \in MetricNames
       PROVE  accepted'[name] = IF name \in DOMAIN series_descriptors_' THEN 1 ELSE 0
  <2> DEFINE those == {view \in asked : view.name = name /\ answer[name] = "ok"}
  <2>1. /\ accepted[name] = IF name \in DOMAIN series_descriptors_ THEN 1 ELSE 0
        /\ accepted'[name] = accepted[name] + Cardinality(those)
    BY <1>5 DEF DescribedOK
  <2>2. CASE \E i \in DOMAIN data : New(i) /\ data[i].view.name = name
    <3>1. PICK i \in DOMAIN data : New(i) /\ data[i].view.name = name
      BY <2>2
    <3>2. those = {data[i].view}
      BY <1>4, <3>1
    <3>3. Cardinality(those) = 1
      BY <3>2, FS_Singleton
    <3>4. name \notin DOMAIN series_descriptors_ /\ name \in DOMAIN series_descriptors_'
      BY <1>6, <3>1
    <3> QED
      BY <2>1, <3>3, <3>4
  <2>3. CASE ~ \E i \in DOMAIN data : New(i) /\ data[i].view.name = name
    <3>1. those = {}
      <4> SUFFICES ASSUME NEW view \in those PROVE FALSE
        OBVIOUS
      <4>1. PICK i \in indices : view = data[i].view
        BY <1>4
      <4> QED
        BY <2>3, <4>1
    <3>2. Cardinality(those) = 0
      BY <3>1, FS_EmptySet
    <3>3. name \in DOMAIN series_descriptors_ <=> name \in DOMAIN series_descriptors_'
      BY <1>6, <2>3
    <3> HIDE DEF those
    <3> QED
      BY <2>1, <3>2, <3>3
  <2> QED
    BY <2>2, <2>3
<1>11. accepted' = [name \in MetricNames |-> IF name \in DOMAIN series_descriptors_' THEN 1 ELSE 0]
  <2>1. accepted' = [name \in MetricNames |-> accepted'[name]]
    BY <1>5
  <2> QED
    BY <1>10, <2>1
<1> QED
  BY <1>8, <1>9, <1>11 DEF DescribedOK

\* The rows of an export's views are sent, of those that can be.
LEMMA ExportSends ==
  ASSUME SeriesInv, NEW data \in ExportData, NEW answer, ExportViewData(data, answer)
  PROVE  (requests = Batches(Sent) /\ SentOK(Sent))'
<1> DEFINE visits == [i \in DOMAIN data |->
                        [datum |-> data[i], ok |-> answer[data[i].view.name] = "ok"]]
           n == Len(visits)
           after == FoldLeft(VisitView,
                      [registered |-> series_descriptors_, time_series |-> <<>>], visits)
           L == LengthsOf(visits)
<1> USE DEF SeriesInv
<1>1. VisitsOK(visits) /\ DOMAIN data = 1 .. n
  BY DataVisited
<1>2. AfterVisits(visits, n, after)
  BY <1>1, LoopDone
<1>3. n \in Nat /\ DOMAIN visits = 1 .. n
  BY <1>1 DEF VisitsOK
<1>4. \A i \in DOMAIN data : visits[i].datum = data[i] /\ NameOf(visits[i]) = data[i].view.name
  BY DEF NameOf
<1>5. /\ series_descriptors_' = after.registered /\ opts_' = opts_ /\ exported' = data
      /\ requests' = Batches(after.time_series)
  BY DEF ExportViewData
<1> HIDE DEF visits, after, n
<1>6. PICK ts : ts = after.time_series
  OBVIOUS
<1>7. /\ ts \in Seq(Range(ts)) /\ Len(ts) = Adding!Fold(L, 0, 1 .. n)
      /\ Range(ts) = UNION {SeriesOf(visits[i].datum) : i \in {j \in 1 .. n : Taken(visits[j])}}
  BY <1>2, <1>6 DEF AfterVisits
<1>8. Sent' = ts
  <2>1. requests' = Batches(ts)
    BY <1>5, <1>6
  <2>2. FlattenSeq([i \in DOMAIN Batches(ts) |-> Batches(ts)[i].time_series]) = ts
    BY <1>7, BatchesAre
  <2>3. Sent' = FlattenSeq([i \in DOMAIN requests' |-> requests'[i].time_series])
    BY DEF Sent
  <2> QED
    BY <2>1, <2>2, <2>3, Zenon
<1>9. (requests = Batches(Sent))'
  <2>1. Batches(ts)' = Batches(ts)
    BY <1>5 DEF Batches
  <2>2. (requests = Batches(Sent))' <=> requests' = Batches(ts)'
    BY <1>8, Zenon DEF Batches
  <2> QED
    BY <1>5, <1>6, <2>1, <2>2
<1>10. ASSUME NEW i \in DOMAIN data
       PROVE  Exportable(data[i].view)' <=> Taken(visits[i])
  <2>1. i \in 1 .. n
    BY <1>1
  <2>2. Taken(visits[i]) <=>
          (Custom => /\ data[i].view.name \in DOMAIN series_descriptors_'
                     /\ series_descriptors_'[data[i].view.name] = data[i].view)
    BY <1>1, <1>2, <1>3, <1>4, <1>5, <2>1, TakenIsExportable
  <2>3. IsKnownCustomMetric(MakeType(data[i].view))' <=> Custom
    <3>1. IsKnownCustomMetric(MakeType(data[i].view)) <=> Custom
      BY MetricTypes
    <3> QED
      BY <1>5, <3>1 DEF IsKnownCustomMetric, MakeType
  <2> QED
    BY <2>2, <2>3 DEF Exportable
<1>11. (Len(Sent) = Total([i \in DOMAIN exported |->
                             IF Exportable(exported[i].view) THEN Len(exported[i].rows) ELSE 0]))'
  <2> DEFINE K == [i \in DOMAIN data |->
                     IF Exportable(data[i].view)' THEN Len(data[i].rows) ELSE 0]
  <2>1. L = [i \in DOMAIN data |-> IF Taken(visits[i]) THEN Len(data[i].rows) ELSE 0]
    BY <1>1, <1>3, <1>4 DEF LengthsOf
  <2>2. K = L
    <3> HIDE DEF L
    <3> QED
      BY <1>10, <2>1
  <2>3. Total(L) = Adding!Fold(L, 0, 1 .. n)
    <3>1. DOMAIN L = 1 .. n
      BY <1>1, <2>1
    <3> HIDE DEF L
    <3> QED
      BY <1>3, <3>1, TotalIs
  <2>4. Len(ts) = Total(K)
    BY <1>7, <2>2, <2>3
  <2>5. (Total([i \in DOMAIN exported |->
                  IF Exportable(exported[i].view) THEN Len(exported[i].rows) ELSE 0]))' = Total(K)
    BY <1>5, Zenon DEF Total
  <2> QED
    BY <1>8, <2>4, <2>5, Zenon
<1>12. (Range(Sent) =
          UNION {SeriesOf(exported[i]) : i \in {k \in DOMAIN exported : Exportable(exported[k].view)}})'
  <2>1. \A datum : SeriesOf(datum)' = SeriesOf(datum)
    BY <1>5 DEF SeriesOf, TimeSeries, MakeType, MonitoredResourceForView, Custom,
                IsKnownCustomMetric
  <2>2. {j \in 1 .. n : Taken(visits[j])} = {k \in DOMAIN data : Exportable(data[k].view)'}
    BY <1>1, <1>10
  <2>3. Range(ts) = UNION {SeriesOf(data[i])' : i \in {k \in DOMAIN data : Exportable(data[k].view)'}}
    <3>1. \A i \in {k \in DOMAIN data : Exportable(data[k].view)'} :
            SeriesOf(visits[i].datum) = SeriesOf(data[i])'
      BY <1>4, <2>1
    <3> QED
      BY <1>7, <2>2, <3>1
  <2>4. Range(Sent)' = Range(ts)
    BY <1>8, Zenon DEF Range
  <2>5. (UNION {SeriesOf(exported[i]) : i \in {k \in DOMAIN exported : Exportable(exported[k].view)}})'
          = UNION {SeriesOf(data[i])' : i \in {k \in DOMAIN data : Exportable(data[k].view)'}}
    BY <1>5, Zenon
  <2> QED
    BY <2>3, <2>4, <2>5, Zenon
<1>13. (Sent \in Seq(Range(Sent)))'
  <2>1. Range(Sent)' = Range(ts)
    BY <1>8, Zenon DEF Range
  <2> QED
    BY <1>7, <1>8, <2>1, Zenon
<1> QED
  BY <1>9, <1>11, <1>12, <1>13, Zenon DEF SentOK

\* The invariant is inductive.
LEMMA SeriesInvIsKept == SeriesInv /\ [SeriesNext]_seriesVars => SeriesInv'
<1> SUFFICES ASSUME SeriesInv, [SeriesNext]_seriesVars PROVE SeriesInv'
  OBVIOUS
<1>1. ASSUME NEW data \in ExportData, NEW answer, ExportViewData(data, answer)
      PROVE  SeriesInv'
  <2>1. OptionsOK'
    BY <1>1 DEF SeriesInv, OptionsOK, ExportViewData
  <2>2. DescribedOK'
    BY <1>1, ExportDescribes
  <2>3. (requests = Batches(Sent) /\ SentOK(Sent))'
    BY <1>1, ExportSends
  <2>4. (exported \in ExportData)'
    BY <1>1 DEF ExportViewData, ExportData
  <2> QED
    BY <2>1, <2>2, <2>3, <2>4 DEF SeriesInv
<1>2. CASE UNCHANGED seriesVars
  <2>1. /\ opts_' = opts_ /\ given' = given /\ series_descriptors_' = series_descriptors_
        /\ described' = described /\ accepted' = accepted /\ exported' = exported
        /\ requests' = requests
    BY <1>2 DEF seriesVars
  <2>2. Sent' = Sent /\ Custom' = Custom /\ Range(Sent)' = Range(Sent)
    BY <2>1 DEF Sent, Custom, IsKnownCustomMetric, Range
  <2>3. /\ \A view : MetricDescriptor(view, TRUE)' = MetricDescriptor(view, TRUE)
        /\ \A view : Exportable(view)' = Exportable(view)
    BY <2>1 DEF MetricDescriptor, MakeName, MakeType, Exportable, IsKnownCustomMetric
  <2>4. \A datum : SeriesOf(datum)' = SeriesOf(datum)
    BY <2>1 DEF SeriesOf, TimeSeries, MakeType, MonitoredResourceForView, Custom,
                IsKnownCustomMetric
  <2>5. OptionsOK'
    BY <2>1 DEF SeriesInv, OptionsOK
  <2>6. DescribedOK'
    BY <2>1, <2>3 DEF SeriesInv, DescribedOK
  <2>7. (requests = Batches(Sent))'
    BY <2>1, <2>2 DEF SeriesInv, Batches
  <2>8. SentOK(Sent)'
    BY <2>1, <2>2, <2>3, <2>4 DEF SeriesInv, SentOK, Total
  <2> QED
    BY <2>1, <2>5, <2>6, <2>7, <2>8 DEF SeriesInv, ExportData
<1> QED
  BY <1>1, <1>2 DEF SeriesNext

----------------------------------------------------------------------------
\* The value of a series of a view that is exported is in the field of its metric's type.
LEMMA ValueTyped ==
  ASSUME NEW view \in MetricViews, Exported(view)
  PROVE  /\ ValueField[GetValueType(view)] = SetTypedValue(ViewDataType(view), GetValueType(view))
         /\ SetValue(ViewDataType(view), MetricType(view.aggregation))
              = FieldOf[MetricType(view.aggregation)]
<1>1. /\ view.measure \in {"double", "int64"} /\ view.window = "cumulative"
      /\ view.aggregation \in {"count", "sum", "last", "distribution"}
  BY SeriesAssumption DEF Exported
<1>2. CASE view.aggregation = "count"
  BY <1>1, <1>2 DEF ValueField, GetValueType, SetTypedValue, ViewDataType, TypeForDescriptor,
                    SetValue, MetricType, FieldOf
<1>3. CASE view.aggregation = "distribution"
  BY <1>1, <1>3 DEF ValueField, GetValueType, SetTypedValue, ViewDataType, TypeForDescriptor,
                    SetValue, MetricType, FieldOf
<1>4. CASE view.aggregation = "sum"
  BY <1>1, <1>4 DEF ValueField, GetValueType, SetTypedValue, ViewDataType, TypeForDescriptor,
                    NumberType, SetValue, MetricType, FieldOf
<1>5. CASE view.aggregation = "last"
  BY <1>1, <1>5 DEF ValueField, GetValueType, SetTypedValue, ViewDataType, TypeForDescriptor,
                    NumberType, SetValue, MetricType, FieldOf
<1> QED
  BY <1>1, <1>2, <1>3, <1>4, <1>5

\* A series that is made of a row is as its view is described.
LEMMA SeriesMatch ==
  ASSUME OptionsOK, DescribedOK, NEW datum, datum.view \in MetricViews, Exported(datum.view),
         Exportable(datum.view), NEW series \in SeriesOf(datum)
  PROVE  SeriesAgrees(series)
<1> DEFINE view == datum.view
<1>1. PICK j \in DOMAIN datum.rows :
        series = TimeSeries(view, datum.rows[j], ViewDataType(view), Custom)
  BY DEF SeriesOf
<1>2. /\ series.type = MakeType(view)
      /\ series.labels = TaskLabel(Custom) \cup ToSet(view.columns)
      /\ series.value = SetTypedValue(ViewDataType(view), GetValueType(view))
      /\ series.start_time = (view.aggregation # "last")
  <2> DEFINE task == IF Custom THEN opts_.opencensus_task ELSE ""
             type == MakeType(view)  resource == MonitoredResourceForView(view)
             labels == TaskLabel(Custom) \cup ToSet(view.columns)
             value == SetTypedValue(ViewDataType(view), GetValueType(view))
             start == view.aggregation # "last"
  <2>1. series = [type |-> type, row |-> datum.rows[j], resource |-> resource, labels |-> labels,
                  task |-> task, value |-> value, start_time |-> start]
    BY <1>1, Zenon DEF TimeSeries
  <2> HIDE DEF task, type, resource, labels, value, start
  <2>2. series.type = type /\ series.labels = labels /\ series.value = value
        /\ series.start_time = start
    BY <2>1
  <2> QED
    BY <2>2 DEF type, labels, value, start
<1>3. /\ IsKnownCustomMetric(MakeType(view)) <=> Custom
      /\ Last(MakeType(view)) = view.name
  BY MetricTypes
<1> SUFFICES ASSUME Custom
             PROVE  /\ view.name \in DOMAIN described
                    /\ described[view.name].type = series.type
                    /\ described[view.name].labels = series.labels
                    /\ ValueField[described[view.name].value_type] = series.value
                    /\ described[view.name].kind = "CUMULATIVE" <=> series.start_time
  BY <1>2, <1>3, Zenon DEF SeriesAgrees
<1>4. view.name \in DOMAIN described /\ described[view.name] = MetricDescriptor(view, TRUE)
  <2>1. view.name \in DOMAIN series_descriptors_ /\ series_descriptors_[view.name] = view
    BY <1>3 DEF Exportable
  <2> QED
    BY <2>1 DEF DescribedOK
<1>5. /\ described[view.name].type = MakeType(view)
      /\ described[view.name].labels = TaskLabel(TRUE) \cup ToSet(view.columns)
      /\ described[view.name].kind = IF view.aggregation = "last" THEN "GAUGE" ELSE "CUMULATIVE"
      /\ described[view.name].value_type = GetValueType(view)
  BY <1>4 DEF MetricDescriptor
<1>6. TaskLabel(TRUE) = TaskLabel(Custom)
  BY DEF TaskLabel
<1>7. ValueField[GetValueType(view)] = SetTypedValue(ViewDataType(view), GetValueType(view))
  BY ValueTyped
<1>8. described[view.name].kind = "CUMULATIVE" <=> series.start_time
  BY <1>2, <1>5
<1> QED
  BY <1>2, <1>4, <1>5, <1>6, <1>7, <1>8

\* Prometheus' families.
LEMMA FamiliesAreTyped == exported \in ExportData => FamiliesTyped(exported)
<1> SUFFICES ASSUME exported \in ExportData, NEW i \in DOMAIN exported
             PROVE  LET family == Collect(exported)[i] IN
                    /\ family.name = exported[i].view.name
                    /\ [k \in DOMAIN family.metric |-> family.metric[k].row] = exported[i].rows
                    /\ \A k \in DOMAIN family.metric :
                         family.metric[k].field = FieldOf[family.type]
  BY DEF FamiliesTyped
<1> DEFINE datum == exported[i]  view == datum.view  type == MetricType(view.aggregation)
           field == SetValue(ViewDataType(view), type)
           metric == [k \in DOMAIN datum.rows |->
                        [label |-> view.columns, row |-> datum.rows[k], field |-> field]]
           family == Collect(exported)[i]
<1>1. datum \in [view : {v \in MetricViews : Exported(v)}, rows : MetricRows]
  BY DEF ExportData
<1>2. view \in MetricViews /\ Exported(view) /\ datum.rows \in Seq(Range(datum.rows))
  BY <1>1, SeriesAssumption
<1>3. family = [name |-> view.name, type |-> type, metric |-> metric]
  BY DEF Collect, SetMetricFamily, SetData, Accessor
<1>4. field = FieldOf[type]
  BY <1>2, ValueTyped
<1> HIDE DEF metric, type, family, field
<1>5. family.name = view.name /\ family.type = type /\ family.metric = metric
  BY <1>3
<1>6. /\ DOMAIN metric = DOMAIN datum.rows
      /\ \A k \in DOMAIN datum.rows : metric[k].row = datum.rows[k] /\ metric[k].field = field
  BY DEF metric
<1>7. datum.rows = [k \in DOMAIN datum.rows |-> datum.rows[k]]
  BY <1>2
<1> QED
  BY <1>4, <1>5, <1>6, <1>7 DEF family

\* The invariant says what is promised.
LEMMA SeriesInvDescribes == SeriesInv => SeriesDescribed
<1> SUFFICES ASSUME SeriesInv PROVE SeriesDescribed
  OBVIOUS
<1> USE DEF SeriesInv
<1>1. /\ \A i \in DOMAIN requests :
           /\ Len(requests[i].time_series) \in 1 .. kTimeSeriesBatchSize
           /\ Range(requests[i].time_series) \subseteq Range(Sent)
           /\ requests[i].to = opts_.metric_service_stub /\ requests[i].name = opts_.project_id
           /\ requests[i].deadline = opts_.rpc_deadline
           /\ requests[i].context = opts_.prepare_client_context
  BY BatchesAre DEF SentOK
<1>2. \A i \in DOMAIN exported : exported[i].view \in MetricViews /\ Exported(exported[i].view)
  BY DEF ExportData
<1>3. ASSUME NEW series \in Range(Sent) PROVE SeriesAgrees(series)
  <2>1. PICK i \in DOMAIN exported : Exportable(exported[i].view) /\ series \in SeriesOf(exported[i])
    BY DEF SentOK
  <2> QED
    BY <1>2, <2>1, SeriesMatch
<1>4. ASSUME NEW request \in ToSet(requests)
      PROVE  /\ RequestAsAsked(request)
             /\ Len(request.time_series) \in 1 .. kTimeSeriesBatchSize
             /\ \A series \in ToSet(request.time_series) : SeriesAgrees(series)
  <2>1. PICK i \in DOMAIN requests : request = requests[i]
    BY DEF ToSet
  <2>2. Last(opts_.project_id) = given.opts.project_id
    BY DEF OptionsOK, Last
  <2>3. RequestAsAsked(request)
    BY <1>1, <2>1, <2>2 DEF RequestAsAsked, OptionsOK
  <2> QED
    BY <1>1, <1>3, <2>1, <2>3 DEF ToSet, Range
<1>5. \A name \in MetricNames : accepted[name] <= 1
  BY DEF DescribedOK
<1> DEFINE due == [i \in DOMAIN exported |->
                     IF Exportable(exported[i].view) THEN exported[i].rows ELSE <<>>]
<1>6. Len(Sent) = Total([i \in DOMAIN due |-> Len(due[i])])
  <2> DEFINE L == [i \in DOMAIN exported |->
                     IF Exportable(exported[i].view) THEN Len(exported[i].rows) ELSE 0]
  <2>1. [i \in DOMAIN due |-> Len(due[i])] = L
    <3>1. \A i \in DOMAIN exported :
            Len(due[i]) = IF Exportable(exported[i].view) THEN Len(exported[i].rows) ELSE 0
      BY Len(<<>>) = 0
    <3> DEFINE D == DOMAIN exported
    <3>2. DOMAIN due = D
      OBVIOUS
    <3> HIDE DEF due
    <3> QED
      BY <3>1, <3>2
  <2> QED
    BY <2>1 DEF SentOK
<1>7. ASSUME NEW i \in DOMAIN due, NEW row \in ToSet(due[i])
      PROVE  \E k \in DOMAIN Sent : Sent[k].type = MakeType(exported[i].view) /\ Sent[k].row = row
  <2> DEFINE view == exported[i].view
  <2>1. Exportable(view) /\ row \in ToSet(exported[i].rows)
    BY <1>7 DEF ToSet
  <2>2. PICK j \in DOMAIN exported[i].rows : row = exported[i].rows[j]
    BY <2>1 DEF ToSet
  <2> DEFINE series == TimeSeries(view, row, ViewDataType(view), Custom)
  <2>3. series \in SeriesOf(exported[i])
    BY <2>2 DEF SeriesOf
  <2>4. series \in Range(Sent)
    BY <2>1, <2>3 DEF SentOK
  <2>5. PICK k \in DOMAIN Sent : Sent[k] = series
    BY <2>4 DEF Range
  <2>6. series.type = MakeType(view) /\ series.row = row
    BY Zenon DEF TimeSeries
  <2> HIDE DEF series
  <2> QED
    BY <2>5, <2>6
<1>8. FamiliesTyped(exported)
  BY FamiliesAreTyped
<1> HIDE DEF due
<1> QED
  BY <1>4, <1>5, <1>6, <1>7, <1>8, Zenon DEF SeriesDescribed, Sent, due

\* Whatever calls to the service fail, or are done and not answered, and however views are
\* altered between exports: each series is as its metric was described last, each metric
\* is accepted once, and each row that can be sent is in one request of a legal size.
THEOREM SeriesDescribedAlways == SeriesSpec => []SeriesDescribed
<1>1. SeriesInit => SeriesInv
  BY SeriesInvStarts
<1>2. SeriesInv /\ [SeriesNext]_seriesVars => SeriesInv'
  BY SeriesInvIsKept
<1>3. SeriesInv => SeriesDescribed
  BY SeriesInvDescribes
<1> QED
  BY <1>1, <1>2, <1>3, PTL DEF SeriesSpec

----------------------------------------------------------------------------
----------------------------------------------------------------------------
\* What components of one part of the library promise together.

\* The two stores of spans answer what they are asked about the spans they have.
THEOREM SpanStoresAlwaysAnswer == StoreSpec /\ RunningSpec => []SpanStoresAnswer
<1>1. StoreAnswers /\ RunningAnswers => SpanStoresAnswer
  BY DEF SpanStoresAnswer
<1> QED
  BY <1>1, StoreAnswersAlways, RunningStoreAnswers, PTL

\* Sampling decisions, ids and the values of attributes agree wherever they are kept.
THEOREM SpanDataAlwaysAgrees ==
  SamplingSpec /\ IdentifierSpec /\ ValuesSpec => []SpanDataAgrees
<1>1. SamplingConsistent /\ IdentitiesAgree /\ ValuesKept => SpanDataAgrees
  BY DEF SpanDataAgrees
<1> QED
  BY <1>1, SamplingIsConsistent, IdentitiesHold, ValuesAreKept, PTL
=============================================================================
