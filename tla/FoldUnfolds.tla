---------------------------- MODULE FoldUnfolds ----------------------------
(***************************************************************************)
(* The folds of the community modules are defined by recursive functions   *)
(* on the subsets of a set.  For any operator that is folded, and any      *)
(* operator that chooses the element that comes next, these functions      *)
(* exist on finite sets, so that a fold may be unfolded.                   *)
(***************************************************************************)
EXTENDS Folds, FiniteSetTheorems, WellFoundedInduction, TLAPS

CONSTANTS op(_, _), choose(_)

Fold(e, base, S) == MapThenFoldSet(op, base, LAMBDA i : e[i], choose, S)

\* choose picks an element of each subset of S that has one.
Chooses(S) == \A s \in SUBSET S : s # {} => choose(s) \in s

\* g is the recursive function by which the fold over S is defined.
Computes(g, e, base, S) ==
  g = [s \in SUBSET S |-> IF s = {} THEN base
                          ELSE op(e[choose(s)], g[s \ {choose(s)}])]

LEMMA FoldIs ==
  ASSUME NEW e, NEW base, NEW S
  PROVE  Fold(e, base, S) = (CHOOSE g : Computes(g, e, base, S))[S]
  BY DEF Fold, MapThenFoldSet, Computes

\* A set of subsets of a finite set has a smallest one.
LEMMA MinimalSubset ==
  ASSUME NEW S, IsFiniteSet(S), NEW U \in SUBSET SUBSET S, U # {}
  PROVE  \E T \in U : \A R \in U : R \subseteq T => R = T
<1> DEFINE W == StrictSubsetOrdering(S)  F == FiniteSubsetsOf(S)
<1>1. IsWellFoundedOn(W, F)
  BY FS_StrictSubsetOrderingWellFounded
<1>2. U \subseteq F
  BY FS_FiniteSubsetsOfFinite
<1> HIDE DEF W, F
<1>3. \E T \in U : \A R \in U : ~ (<<R, T>> \in W)
  BY <1>1, <1>2, WFMin
<1> QED
  BY <1>3 DEF W, StrictSubsetOrdering

\* A set of natural numbers has a smallest one.
LEMMA SmallestNumber ==
  ASSUME NEW N \in SUBSET Nat, N # {}
  PROVE  \E m \in N : \A n \in N : m <= n
<1>1. PICK k \in N : TRUE
  OBVIOUS
<1> DEFINE U == {0 .. j : j \in {n \in N : n <= k}}
<1>2. PICK T \in U : \A R \in U : R \subseteq T => R = T
  <2> DEFINE S == 0 .. k
  <2>1. IsFiniteSet(S)
    BY FS_Interval
  <2>2. \A j \in N : j <= k => 0 .. j \subseteq S
    OBVIOUS
  <2>3. U \in SUBSET SUBSET S /\ 0 .. k \in U
    BY <2>2
  <2> HIDE DEF U, S
  <2> QED
    BY <2>1, <2>3, MinimalSubset
<1>3. PICK m \in N : m <= k /\ T = 0 .. m
  BY <1>2
<1>4. ASSUME NEW n \in N, n < m PROVE FALSE
  <2>1. n <= k /\ 0 .. n \subseteq 0 .. m
    BY <1>1, <1>3, <1>4
  <2>3. 0 .. n \in U
    BY <2>1
  <2>4. 0 .. n = 0 .. m
    BY <1>2, <1>3, <2>1, <2>3
  <2>5. m \in 0 .. m /\ ~ (m \in 0 .. n)
    BY <1>3, <1>4
  <2> QED
    BY <2>4, <2>5
<1> QED
  BY <1>4

\* A set of natural numbers up to n has a greatest one.
LEMMA GreatestNumber ==
  ASSUME NEW n \in Nat, NEW N \in SUBSET (0 .. n), N # {}
  PROVE  \E m \in N : \A k \in N : m >= k
<1> DEFINE U == {n - k : k \in N}
<1>1. \A k \in N : k \in Nat /\ n - k \in Nat
  OBVIOUS
<1>2. U \in SUBSET Nat /\ U # {}
  BY <1>1
<1>3. PICK l \in U : \A j \in U : l <= j
  <2> HIDE DEF U
  <2> QED
    BY <1>2, SmallestNumber
<1>4. PICK m \in N : l = n - m
  BY <1>3
<1>5. ASSUME NEW k \in N PROVE m >= k
  <2>1. n - m <= n - k
    BY <1>3, <1>4
  <2> QED
    BY <1>1, <2>1
<1> QED
  BY <1>5

\* There is no more than one such function.
LEMMA OneComputes ==
  ASSUME NEW e, NEW base, NEW S, IsFiniteSet(S), Chooses(S),
         NEW g, Computes(g, e, base, S), NEW h, Computes(h, e, base, S)
  PROVE  g = h
<1> DEFINE U == {s \in SUBSET S : g[s] # h[s]}
<1>1. CASE U = {}
  BY <1>1 DEF Computes
<1>2. CASE U # {}
  <2>1. PICK T \in U : \A R \in U : R \subseteq T => R = T
    <3>1. U \in SUBSET SUBSET S
      OBVIOUS
    <3> HIDE DEF U
    <3> QED
      BY <1>2, <3>1, MinimalSubset
  <2>2. CASE T = {}
    BY <2>1, <2>2 DEF Computes
  <2>3. CASE T # {}
    <3> DEFINE c == choose(T)
    <3>1. c \in T /\ T \subseteq S /\ T \ {c} \subseteq T /\ T \ {c} # T
      BY <2>1, <2>3 DEF Chooses
    <3>2. g[T \ {c}] = h[T \ {c}]
      BY <2>1, <3>1
    <3>3. g[T] = op(e[c], g[T \ {c}]) /\ h[T] = op(e[c], h[T \ {c}])
      BY <2>1, <2>3, <3>1 DEF Computes
    <3> QED
      BY <2>1, <3>2, <3>3
  <2> QED
    BY <2>2, <2>3
<1> QED
  BY <1>1, <1>2

\* It computes the fold over every subset.
LEMMA ComputesSubsets ==
  ASSUME NEW e, NEW base, NEW S, IsFiniteSet(S), Chooses(S),
         NEW g, Computes(g, e, base, S), NEW R \in SUBSET S
  PROVE  g[R] = Fold(e, base, R)
<1> DEFINE h == [s \in SUBSET R |-> g[s]]
<1>1. \A s \in SUBSET R : s \in SUBSET S /\ s \ {choose(s)} \in SUBSET R
  OBVIOUS
<1>2. h = [s \in SUBSET R |-> IF s = {} THEN base ELSE op(e[choose(s)], h[s \ {choose(s)}])]
  BY <1>1 DEF Computes
<1>3. Computes(h, e, base, R)
  BY <1>2 DEF Computes
<1>4. IsFiniteSet(R) /\ Chooses(R)
  BY FS_Subset DEF Chooses
<1>5. h[R] = g[R]
  OBVIOUS
<1> HIDE DEF h
<1>6. (CHOOSE f : Computes(f, e, base, R)) = h
  BY <1>3, <1>4, OneComputes
<1> QED
  BY <1>5, <1>6, FoldIs

Unfolds(e, base, S) ==
  Fold(e, base, S) =
    IF S = {} THEN base ELSE op(e[choose(S)], Fold(e, base, S \ {choose(S)}))

LEMMA UnfoldsIfComputes ==
  ASSUME NEW e, NEW base, NEW S, IsFiniteSet(S), Chooses(S),
         NEW g, Computes(g, e, base, S)
  PROVE  Unfolds(e, base, S)
<1>1. Fold(e, base, S) = g[S]
  BY ComputesSubsets
<1>2. g[S] = IF S = {} THEN base ELSE op(e[choose(S)], g[S \ {choose(S)}])
  BY DEF Computes
<1>3. g[S \ {choose(S)}] = Fold(e, base, S \ {choose(S)})
  BY ComputesSubsets
<1> QED
  BY <1>1, <1>2, <1>3 DEF Unfolds

\* There is one: a smallest subset without one would have one, made of the folds over
\* its subsets.
LEMMA SomeComputes ==
  ASSUME NEW e, NEW base, NEW S, IsFiniteSet(S), Chooses(S)
  PROVE  \E g : Computes(g, e, base, S)
<1> DEFINE U == {T \in SUBSET S : ~ \E g : Computes(g, e, base, T)}
<1> SUFFICES ASSUME U # {} PROVE FALSE
  OBVIOUS
<1>1. PICK T \in U : \A R \in U : R \subseteq T => R = T
  <2>1. U \in SUBSET SUBSET S /\ U # {}
    OBVIOUS
  <2> HIDE DEF U
  <2> QED
    BY <2>1, MinimalSubset
<1>2. \A R \in SUBSET T : R # T => \E g : Computes(g, e, base, R)
  BY <1>1
<1>3. \A R \in SUBSET T : IsFiniteSet(R) /\ Chooses(R)
  BY <1>1, FS_Subset DEF Chooses
<1>4. \A R \in SUBSET T : R # T => Unfolds(e, base, R)
  BY <1>2, <1>3, UnfoldsIfComputes
<1> DEFINE g == [s \in SUBSET T |-> IF s = {} THEN base
                   ELSE op(e[choose(s)], Fold(e, base, s \ {choose(s)}))]
<1>5. \A s \in SUBSET T : s # {} =>
        /\ s \ {choose(s)} \in SUBSET T /\ s \ {choose(s)} # T
        /\ g[s \ {choose(s)}] = Fold(e, base, s \ {choose(s)})
  <2> SUFFICES ASSUME NEW s \in SUBSET T, s # {}
               PROVE  /\ s \ {choose(s)} \in SUBSET T /\ s \ {choose(s)} # T
                      /\ g[s \ {choose(s)}] = Fold(e, base, s \ {choose(s)})
    OBVIOUS
  <2> DEFINE r == s \ {choose(s)}
  <2>1. choose(s) \in s
    BY <1>3 DEF Chooses
  <2>2. r \in SUBSET T /\ r # T
    BY <2>1
  <2>3. Unfolds(e, base, r)
    BY <1>4, <2>2
  <2> HIDE DEF r
  <2>4. g[r] = Fold(e, base, r)
    BY <2>2, <2>3 DEF Unfolds
  <2> QED
    BY <2>2, <2>4 DEF r
<1>6. g = [s \in SUBSET T |-> IF s = {} THEN base ELSE op(e[choose(s)], g[s \ {choose(s)}])]
  BY <1>5
<1> HIDE DEF g
<1>7. Computes(g, e, base, T)
  BY <1>6 DEF Computes
<1> QED
  BY <1>1, <1>7

\* A fold over a finite set may be unfolded.
THEOREM FoldUnfolds ==
  ASSUME NEW e, NEW base, NEW S, IsFiniteSet(S), Chooses(S)
  PROVE  Unfolds(e, base, S)
  BY SomeComputes, UnfoldsIfComputes

\* A property of the numbers up to n that 0 has, and each next number, all of them have.
LEMMA InductionUpTo ==
  ASSUME NEW n \in Nat, NEW Good \in SUBSET (0 .. n), 0 \in Good,
         \A k \in Good : k < n => k + 1 \in Good
  PROVE  n \in Good
<1> SUFFICES ASSUME (0 .. n) \ Good # {} PROVE FALSE
  OBVIOUS
<1> DEFINE Bad == (0 .. n) \ Good
<1>1. PICK m \in Bad : \A k \in Bad : m <= k
  <2>1. Bad \in SUBSET Nat /\ Bad # {}
    OBVIOUS
  <2> HIDE DEF Bad
  <2> QED
    BY <2>1, SmallestNumber
<1>2. m \in 1 .. n /\ m - 1 \in 0 .. n /\ m - 1 < n /\ (m - 1) + 1 = m
  OBVIOUS
<1>3. m - 1 \in Good
  BY <1>1, <1>2
<1> QED
  BY <1>2, <1>3

\* A fold from the first element on adds the last one last.
LEMMA FoldUpTo ==
  ASSUME NEW e, NEW base, NEW n \in Nat,
         \A k \in 1 .. n : choose(1 .. k) = k, Chooses(1 .. n)
  PROVE  /\ Fold(e, base, 1 .. 0) = base
         /\ n > 0 => Fold(e, base, 1 .. n) = op(e[n], Fold(e, base, 1 .. n - 1))
<1>1. Chooses({}) /\ 1 .. 0 = {}
  BY DEF Chooses
<1>2. IsFiniteSet(1 .. n) /\ IsFiniteSet({})
  BY FS_Interval, FS_EmptySet
<1>3. Unfolds(e, base, {}) /\ Unfolds(e, base, 1 .. n)
  BY <1>1, <1>2, FoldUnfolds
<1>4. n > 0 => choose(1 .. n) = n /\ (1 .. n) \ {n} = 1 .. n - 1 /\ 1 .. n # {}
  OBVIOUS
<1> QED
  BY <1>1, <1>3, <1>4 DEF Unfolds
=============================================================================
