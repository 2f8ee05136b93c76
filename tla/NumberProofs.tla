---------------------------- MODULE NumberProofs ----------------------------
(***************************************************************************)
(* Facts about the natural numbers that the proofs of the components rest  *)
(* on: the least and the greatest element of a set, and induction.  The    *)
(* induction principle is stated for a set of numbers, those that have the *)
(* property; it is cited with that set.  Last, two facts about counting    *)
(* the elements of finite sets by a key.                                   *)
(***************************************************************************)
EXTENDS FiniteSetsExt, Integers, WellFoundedInduction, FiniteSetTheorems,
        FunctionTheorems, TLAPS

\* A set of natural numbers that is not empty has a least element: the intervals that
\* end in its elements have a smallest one, since finite sets are well-founded.
LEMMA LeastNumber ==
  ASSUME NEW S \in SUBSET Nat, S # {}
  PROVE  \E m \in S : \A k \in S : m <= k
<1> DEFINE I == {0..n : n \in S}
           R == StrictSubsetOrdering(Nat)
<1>1. IsWellFoundedOn(R, FiniteSubsetsOf(Nat))
  BY FS_StrictSubsetOrderingWellFounded
<1>2. I \subseteq FiniteSubsetsOf(Nat)
  <2>1. \A n \in S : IsFiniteSet(0..n) /\ 0..n \in SUBSET Nat
    BY FS_Interval
  <2> QED
    BY <2>1 DEF FiniteSubsetsOf
<1>3. \E x \in I : \A y \in I : <<y, x>> \notin R
  <2>1. I # {}
    OBVIOUS
  <2> HIDE DEF I, R
  <2> QED
    BY <1>1, <1>2, <2>1, WFMin
<1>4. PICK m \in S : \A k \in S : <<0..k, 0..m>> \notin R
  BY <1>3
<1>5. ASSUME NEW k \in S, k < m
      PROVE  FALSE
  <2>1. 0..k \subseteq 0..m /\ m \in 0..m /\ m \notin 0..k
    BY <1>5
  <2>2. <<0..k, 0..m>> \in R
    BY <2>1 DEF StrictSubsetOrdering
  <2> QED
    BY <2>2, <1>4
<1> QED
  BY <1>5

\* Induction: a set with 0 and the successor of each of its numbers has them all.
LEMMA SetInduction ==
  ASSUME NEW S, 0 \in S, \A n \in Nat : n \in S => n + 1 \in S
  PROVE  Nat \subseteq S
<1>1. SUFFICES ASSUME Nat \ S # {} PROVE FALSE
  OBVIOUS
<1>2. PICK m \in Nat \ S : \A k \in Nat \ S : m <= k
  BY <1>1, LeastNumber
<1>3. m - 1 \in Nat /\ m - 1 \in S
  BY <1>2
<1> QED
  BY <1>2, <1>3

\* The greatest element of a set of numbers, when it is known,
LEMMA MaxIs ==
  ASSUME NEW S \in SUBSET Nat, NEW k \in S, \A j \in S : j <= k
  PROVE  Max(S) = k
<1>1. \A j \in S : k >= j
  OBVIOUS
<1>2. Max(S) \in S /\ \A j \in S : Max(S) >= j
  BY <1>1 DEF Max
<1>3. k \in Nat /\ Max(S) \in Nat
  BY <1>2
<1>4. Max(S) <= k /\ k <= Max(S)
  BY <1>1, <1>2, <1>3
<1> HIDE DEF Max
<1> QED
  BY <1>3, <1>4

\* and that there is one if the set is bounded.
LEMMA MaxExists ==
  ASSUME NEW n \in Nat, NEW S \in SUBSET (0..n), S # {}
  PROVE  Max(S) \in S /\ \A j \in S : j <= Max(S)
<1> DEFINE B == {b \in Nat : \A j \in S : j <= b}
<1>1. n \in B /\ S \in SUBSET Nat
  OBVIOUS
<1>2. PICK b \in B : \A c \in B : b <= c
  BY <1>1, LeastNumber
<1>3. b \in S
  <2>1. SUFFICES ASSUME b \notin S PROVE FALSE
    OBVIOUS
  <2>2. b \in Nat /\ \A j \in S : j <= b /\ j # b /\ j \in Nat
    BY <1>1, <2>1
  <2>3. \A j \in S : j <= b - 1
    BY <2>2
  <2>4. b - 1 \in B
    <3>1. PICK j \in S : TRUE
      OBVIOUS
    <3> QED
      BY <2>2, <2>3, <3>1
  <2> QED
    BY <1>2, <2>3, <2>4
<1>4. Max(S) = b
  BY <1>1, <1>3, MaxIs
<1> QED
  BY <1>3, <1>4

\* Likewise the least element.
LEMMA MinExists ==
  ASSUME NEW S \in SUBSET Nat, S # {}
  PROVE  Min(S) \in S /\ \A j \in S : Min(S) <= j
<1>1. \E m \in S : \A k \in S : m <= k
  BY LeastNumber
<1> QED
  BY <1>1 DEF Min

\* f is what n steps make of base, one after the other.
IsRun(f, n, base, step) == f[0] = base /\ \A k \in 1..n : f[k] = step[k][f[k - 1]]

\* Something that is computed step by step, from a value of V and in V, is defined:
\* the recursive functions of the models, whose argument counts the steps, exist.
LEMMA Iteration ==
  ASSUME NEW n \in Nat, NEW V, NEW base \in V, NEW step \in [1..n -> [V -> V]]
  PROVE  \E f \in [0..n -> V] : IsRun(f, n, base, step)
<1> DEFINE Runs(f, m) == f[0] = base /\ \A k \in 1..m : f[k] = step[k][f[k - 1]]
           S == {m \in Nat : m <= n => \E f \in [0..m -> V] : Runs(f, m)}
<1>1. 0 \in S
  <2>1. [k \in 0..0 |-> base] \in [0..0 -> V] /\ Runs([k \in 0..0 |-> base], 0)
    OBVIOUS
  <2> QED
    BY <2>1
<1>2. ASSUME NEW m \in Nat, m \in S
      PROVE  m + 1 \in S
  <2> SUFFICES ASSUME m + 1 <= n
               PROVE  \E g \in [0..(m + 1) -> V] : Runs(g, m + 1)
    OBVIOUS
  <2>1. PICK f \in [0..m -> V] : Runs(f, m)
    BY <1>2
  <2> DEFINE last == step[m + 1][f[m]]
             g == [k \in 0..(m + 1) |-> IF k = m + 1 THEN last ELSE f[k]]
  <2>2. m + 1 \in 1..n /\ m \in 0..m
    OBVIOUS
  <2>3. step[m + 1] \in [V -> V] /\ f[m] \in V
    BY <2>2
  <2>4. last \in V
    BY <2>3
  <2> HIDE DEF last
  <2>5. g \in [0..(m + 1) -> V]
    BY <2>4
  <2>6. g[0] = base
    BY <2>1
  <2>7. ASSUME NEW k \in 1..(m + 1)
        PROVE  g[k] = step[k][g[k - 1]]
    <3>1. CASE k = m + 1
      <4>1. g[k] = last /\ g[k - 1] = f[m]
        BY <3>1
      <4> QED
        BY <3>1, <4>1 DEF last
    <3>2. CASE k # m + 1
      <4>1. k \in 1..m /\ g[k] = f[k] /\ g[k - 1] = f[k - 1]
        BY <3>2
      <4> QED
        BY <2>1, <4>1
    <3> QED
      BY <3>1, <3>2
  <2> HIDE DEF g
  <2> QED
    BY <2>5, <2>6, <2>7
<1> HIDE DEF S
<1>3. n \in S
  BY <1>1, <1>2, SetInduction
<1> QED
  BY <1>3 DEF S, IsRun

\* f is what any number of times the same step makes of base.
IsSeries(f, base, step) == f[0] = base /\ \A k \in Nat : f[k + 1] = step[f[k]]

\* Likewise for n steps.
IsSeriesUpTo(f, n, base, step) == f[0] = base /\ \A k \in 1..n : f[k] = step[f[k - 1]]

\* Two series of the same step agree as far as both go.
LEMMA SeriesAgree ==
  ASSUME NEW base, NEW step, NEW m \in Nat, NEW n \in Nat, m <= n, NEW f, NEW g,
         IsSeriesUpTo(f, m, base, step), IsSeriesUpTo(g, n, base, step)
  PROVE  f[m] = g[m]
<1> DEFINE S == {k \in Nat : k <= m => f[k] = g[k]}
<1>1. /\ f[0] = base /\ \A k \in 1..m : f[k] = step[f[k - 1]]
      /\ g[0] = base /\ \A k \in 1..n : g[k] = step[g[k - 1]]
  BY DEF IsSeriesUpTo
<1>2. 0 \in S
  BY <1>1
<1>3. ASSUME NEW k \in Nat, k \in S
      PROVE  k + 1 \in S
  <2> SUFFICES ASSUME k + 1 <= m PROVE f[k + 1] = g[k + 1]
    OBVIOUS
  <2>1. k + 1 \in 1..m /\ k + 1 \in 1..n /\ (k + 1) - 1 = k
    OBVIOUS
  <2>2. f[k + 1] = step[f[k]] /\ g[k + 1] = step[g[k]]
    BY <1>1, <2>1
  <2> QED
    BY <1>3, <2>2
<1>4. m \in S
  <2> HIDE DEF S
  <2> QED
    BY <1>2, <1>3, SetInduction
<1> QED
  BY <1>4

\* A recursive function over all the numbers exists.
LEMMA Recursion ==
  ASSUME NEW V, NEW base \in V, NEW step \in [V -> V]
  PROVE  \E f \in [Nat -> V] : IsSeries(f, base, step)
<1> DEFINE run(n) == CHOOSE f \in [0..n -> V] : IsSeriesUpTo(f, n, base, step)
           F == [n \in Nat |-> run(n)[n]]
<1>1. ASSUME NEW n \in Nat
      PROVE  run(n) \in [0..n -> V] /\ IsSeriesUpTo(run(n), n, base, step)
  <2> DEFINE steps == [k \in 1..n |-> step]
  <2>1. steps \in [1..n -> [V -> V]]
    OBVIOUS
  <2> HIDE DEF steps
  <2>2. PICK f \in [0..n -> V] : IsRun(f, n, base, steps)
    BY <2>1, Iteration
  <2>3. IsSeriesUpTo(f, n, base, step)
    BY <2>2 DEF IsRun, IsSeriesUpTo, steps
  <2> QED
    BY <2>3
<1> HIDE DEF run
<1>2. F \in [Nat -> V]
  <2>1. \A n \in Nat : n \in 0..n /\ run(n)[n] \in V
    BY <1>1
  <2> QED
    BY <2>1
<1>3. F[0] = base
  BY <1>1 DEF IsSeriesUpTo
<1>4. ASSUME NEW k \in Nat
      PROVE  F[k + 1] = step[F[k]]
  <2>1. /\ IsSeriesUpTo(run(k), k, base, step)
        /\ IsSeriesUpTo(run(k + 1), k + 1, base, step)
        /\ k + 1 \in Nat /\ k <= k + 1
    BY <1>1
  <2>2. run(k)[k] = run(k + 1)[k]
    BY <2>1, SeriesAgree
  <2>3. k + 1 \in 1..(k + 1) /\ (k + 1) - 1 = k
    OBVIOUS
  <2>4. run(k + 1)[k + 1] = step[run(k + 1)[k]]
    BY <2>1, <2>3 DEF IsSeriesUpTo
  <2> QED
    BY <2>2, <2>4
<1> HIDE DEF F
<1> QED
  BY <1>2, <1>3, <1>4 DEF IsSeries

\* The elements of S whose key is n.
Fibre(S, key, n) == {x \in S : key[x] = n}

\* Two finite sets that have each key as often have as many elements.
LEMMA SameFibres ==
  ASSUME NEW N, NEW S, IsFiniteSet(S), NEW f \in [S -> N], NEW T, IsFiniteSet(T),
         NEW g \in [T -> N],
         \A n \in N : Cardinality(Fibre(S, f, n)) = Cardinality(Fibre(T, g, n))
  PROVE  Cardinality(S) = Cardinality(T)
<1> DEFINE Pairs(n) == Bijection(Fibre(S, f, n), Fibre(T, g, n))
           pair(n) == CHOOSE p : p \in Pairs(n)
           h == [x \in S |-> pair(f[x])[x]]
<1>1. ASSUME NEW n \in N
      PROVE  pair(n) \in Pairs(n)
  <2>1. IsFiniteSet(Fibre(S, f, n)) /\ IsFiniteSet(Fibre(T, g, n))
    BY FS_Subset DEF Fibre
  <2>2. ExistsBijection(Fibre(S, f, n), Fibre(T, g, n))
    BY <2>1, FS_SameCardinalityBij
  <2> QED
    BY <2>2 DEF ExistsBijection
<1> HIDE DEF pair
<1>2. ASSUME NEW n \in N
      PROVE  /\ \A x \in S : f[x] = n => pair(n)[x] \in T /\ g[pair(n)[x]] = n
             /\ \A x, y \in S : f[x] = n /\ f[y] = n /\ pair(n)[x] = pair(n)[y] => x = y
             /\ \A y \in T : g[y] = n => \E x \in S : f[x] = n /\ pair(n)[x] = y
  <2> DEFINE A == Fibre(S, f, n)
             B == Fibre(T, g, n)
             p == pair(n)
  <2>1. /\ p \in [A -> B]
        /\ \A x, y \in A : p[x] = p[y] => x = y
        /\ \A y \in B : \E x \in A : p[x] = y
    <3>1. p \in Bijection(A, B)
      BY <1>1
    <3> HIDE DEF A, B, p
    <3> QED
      BY <3>1 DEF Bijection, Injection, Surjection, IsInjective
  <2>2. /\ \A x \in S : f[x] = n <=> x \in A
        /\ \A y \in T : g[y] = n <=> y \in B
        /\ \A y \in B : y \in T
        /\ \A x \in A : x \in S
    BY DEF Fibre
  <2> HIDE DEF A, B, p
  <2>3. \A x \in S : f[x] = n => p[x] \in T /\ g[p[x]] = n
    BY <2>1, <2>2
  <2>4. \A x, y \in S : f[x] = n /\ f[y] = n /\ p[x] = p[y] => x = y
    BY <2>1, <2>2
  <2>5. \A y \in T : g[y] = n => \E x \in S : f[x] = n /\ p[x] = y
    BY <2>1, <2>2
  <2> QED
    BY <2>3, <2>4, <2>5 DEF p
<1>3. h \in [S -> T] /\ \A x \in S : g[h[x]] = f[x]
  <2>1. \A x \in S : pair(f[x])[x] \in T /\ g[pair(f[x])[x]] = f[x]
    BY <1>2
  <2> QED
    BY <2>1
<1>4. ASSUME NEW x \in S, NEW y \in S, h[x] = h[y]
      PROVE  x = y
  <2>1. f[x] = f[y] /\ pair(f[x])[x] = pair(f[x])[y]
    BY <1>3, <1>4
  <2> QED
    BY <1>2, <2>1
<1>5. ASSUME NEW y \in T
      PROVE  \E x \in S : h[x] = y
  BY <1>2
<1>6. h \in Bijection(S, T)
  <2> HIDE DEF h
  <2> QED
    BY <1>3, <1>4, <1>5, Fun_IsBij
<1> QED
  BY <1>6, FS_Bijection DEF ExistsBijection

\* If no key is there twice, there are as many keys as elements.
LEMMA UniqueKeys ==
  ASSUME NEW S, IsFiniteSet(S), NEW f, f = [x \in S |-> f[x]],
         \A x \in S : Cardinality(Fibre(S, f, f[x])) = 1
  PROVE  /\ IsFiniteSet({f[x] : x \in S})
         /\ Cardinality({f[x] : x \in S}) = Cardinality(S)
<1> DEFINE K == {f[x] : x \in S}
<1>1. ASSUME NEW x \in S, NEW y \in S, f[x] = f[y]
      PROVE  x = y
  <2>1. IsFiniteSet(Fibre(S, f, f[x]))
    BY FS_Subset DEF Fibre
  <2>2. PICK z : Fibre(S, f, f[x]) = {z}
    BY <2>1, FS_Singleton
  <2>3. x \in Fibre(S, f, f[x]) /\ y \in Fibre(S, f, f[x])
    BY <1>1 DEF Fibre
  <2> QED
    BY <2>2, <2>3
<1>2. f \in [S -> K] /\ \A k \in K : \E x \in S : f[x] = k
  OBVIOUS
<1>3. f \in Bijection(S, K)
  <2> HIDE DEF K
  <2> QED
    BY <1>1, <1>2, Fun_IsBij
<1> QED
  BY <1>3, FS_Bijection DEF ExistsBijection

=============================================================================
