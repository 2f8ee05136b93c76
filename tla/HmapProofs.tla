----------------------------- MODULE HmapProofs -----------------------------
(***************************************************************************)
(* Proofs about Hmap and HmapWalk.  A map is known by its chains, and what *)
(* each function of hmap.c does to them is one lemma.  The traversal puts  *)
(* the chains one after the other, each at its place.  A walk is known by  *)
(* what lies ahead of it: the rest of the chain of a node, and the buckets *)
(* behind.  What is due lies there and what has been visited does not.     *)
(* Between the two are the loops of the containers that use a map: the     *)
(* search for a node of a hash, and filling and emptying a map node by     *)
(* node.  Each is known by the equation of its recursive function, which   *)
(* has a solution, and every solution ends with the right node or map.     *)
(***************************************************************************)
EXTENDS HmapWalk, NumberProofs, SequenceTheorems

-----------------------------------------------------------------------------
(* The shape of a map *)

Masks == {m \in Nat \ {1} : \E k \in 0..m : m = LowBits[k]}

\* The nodes that hmap_contains() finds.
Held(h) == {x \in Nodes : hmap_contains(h, x)}

Shaped(h) ==
    /\ h = [mask |-> h.mask, buckets |-> h.buckets, n |-> h.n]
    /\ h.mask \in Masks
    /\ h.buckets \in [0..h.mask -> Seq(Nodes)]
    /\ h.n \in Nat

\* Every node of a chain belongs there, and is there once.
Chained(h) ==
    \A b \in 0..h.mask : \A k \in 1..Len(h.buckets[b]) :
        /\ Bucket(h, h.buckets[b][k]) = b
        /\ \A l \in 1..Len(h.buckets[b]) : h.buckets[b][k] = h.buckets[b][l] => k = l

Good(h) ==
    /\ Shaped(h)
    /\ Chained(h)
    /\ IsFiniteSet(Held(h))
    /\ h.n = Cardinality(Held(h))

\* A hash selects one of the buckets.
LEMMA BucketRange ==
  ASSUME NEW h, h.mask \in Nat, NEW x \in Nodes
  PROVE  Bucket(h, x) \in 0..h.mask
<1>1. Hash[x] \in Nat
  BY HmapAssumption
<1>2. ASSUME NEW a \in Nat, NEW m \in Nat PROVE a % (m + 1) \in 0..m
  OBVIOUS
<1> QED
  BY <1>1, <1>2 DEF Bucket

\* A map finds the nodes of its chains, and each in the chain its hash selects.
LEMMA HeldInChain ==
  ASSUME NEW h, Shaped(h), Chained(h)
  PROVE  /\ \A b \in 0..h.mask : \A k \in 1..Len(h.buckets[b]) :
               h.buckets[b][k] \in Held(h) /\ Bucket(h, h.buckets[b][k]) = b
         /\ \A x \in Held(h) :
               /\ x \in Nodes /\ Bucket(h, x) \in 0..h.mask
               /\ \E k \in 1..Len(h.buckets[Bucket(h, x)]) :
                     h.buckets[Bucket(h, x)][k] = x
<1>1. h.mask \in Nat /\ h.buckets \in [0..h.mask -> Seq(Nodes)]
  BY DEF Shaped, Masks
<1>2. ASSUME NEW b \in 0..h.mask, NEW k \in 1..Len(h.buckets[b])
      PROVE  h.buckets[b][k] \in Held(h) /\ Bucket(h, h.buckets[b][k]) = b
  <2>1. h.buckets[b] \in Seq(Nodes)
    BY <1>1
  <2>2. h.buckets[b][k] \in Nodes /\ k \in DOMAIN h.buckets[b]
    BY <2>1
  <2>3. Bucket(h, h.buckets[b][k]) = b
    BY DEF Chained
  <2> QED
    BY <2>2, <2>3 DEF Held, hmap_contains, ToSet
<1>3. ASSUME NEW x \in Held(h)
      PROVE  /\ x \in Nodes /\ Bucket(h, x) \in 0..h.mask
             /\ \E k \in 1..Len(h.buckets[Bucket(h, x)]) : h.buckets[Bucket(h, x)][k] = x
  <2>1. x \in Nodes /\ x \in ToSet(h.buckets[Bucket(h, x)])
    BY DEF Held, hmap_contains
  <2>2. Bucket(h, x) \in 0..h.mask
    BY <1>1, <2>1, BucketRange
  <2>3. h.buckets[Bucket(h, x)] \in Seq(Nodes)
    BY <1>1, <2>2
  <2> QED
    BY <2>1, <2>2, <2>3 DEF ToSet
<1> QED
  BY <1>2, <1>3

-----------------------------------------------------------------------------
(* Chains one after the other *)

\* In the sequence T chain b begins behind place start[b], for b up to m.
IsLayout(start, m, ch, T) ==
    /\ start[0] = 0 /\ start[m + 1] = Len(T)
    /\ \A b \in 0..m : start[b + 1] = start[b] + Len(ch[b])
    /\ \A b \in 0..m : \A k \in 1..Len(ch[b]) : T[start[b] + k] = ch[b][k]
    /\ \A i \in 1..Len(T) : \E b \in 0..m : \E k \in 1..Len(ch[b]) : i = start[b] + k

\* Places in the concatenation of two sequences.
LEMMA Concatenated ==
  ASSUME NEW S, NEW s \in Seq(S), NEW t \in Seq(S)
  PROVE  /\ Len(s \o t) = Len(s) + Len(t)
         /\ \A i \in 1..(Len(s) + Len(t)) :
               (s \o t)[i] = IF i <= Len(s) THEN s[i] ELSE t[i - Len(s)]
OBVIOUS

\* The flattened sequence of the chains has a layout.
LEMMA Flattened ==
  ASSUME NEW S, NEW m \in Nat, NEW ch \in [0..m -> Seq(S)],
         NEW T, T = FlattenSeq([b \in 1..(m + 1) |-> ch[b - 1]])
  PROVE  /\ T \in Seq(S)
         /\ \E start \in [0..(m + 1) -> Nat] : IsLayout(start, m, ch, T)
<1> DEFINE n == m + 1
           seqs == [b \in 1..n |-> ch[b - 1]]
           V == Seq(S)
           step == [k \in 1..n |-> [s \in V |-> s \o ch[k - 1]]]
<1>1. /\ n \in Nat /\ <<>> \in V /\ step \in [1..n -> [V -> V]]
      /\ \A k \in 1..n : k - 1 \in 0..m /\ seqs[k] = ch[k - 1] /\ ch[k - 1] \in V
  <2>1. n \in Nat /\ <<>> \in V
    OBVIOUS
  <2>2. \A k \in 1..n : k - 1 \in 0..m /\ seqs[k] = ch[k - 1] /\ ch[k - 1] \in V
    OBVIOUS
  <2>3. \A k \in 1..n : \A s \in V : s \o ch[k - 1] \in V
    BY <2>2
  <2>4. step \in [1..n -> [V -> V]]
    BY <2>3
  <2> QED
    BY <2>1, <2>2, <2>4
<1>2. PICK f \in [0..n -> V] : f[0] = <<>> /\ \A k \in 1..n : f[k] = step[k][f[k - 1]]
  <2>1. n \in Nat /\ <<>> \in V /\ step \in [1..n -> [V -> V]]
    BY <1>1
  <2> DEFINE base == <<>>
  <2>2. base \in V
    BY <2>1
  <2> HIDE DEF n, V, step, base
  <2>3. \E f \in [0..n -> V] : IsRun(f, n, base, step)
    BY <2>1, <2>2, Iteration
  <2> QED
    BY <2>3 DEF base, IsRun
<1>3. ASSUME NEW k \in 0..m
      PROVE  /\ f[k + 1] = f[k] \o ch[k] /\ f[k] \in V /\ f[k + 1] \in V
             /\ ch[k] \in V /\ seqs[k + 1] = ch[k]
  <2>1. k + 1 \in 1..n /\ k \in 0..n /\ k + 1 \in 0..n /\ (k + 1) - 1 = k
    OBVIOUS
  <2>2. f[k] \in V /\ f[k + 1] \in V /\ ch[k] \in V
    BY <2>1
  <2>3. f[k + 1] = step[k + 1][f[k]]
    BY <1>2, <2>1
  <2>4. step[k + 1][f[k]] = f[k] \o ch[k]
    BY <2>1, <2>2
  <2> QED
    BY <2>1, <2>2, <2>3, <2>4
<1>4. T = f[n]
  <2> DEFINE Eq(g) == g = [i \in 1..n |-> IF i = 1 THEN seqs[i] ELSE g[i - 1] \o seqs[i]]
             R == CHOOSE g : Eq(g)
             g0 == [i \in 1..n |-> f[i]]
  <2>1. Len(seqs) = n /\ DOMAIN seqs = 1..n
    BY <1>1
  <2>2. T = R[n]
    <3>1. Len(seqs) # 0
      BY <2>1
    <3> QED
      BY <2>1, <3>1 DEF FlattenSeq
  <2>3. Eq(g0)
    <3>1. ASSUME NEW i \in 1..n
          PROVE  g0[i] = IF i = 1 THEN seqs[i] ELSE g0[i - 1] \o seqs[i]
      <4>1. CASE i = 1
        <5>1. f[0 + 1] = f[0] \o ch[0] /\ seqs[0 + 1] = ch[0] /\ ch[0] \in V
          BY <1>3
        <5> QED
          BY <1>2, <4>1, <5>1
      <4>2. CASE i # 1
        <5>1. i - 1 \in 1..n /\ i - 1 \in 0..m /\ (i - 1) + 1 = i
          BY <4>2
        <5>2. f[i] = f[i - 1] \o ch[i - 1] /\ seqs[i] = ch[i - 1]
          BY <1>3, <5>1
        <5> QED
          BY <4>2, <5>1, <5>2
      <4> QED
        BY <4>1, <4>2
    <3> QED
      BY <3>1
  <2>4. Eq(R)
    <3> HIDE DEF Eq, g0
    <3> QED
      BY <2>3
  <2> DEFINE P == {k \in Nat : k + 1 \in 1..n => R[k + 1] = f[k + 1]}
  <2>5. \A i \in 1..n : R[i] = IF i = 1 THEN seqs[i] ELSE R[i - 1] \o seqs[i]
    <3> HIDE DEF R
    <3> QED
      BY <2>4
  <2> HIDE DEF R
  <2>6. 0 \in P
    <3>0. 0 \in 0..m
      OBVIOUS
    <3>1. f[0 + 1] = f[0] \o ch[0] /\ seqs[0 + 1] = ch[0] /\ ch[0] \in V
      BY <1>3, <3>0
    <3>2. R[1] = seqs[1]
      BY <2>5
    <3> QED
      BY <1>2, <3>1, <3>2
  <2>7. ASSUME NEW k \in Nat, k \in P
        PROVE  k + 1 \in P
    <3> SUFFICES ASSUME k + 2 \in 1..n PROVE R[k + 2] = f[k + 2]
      <4>1. (k + 1) + 1 = k + 2
        OBVIOUS
      <4> QED
        BY <4>1
    <3>1. R[k + 1] = f[k + 1]
      BY <2>7
    <3>2. k + 1 \in 0..m /\ (k + 1) + 1 = k + 2 /\ (k + 2) - 1 = k + 1 /\ k + 2 # 1
      OBVIOUS
    <3>3. R[k + 2] = R[k + 1] \o seqs[k + 2]
      BY <2>5, <3>2
    <3>4. f[k + 2] = f[k + 1] \o ch[k + 1] /\ seqs[k + 2] = ch[k + 1]
      BY <1>3, <3>2
    <3> QED
      BY <3>1, <3>3, <3>4
  <2>8. m \in P
    <3> HIDE DEF P
    <3> QED
      BY <2>6, <2>7, SetInduction
  <2> QED
    BY <2>2, <2>8
<1> DEFINE start == [b \in 0..n |-> Len(f[b])]
           Placed(j) ==
               /\ \A b \in 0..m : b < j => \A k \in 1..Len(ch[b]) :
                     start[b] + k \in 1..Len(f[j]) /\ f[j][start[b] + k] = ch[b][k]
               /\ \A i \in 1..Len(f[j]) :
                     \E b \in 0..m : b < j /\ \E k \in 1..Len(ch[b]) : i = start[b] + k
           Q == {j \in Nat : j \in 0..n => Placed(j)}
<1>5. \A b \in 0..m : start[b + 1] = start[b] + Len(ch[b])
  <2> SUFFICES ASSUME NEW b \in 0..m
               PROVE  Len(f[b + 1]) = Len(f[b]) + Len(ch[b])
    OBVIOUS
  <2>1. f[b + 1] = f[b] \o ch[b] /\ f[b] \in V /\ ch[b] \in V
    BY <1>3
  <2> QED
    BY <2>1
<1>6. start \in [0..n -> Nat] /\ start[0] = 0
  BY <1>2
<1>7. 0 \in Q
  BY <1>2
<1>8. ASSUME NEW j \in Nat, j \in Q
      PROVE  j + 1 \in Q
  <2> SUFFICES ASSUME j \in 0..m PROVE Placed(j + 1)
    <3> HIDE DEF Placed
    <3> QED
      OBVIOUS
  <2>1. Placed(j)
    <3> HIDE DEF Placed
    <3>1. j \in 0..n
      OBVIOUS
    <3> QED
      BY <1>8, <3>1
  <2>2. /\ f[j + 1] = f[j] \o ch[j] /\ f[j] \in V /\ ch[j] \in V
        /\ start[j] = Len(f[j]) /\ Len(f[j]) \in Nat /\ Len(ch[j]) \in Nat
    <3>1. f[j + 1] = f[j] \o ch[j] /\ f[j] \in V /\ ch[j] \in V
      BY <1>3
    <3>2. j \in 0..n
      OBVIOUS
    <3>3. start[j] = Len(f[j])
      BY <3>2
    <3> HIDE DEF start, Placed
    <3>4. Len(f[j]) \in Nat /\ Len(ch[j]) \in Nat
      BY <3>1
    <3> QED
      BY <3>1, <3>3, <3>4
  <2>3. /\ Len(f[j + 1]) = Len(f[j]) + Len(ch[j])
        /\ \A i \in 1..(Len(f[j]) + Len(ch[j])) :
              f[j + 1][i] = IF i <= Len(f[j]) THEN f[j][i] ELSE ch[j][i - Len(f[j])]
    BY <2>2, Concatenated
  <2> HIDE DEF start, V
  <2>4. ASSUME NEW b \in 0..m, b < j + 1, NEW k \in 1..Len(ch[b])
        PROVE  start[b] + k \in 1..Len(f[j + 1]) /\ f[j + 1][start[b] + k] = ch[b][k]
    <3>1. CASE b = j
      <4>0. Len(f[j]) \in Nat /\ Len(ch[j]) \in Nat
        BY <2>2
      <4>1. k \in 1..Len(ch[j]) /\ start[b] + k = Len(f[j]) + k
        BY <2>2, <3>1
      <4> DEFINE i == Len(f[j]) + k
      <4>3. i \in 1..(Len(f[j]) + Len(ch[j])) /\ ~(i <= Len(f[j])) /\ i - Len(f[j]) = k
        BY <4>0, <4>1
      <4>4. f[j + 1][i] = ch[j][k] /\ i \in 1..Len(f[j + 1])
        <5> HIDE DEF i
        <5> QED
          BY <2>3, <4>3
      <4> QED
        BY <3>1, <4>1, <4>4
    <3>2. CASE b # j
      <4>1. b < j
        BY <2>4, <3>2
      <4>2. start[b] + k \in 1..Len(f[j]) /\ f[j][start[b] + k] = ch[b][k]
        BY <2>1, <4>1
      <4> DEFINE i == start[b] + k
      <4>3. i \in 1..(Len(f[j]) + Len(ch[j])) /\ i <= Len(f[j])
        <5>1. i \in 1..Len(f[j]) /\ Len(f[j]) \in Nat /\ Len(ch[j]) \in Nat
          BY <2>2, <4>2
        <5> HIDE DEF i
        <5> QED
          BY <5>1
      <4>4. f[j + 1][i] = f[j][i] /\ i \in 1..Len(f[j + 1])
        <5> HIDE DEF i
        <5> QED
          BY <2>3, <4>3
      <4> QED
        BY <4>2, <4>4
    <3> QED
      BY <3>1, <3>2
  <2>5. ASSUME NEW i \in 1..Len(f[j + 1])
        PROVE  \E b \in 0..m : b < j + 1 /\ \E k \in 1..Len(ch[b]) : i = start[b] + k
    <3>1. CASE i <= Len(f[j])
      <4>1. i \in 1..Len(f[j])
        BY <2>2, <3>1
      <4>2. PICK b \in 0..m : b < j /\ \E k \in 1..Len(ch[b]) : i = start[b] + k
        BY <2>1, <4>1
      <4>3. b < j + 1
        BY <4>2
      <4> QED
        BY <4>2, <4>3
    <3>2. CASE Len(f[j]) < i
      <4>1. i - Len(f[j]) \in 1..Len(ch[j]) /\ i = start[j] + (i - Len(f[j]))
        BY <2>2, <2>3, <3>2
      <4>2. j < j + 1
        OBVIOUS
      <4> QED
        BY <4>1, <4>2
    <3> QED
      BY <2>2, <3>1, <3>2
  <2> QED
    BY <2>4, <2>5
<1>9. Placed(n)
  <2> HIDE DEF Placed
  <2>1. n \in Q
    <3> HIDE DEF Q
    <3> QED
      BY <1>1, <1>7, <1>8, SetInduction
  <2> QED
    BY <2>1
<1>10. n \in 0..n /\ f[n] \in V /\ start[n] = Len(f[n]) /\ \A b \in 0..m : b < n
  OBVIOUS
<1> HIDE DEF start
<1>11. /\ \A b \in 0..m : \A k \in 1..Len(ch[b]) : T[start[b] + k] = ch[b][k]
       /\ \A i \in 1..Len(T) : \E b \in 0..m : \E k \in 1..Len(ch[b]) : i = start[b] + k
  BY <1>4, <1>9, <1>10
<1>12. T \in Seq(S) /\ start[m + 1] = Len(T)
  BY <1>4, <1>10
<1> QED
  BY <1>5, <1>6, <1>11, <1>12 DEF IsLayout

\* Sums of lengths grow: a chain ends before the last one does.
LEMMA Before ==
  ASSUME NEW m \in Nat, NEW ch, NEW start \in [0..(m + 1) -> Nat],
         \A b \in 0..m : Len(ch[b]) \in Nat /\ start[b + 1] = start[b] + Len(ch[b]),
         NEW b \in 0..m, NEW k \in 1..Len(ch[b])
  PROVE  start[b] + k \in 1..start[m + 1]
<1> DEFINE S == {j \in Nat : j < b \/ m < j \/ start[b + 1] <= start[j + 1]}
<1>1. 0 \in S
  OBVIOUS
<1>2. ASSUME NEW j \in Nat, j \in S PROVE j + 1 \in S
  <2>1. SUFFICES ASSUME b < j + 1, j + 1 <= m PROVE start[b + 1] <= start[(j + 1) + 1]
    OBVIOUS
  <2>2. /\ j + 1 \in 0..m
        /\ b + 1 \in 0..(m + 1) /\ j + 1 \in 0..(m + 1)
    BY <2>1
  <2>3. start[b + 1] <= start[j + 1]
    BY <1>2, <2>1
  <2>4. start[(j + 1) + 1] = start[j + 1] + Len(ch[j + 1]) /\ Len(ch[j + 1]) \in Nat
    BY <2>2
  <2>5. start[b + 1] \in Nat /\ start[j + 1] \in Nat
    BY <2>2
  <2> DEFINE s == start[j + 1]
             l == Len(ch[j + 1])
             t == start[(j + 1) + 1]
  <2>6. start[b + 1] <= s /\ t = s + l /\ s \in Nat /\ l \in Nat
    BY <2>3, <2>4, <2>5
  <2> HIDE DEF s, l
  <2> QED
    BY <2>5, <2>6
<1>3. m \in S
  <2> HIDE DEF S
  <2> QED
    BY <1>1, <1>2, SetInduction
<1>4. start[b + 1] <= start[m + 1] /\ start[b + 1] = start[b] + Len(ch[b])
  BY <1>3
<1>5. b + 1 \in 0..(m + 1) /\ m + 1 \in 0..(m + 1) /\ b \in 0..(m + 1)
  OBVIOUS
<1>6. start[b + 1] \in Nat /\ start[m + 1] \in Nat /\ start[b] \in Nat
  BY <1>5
<1> QED
  BY <1>4, <1>6

\* The traversal of a map delivers the nodes it holds, each once.
LEMMA TraversalOfGood ==
  ASSUME NEW h, Good(h)
  PROVE  /\ Traversal(h) \in Seq(Nodes)
         /\ Elements(h) = Held(h)
         /\ IsInjective(Traversal(h))
         /\ Len(Traversal(h)) = h.n
<1> DEFINE T == Traversal(h)
           m == h.mask
           ch == h.buckets
<1>1. m \in Nat /\ ch \in [0..m -> Seq(Nodes)]
  BY DEF Good, Shaped, Masks
<1>2. T = FlattenSeq([b \in 1..(m + 1) |-> ch[b - 1]])
  BY DEF Traversal
<1> HIDE DEF T, m, ch
<1>3. T \in Seq(Nodes)
  BY <1>1, <1>2, Flattened
<1>0. PICK start \in [0..(m + 1) -> Nat] : IsLayout(start, m, ch, T)
  BY <1>1, <1>2, Flattened
<1>4. /\ start[0] = 0 /\ start[m + 1] = Len(T)
      /\ \A b \in 0..m : start[b + 1] = start[b] + Len(ch[b])
      /\ \A b \in 0..m : \A k \in 1..Len(ch[b]) : T[start[b] + k] = ch[b][k]
      /\ \A i \in 1..Len(T) : \E b \in 0..m : \E k \in 1..Len(ch[b]) : i = start[b] + k
  BY <1>0 DEF IsLayout
<1>5. /\ \A b \in 0..m : \A k \in 1..Len(ch[b]) :
            ch[b][k] \in Held(h) /\ Bucket(h, ch[b][k]) = b
      /\ \A x \in Held(h) :
            /\ x \in Nodes /\ Bucket(h, x) \in 0..m
            /\ \E k \in 1..Len(ch[Bucket(h, x)]) : ch[Bucket(h, x)][k] = x
  BY HeldInChain DEF Good, m, ch
<1>6. ASSUME NEW i \in 1..Len(T) PROVE T[i] \in Held(h)
  <2>1. PICK b \in 0..m : \E k \in 1..Len(ch[b]) : i = start[b] + k
    BY <1>4
  <2>2. PICK k \in 1..Len(ch[b]) : i = start[b] + k
    BY <2>1
  <2>3. T[start[b] + k] = ch[b][k] /\ ch[b][k] \in Held(h)
    BY <1>4, <1>5, <2>2
  <2> QED
    BY <2>2, <2>3
<1>7. ASSUME NEW x \in Held(h) PROVE \E i \in 1..Len(T) : T[i] = x
  <2> DEFINE b == Bucket(h, x)
  <2>1. PICK k \in 1..Len(ch[b]) : ch[b][k] = x
    BY <1>5
  <2>2. T[start[b] + k] = x /\ b \in 0..m
    BY <1>4, <1>5, <2>1
  <2>3. \A c \in 0..m : Len(ch[c]) \in Nat /\ start[c + 1] = start[c] + Len(ch[c])
    BY <1>1, <1>4
  <2>4. start[b] + k \in 1..start[m + 1]
    <3> HIDE DEF b
    <3> QED
      BY <1>1, <2>2, <2>3, Before
  <2>5. start[b] + k \in 1..Len(T)
    BY <1>4, <2>4
  <2> QED
    BY <2>2, <2>5
<1>8. ASSUME NEW i \in 1..Len(T), NEW j \in 1..Len(T), T[i] = T[j]
      PROVE  i = j
  <2>1. PICK b \in 0..m : \E k \in 1..Len(ch[b]) : i = start[b] + k
    BY <1>4
  <2>2. PICK k \in 1..Len(ch[b]) : i = start[b] + k
    BY <2>1
  <2>3. PICK c \in 0..m : \E l \in 1..Len(ch[c]) : j = start[c] + l
    BY <1>4
  <2>4. PICK l \in 1..Len(ch[c]) : j = start[c] + l
    BY <2>3
  <2>5. T[i] = ch[b][k] /\ T[j] = ch[c][l]
    BY <1>4, <2>2, <2>4
  <2>6. b = c
    <3>1. Bucket(h, ch[b][k]) = b /\ Bucket(h, ch[c][l]) = c
      BY <1>5
    <3> QED
      BY <1>8, <2>5, <3>1
  <2>7. k = l
    BY <1>8, <2>5, <2>6 DEF Good, Chained, m, ch
  <2> QED
    BY <2>2, <2>4, <2>6, <2>7
<1>9. Elements(h) = Held(h)
  BY <1>3, <1>6, <1>7 DEF Elements, ToSet, T
<1>10. IsInjective(T)
  BY <1>3, <1>8 DEF IsInjective
<1>11. Len(T) = h.n
  <2>1. T \in Bijection(1..Len(T), Held(h))
    <3>1. T \in [1..Len(T) -> Held(h)]
      BY <1>3, <1>6
    <3> QED
      BY <3>1, <1>7, <1>8 DEF Bijection, Injection, Surjection, IsInjective
  <2>2. IsFiniteSet(1..Len(T)) /\ Cardinality(1..Len(T)) = Len(T)
    <3>1. 1 \in Int /\ Len(T) \in Int /\ Len(T) \in Nat
      BY <1>3
    <3>2. /\ IsFiniteSet(1..Len(T))
          /\ Cardinality(1..Len(T)) = IF 1 > Len(T) THEN 0 ELSE Len(T) - 1 + 1
      BY <3>1, FS_Interval
    <3> QED
      BY <3>1, <3>2
  <2>3. Cardinality(Held(h)) = Cardinality(1..Len(T))
    BY <2>1, <2>2, FS_Bijection DEF ExistsBijection
  <2> QED
    BY <2>2, <2>3 DEF Good
<1> QED
  BY <1>3, <1>9, <1>10, <1>11 DEF T

\* A good map is well formed.
LEMMA GoodIsWellFormed ==
  ASSUME NEW h, Good(h)
  PROVE  WellFormed(h)
<1>1. h.mask \in {LowBits[k] : k \in 0..h.mask} \ {1} /\ DOMAIN h.buckets = 0..h.mask
  BY DEF Good, Shaped, Masks
<1>2. \A b \in 0..h.mask : \A k \in 1..Len(h.buckets[b]) : Bucket(h, h.buckets[b][k]) = b
  BY DEF Good, Chained
<1> QED
  BY <1>1, <1>2, TraversalOfGood DEF WellFormed

-----------------------------------------------------------------------------
(* One chain changes *)

\* g is h with chain c in bucket B and the count n.
IsRechained(g, h, B, c, n) ==
    g = [mask |-> h.mask, buckets |-> [h.buckets EXCEPT ![B] = c], n |-> n]

\* The nodes of the other buckets.
HeldElsewhere(h, B) == {y \in Held(h) : Bucket(h, y) # B}

\* c may be the chain of bucket B of h.
IsChain(c, h, B) ==
    /\ c \in Seq(Nodes)
    /\ \A k \in 1..Len(c) :
          Bucket(h, c[k]) = B /\ \A l \in 1..Len(c) : c[k] = c[l] => k = l

\* If c is a chain for its bucket, nothing else changes.
LEMMA Rechained ==
  ASSUME NEW h, Shaped(h), Chained(h), NEW B \in 0..h.mask, NEW c, IsChain(c, h, B),
         NEW n \in Nat, NEW g, IsRechained(g, h, B, c, n)
  PROVE  /\ Shaped(g) /\ Chained(g)
         /\ g.mask = h.mask /\ g.n = n
         /\ g.buckets[B] = c /\ \A b \in 0..h.mask : b # B => g.buckets[b] = h.buckets[b]
         /\ \A y \in Nodes : Bucket(g, y) = Bucket(h, y)
         /\ Held(g) = HeldElsewhere(h, B) \cup ToSet(c)
<1>0. /\ c \in Seq(Nodes)
      /\ \A k \in 1..Len(c) :
            Bucket(h, c[k]) = B /\ \A l \in 1..Len(c) : c[k] = c[l] => k = l
  BY DEF IsChain
<1>1. h.mask \in Masks /\ h.mask \in Nat /\ h.buckets \in [0..h.mask -> Seq(Nodes)]
  BY DEF Shaped, Masks
<1>2. /\ g.mask = h.mask /\ g.n = n /\ g.buckets = [h.buckets EXCEPT ![B] = c]
      /\ g = [mask |-> g.mask, buckets |-> g.buckets, n |-> g.n]
  BY DEF IsRechained
<1>3. Shaped(g)
  BY <1>0, <1>1, <1>2 DEF Shaped
<1>4. g.buckets[B] = c /\ \A b \in 0..h.mask : b # B => g.buckets[b] = h.buckets[b]
  BY <1>0, <1>1, <1>2
<1>5. \A y : Bucket(g, y) = Bucket(h, y)
  BY <1>2 DEF Bucket
<1>6. Chained(g)
  <2> SUFFICES ASSUME NEW b \in 0..h.mask, NEW k \in 1..Len(g.buckets[b])
               PROVE  /\ Bucket(h, g.buckets[b][k]) = b
                      /\ \A l \in 1..Len(g.buckets[b]) :
                            g.buckets[b][k] = g.buckets[b][l] => k = l
    BY <1>2, <1>5 DEF Chained
  <2>1. CASE b = B
    BY <1>0, <1>4, <2>1
  <2>2. CASE b # B
    BY <1>4, <2>2 DEF Chained
  <2> QED
    BY <2>1, <2>2
<1>7. ASSUME NEW y \in Nodes
      PROVE  y \in Held(g) <=> (y \in Held(h) /\ Bucket(h, y) # B) \/ y \in ToSet(c)
  <2>1. Bucket(h, y) \in 0..h.mask
    BY <1>1, BucketRange
  <2>2. CASE Bucket(h, y) = B
    BY <1>4, <1>5, <2>2 DEF Held, hmap_contains
  <2>3. CASE Bucket(h, y) # B
    <3>1. y \notin ToSet(c)
      BY <1>0, <2>3 DEF ToSet
    <3> QED
      BY <1>4, <1>5, <2>1, <2>3, <3>1 DEF Held, hmap_contains
  <2> QED
    BY <2>2, <2>3
<1>8. ToSet(c) \subseteq Nodes /\ Held(g) \subseteq Nodes /\ Held(h) \subseteq Nodes
  BY <1>0 DEF ToSet, Held
<1>9. Held(g) = HeldElsewhere(h, B) \cup ToSet(c)
  BY <1>7, <1>8 DEF HeldElsewhere
<1> QED
  BY <1>2, <1>3, <1>4, <1>5, <1>6, <1>9

\* hmap_insert_fast() changes one chain.
LEMMA InsertFastShape ==
  ASSUME NEW h, NEW m \in Nat, h.buckets \in [0..m -> Seq(Nodes)], h.n \in Nat, h.mask = m,
         h = [mask |-> h.mask, buckets |-> h.buckets, n |-> h.n],
         NEW x \in Nodes, NEW g, g = hmap_insert_fast(h, x)
  PROVE  IsRechained(g, h, Bucket(h, x), <<x>> \o h.buckets[Bucket(h, x)], h.n + 1)
BY DEF hmap_insert_fast, IsRechained

\* A node is inserted at the head of its chain, and the map holds it from then on.
LEMMA InsertFastGood ==
  ASSUME NEW h, Good(h), NEW x \in Nodes, x \notin Held(h),
         NEW g, g = hmap_insert_fast(h, x)
  PROVE  /\ Good(g)
         /\ g.mask = h.mask /\ g.n = h.n + 1
         /\ \A y \in Nodes : Bucket(g, y) = Bucket(h, y)
         /\ Held(g) = Held(h) \cup {x}
         /\ g.buckets[Bucket(h, x)] = <<x>> \o h.buckets[Bucket(h, x)]
         /\ \A b \in 0..h.mask : b # Bucket(h, x) => g.buckets[b] = h.buckets[b]
<1> DEFINE B == Bucket(h, x)
           old == h.buckets[B]
           c == <<x>> \o old
<1>1. /\ h.mask \in Nat /\ h.buckets \in [0..h.mask -> Seq(Nodes)] /\ h.n \in Nat
      /\ h = [mask |-> h.mask, buckets |-> h.buckets, n |-> h.n]
  BY DEF Good, Shaped, Masks
<1>2. B \in 0..h.mask
  BY <1>1, BucketRange
<1>3. old \in Seq(Nodes)
  BY <1>1, <1>2
<1>4. /\ c \in Seq(Nodes) /\ Len(c) = Len(old) + 1 /\ c[1] = x
      /\ \A k \in 1..Len(c) : k # 1 => k - 1 \in 1..Len(old) /\ c[k] = old[k - 1]
  BY <1>3
<1>5. ASSUME NEW k \in 1..Len(old)
      PROVE  /\ Bucket(h, old[k]) = B /\ old[k] # x
             /\ \A l \in 1..Len(old) : old[k] = old[l] => k = l
  <2>1. Bucket(h, old[k]) = B /\ old[k] \in Held(h)
    BY <1>2, HeldInChain DEF Good
  <2>2. \A l \in 1..Len(old) : old[k] = old[l] => k = l
    BY <1>2 DEF Good, Chained
  <2> QED
    BY <2>1, <2>2
<1>6. \A k \in 1..Len(c) : Bucket(h, c[k]) = B
  BY <1>4, <1>5
<1>7. ASSUME NEW k \in 1..Len(c), NEW l \in 1..Len(c), c[k] = c[l]
      PROVE  k = l
  <2>0. Len(old) \in Nat
    BY <1>3
  <2>1. CASE k = 1 /\ l = 1
    BY <2>1
  <2>2. CASE k # 1 /\ l # 1
    <3>1. k - 1 \in 1..Len(old) /\ l - 1 \in 1..Len(old) /\ old[k - 1] = old[l - 1]
      BY <1>4, <1>7, <2>2
    <3>2. k - 1 = l - 1
      BY <1>5, <3>1
    <3> QED
      BY <3>2
  <2>3. CASE k = 1 /\ l # 1
    BY <1>4, <1>5, <1>7, <2>3
  <2>4. CASE k # 1 /\ l = 1
    BY <1>4, <1>5, <1>7, <2>4
  <2> QED
    BY <2>1, <2>2, <2>3, <2>4
<1>8. IsRechained(g, h, B, c, h.n + 1)
  BY <1>1 DEF hmap_insert_fast, IsRechained
<1> DEFINE n == h.n + 1
<1> HIDE DEF B, c, old, n
<1>12. IsChain(c, h, B)
  BY <1>4, <1>6, <1>7 DEF IsChain
<1>9. /\ Shaped(g) /\ Chained(g)
      /\ g.mask = h.mask /\ g.n = h.n + 1
      /\ g.buckets[B] = c /\ \A b \in 0..h.mask : b # B => g.buckets[b] = h.buckets[b]
      /\ \A y \in Nodes : Bucket(g, y) = Bucket(h, y)
      /\ Held(g) = HeldElsewhere(h, B) \cup ToSet(c)
  <2>1. n \in Nat /\ Shaped(h) /\ Chained(h) /\ n = h.n + 1
    BY <1>1 DEF Good, n
  <2>2. IsRechained(g, h, B, c, n)
    BY <1>8, <2>1
  <2> QED
    BY <1>2, <1>12, <2>1, <2>2, Rechained
<1>10. Held(g) = Held(h) \cup {x}
  <2>1. \A y \in ToSet(c) : y = x \/ y \in Held(h)
    <3> SUFFICES ASSUME NEW k \in 1..Len(c), c[k] # x PROVE c[k] \in Held(h)
      BY <1>4 DEF ToSet
    <3>1. k - 1 \in 1..Len(old) /\ c[k] = old[k - 1]
      BY <1>4
    <3> QED
      BY <1>2, <3>1, HeldInChain DEF Good, old
  <2>2. x \in ToSet(c)
    BY <1>3, <1>4 DEF ToSet
  <2>3. ASSUME NEW y \in Held(h), Bucket(h, y) = B PROVE y \in ToSet(c)
    <3>1. PICK k \in 1..Len(old) : old[k] = y
      BY <2>3, HeldInChain DEF Good, old
    <3>2. k + 1 \in 1..Len(c) /\ (k + 1) - 1 = k /\ k + 1 # 1
      BY <1>3, <1>4
    <3>3. c[k + 1] = y
      BY <1>4, <3>1, <3>2
    <3> QED
      BY <1>4, <3>2, <3>3 DEF ToSet
  <2> QED
    BY <1>9, <2>1, <2>2, <2>3 DEF HeldElsewhere
<1>11. IsFiniteSet(Held(g)) /\ g.n = Cardinality(Held(g))
  <2>1. IsFiniteSet(Held(h)) /\ h.n = Cardinality(Held(h))
    BY DEF Good
  <2>2. /\ IsFiniteSet(Held(h) \cup {x})
        /\ Cardinality(Held(h) \cup {x}) = Cardinality(Held(h)) + 1
    BY <2>1, FS_AddElement
  <2> QED
    BY <1>9, <1>10, <2>1, <2>2
<1> QED
  BY <1>9, <1>10, <1>11 DEF Good, B, c, old

-----------------------------------------------------------------------------
(* Capacity *)

\* LowBits is defined, and grows faster than its argument.
LEMMA LowBitsFacts ==
  /\ LowBits \in [Nat -> Nat]
  /\ LowBits[0] = 0 /\ \A k \in Nat : LowBits[k + 1] = 2 * LowBits[k] + 1
  /\ \A k \in Nat : k <= LowBits[k]
<1> DEFINE step == [v \in Nat |-> 2 * v + 1]
           Eq(f) == f = [k \in Nat |-> IF k = 0 THEN 0 ELSE 2 * f[k - 1] + 1]
<1>1. PICK f \in [Nat -> Nat] : IsSeries(f, 0, step)
  <2>1. step \in [Nat -> Nat]
    OBVIOUS
  <2> HIDE DEF step
  <2> QED
    BY <2>1, Recursion
<1>2. Eq(f)
  <2>1. f[0] = 0 /\ \A k \in Nat : f[k + 1] = 2 * f[k] + 1
    BY <1>1 DEF IsSeries
  <2>2. ASSUME NEW k \in Nat, k # 0 PROVE f[k] = 2 * f[k - 1] + 1
    <3>1. k - 1 \in Nat /\ (k - 1) + 1 = k
      BY <2>2
    <3> QED
      BY <2>1, <3>1
  <2> QED
    BY <2>1, <2>2
<1>3. Eq(LowBits)
  <2>1. LowBits = CHOOSE g : Eq(g)
    BY DEF LowBits
  <2> HIDE DEF Eq
  <2> QED
    BY <1>2, <2>1
<1>4. LowBits[0] = 0
  BY <1>3
<1>5. ASSUME NEW k \in Nat PROVE LowBits[k + 1] = 2 * LowBits[k] + 1
  <2>1. k + 1 \in Nat /\ k + 1 # 0 /\ (k + 1) - 1 = k
    OBVIOUS
  <2> QED
    BY <1>3, <2>1
<1> DEFINE S == {k \in Nat : LowBits[k] \in Nat /\ k <= LowBits[k]}
<1>6. Nat \subseteq S
  <2>1. 0 \in S
    BY <1>4
  <2>2. \A k \in Nat : k \in S => k + 1 \in S
    BY <1>5
  <2> HIDE DEF S
  <2> QED
    BY <2>1, <2>2, SetInduction
<1>7. DOMAIN LowBits = Nat /\ \A k \in Nat : LowBits[k] \in Nat /\ k <= LowBits[k]
  BY <1>3, <1>6
<1> QED
  BY <1>3, <1>4, <1>5, <1>7

\* The mask for a capacity is a mask, and not below half the capacity.
LEMMA CalcMask ==
  ASSUME NEW c \in Nat
  PROVE  calc_mask(c) \in Masks /\ calc_mask(c) \in Nat /\ c <= 2 * calc_mask(c) + 1
<1> DEFINE S == {m \in {LowBits[k] : k \in 0..(c + 2)} \ {1} : m >= c \div 2}
<1>1. S \in SUBSET Nat
  BY LowBitsFacts
<1>2. LowBits[c + 2] \in S
  <2> DEFINE k == c + 2
  <2>0. k \in Nat /\ k \in 0..(c + 2)
    OBVIOUS
  <2>1. LowBits[k] \in Nat /\ k <= LowBits[k]
    <3> HIDE DEF k
    <3> QED
      BY <2>0, LowBitsFacts
  <2> QED
    BY <2>0, <2>1
<1>3. calc_mask(c) = Min(S)
  BY DEF calc_mask
<1>4. calc_mask(c) \in S
  <2> HIDE DEF S
  <2> QED
    BY <1>1, <1>2, <1>3, MinExists
<1>5. PICK k \in 0..(c + 2) : calc_mask(c) = LowBits[k]
  BY <1>4
<1>6. k \in Nat /\ LowBits[k] \in Nat /\ k <= LowBits[k]
  <2>1. k \in Nat
    OBVIOUS
  <2> QED
    BY <2>1, LowBitsFacts
<1>7. calc_mask(c) \in Masks
  BY <1>4, <1>5, <1>6 DEF Masks
<1> HIDE DEF S
<1>8. calc_mask(c) \in Nat /\ calc_mask(c) >= c \div 2
  BY <1>1, <1>4 DEF S
<1> QED
  BY <1>7, <1>8

\* A table of empty buckets.
EmptyTable(m) == [mask |-> m, buckets |-> [b \in 0..m |-> <<>>], n |-> 0]

\* A table of empty buckets is good, and holds nothing.
LEMMA EmptyGood ==
  ASSUME NEW m \in Masks
  PROVE  /\ Good(EmptyTable(m)) /\ Held(EmptyTable(m)) = {}
         /\ EmptyTable(m).mask = m /\ EmptyTable(m).n = 0
<1> DEFINE h == EmptyTable(m)
<1>1. m \in Nat
  BY DEF Masks
<1>2. /\ h = [mask |-> h.mask, buckets |-> h.buckets, n |-> h.n]
      /\ h.mask = m /\ h.n = 0 /\ h.buckets = [b \in 0..m |-> <<>>]
  BY DEF EmptyTable
<1> HIDE DEF h
<1>3. Shaped(h)
  <2>1. [b \in 0..m |-> <<>>] \in [0..m -> Seq(Nodes)]
    OBVIOUS
  <2> QED
    BY <1>2, <2>1 DEF Shaped
<1>4. Chained(h)
  BY <1>2 DEF Chained
<1>5. Held(h) = {}
  <2> SUFFICES ASSUME NEW x \in Nodes, hmap_contains(h, x) PROVE FALSE
    BY DEF Held
  <2>1. Bucket(h, x) \in 0..m
    BY <1>1, <1>2, BucketRange
  <2>2. h.buckets[Bucket(h, x)] = <<>>
    BY <1>2, <2>1
  <2> QED
    BY <2>2 DEF hmap_contains, ToSet
<1> QED
  BY <1>2, <1>3, <1>4, <1>5, FS_EmptySet DEF Good, h

\* The nodes that are put into a new table one after the other are what it holds.
LEMMA RefilledGood ==
  ASSUME NEW m \in Masks, NEW nodes \in Seq(Nodes), IsInjective(nodes)
  PROVE  /\ Good(Refilled(nodes, m)) /\ Refilled(nodes, m).mask = m
         /\ Held(Refilled(nodes, m)) = ToSet(nodes)
<1> DEFINE L == Len(nodes)
           V == [mask : {m}, buckets : [0..m -> Seq(Nodes)], n : Nat]
           step == [k \in 1..L |-> [h \in V |-> hmap_insert_fast(h, nodes[k])]]
           base == EmptyTable(m)
           Eq(t) == t = [k \in 0..L |-> IF k = 0 THEN base
                                        ELSE hmap_insert_fast(t[k - 1], nodes[k])]
           tmp == CHOOSE t : Eq(t)
<1>1. m \in Nat /\ L \in Nat /\ base \in V
  <2>1. m \in Nat /\ L \in Nat /\ [b \in 0..m |-> <<>>] \in [0..m -> Seq(Nodes)]
    BY DEF Masks
  <2> QED
    BY <2>1 DEF EmptyTable
<1>2. step \in [1..L -> [V -> V]]
  <2> SUFFICES ASSUME NEW k \in 1..L, NEW h \in V
               PROVE  hmap_insert_fast(h, nodes[k]) \in V
    OBVIOUS
  <2>1. nodes[k] \in Nodes /\ h.mask \in Nat /\ h.mask = m
    BY <1>1
  <2>2. Bucket(h, nodes[k]) \in 0..m
    BY <2>1, BucketRange
  <2> DEFINE B == Bucket(h, nodes[k])
             c == <<nodes[k]>> \o h.buckets[B]
  <2>3. c \in Seq(Nodes)
    BY <2>1, <2>2
  <2> DEFINE bs == [h.buckets EXCEPT ![B] = c]
  <2>4. h = [mask |-> h.mask, buckets |-> h.buckets, n |-> h.n]
    OBVIOUS
  <2>7. h.buckets \in [0..m -> Seq(Nodes)] /\ h.n \in Nat
    OBVIOUS
  <2>5. hmap_insert_fast(h, nodes[k]) = [mask |-> h.mask, buckets |-> bs, n |-> h.n + 1]
    <3> DEFINE g == hmap_insert_fast(h, nodes[k])
    <3>1. g = hmap_insert_fast(h, nodes[k])
      OBVIOUS
    <3> HIDE DEF V, g
    <3>2. IsRechained(g, h, B, c, h.n + 1)
      BY <1>1, <2>1, <2>4, <2>7, <3>1, InsertFastShape
    <3> QED
      BY <3>1, <3>2 DEF IsRechained
  <2>6. bs \in [0..m -> Seq(Nodes)] /\ h.n + 1 \in Nat
    <3>1. h.buckets \in [0..m -> Seq(Nodes)] /\ h.n \in Nat
      OBVIOUS
    <3> HIDE DEF B, c, V
    <3>2. bs \in [0..m -> Seq(Nodes)]
      BY <2>3, <3>1
    <3>3. h.n + 1 \in Nat
      BY <3>1
    <3> QED
      BY <3>2, <3>3
  <2> HIDE DEF bs
  <2> QED
    BY <2>1, <2>5, <2>6 DEF V
<1>3. PICK f \in [0..L -> V] : IsRun(f, L, base, step)
  <2> HIDE DEF L, V, base, step
  <2> QED
    BY <1>1, <1>2, Iteration
<1>4. Eq(f)
  <2>1. f[0] = base /\ \A k \in 1..L : f[k] = step[k][f[k - 1]]
    BY <1>3 DEF IsRun
  <2>2. ASSUME NEW k \in 0..L, k # 0
        PROVE  f[k] = hmap_insert_fast(f[k - 1], nodes[k])
    <3>1. k \in 1..L /\ k - 1 \in 0..L
      BY <1>1, <2>2
    <3>2. f[k - 1] \in V
      BY <3>1
    <3> QED
      BY <2>1, <3>1, <3>2
  <2> HIDE DEF V, base
  <2> QED
    BY <2>1, <2>2
<1>5. Eq(tmp)
  <2> HIDE DEF Eq
  <2> QED
    BY <1>4
<1>6. Refilled(nodes, m) = tmp[L]
  BY DEF Refilled, EmptyTable
<1> HIDE DEF tmp, base
<1>7. tmp[0] = base /\ \A k \in 1..L : tmp[k] = hmap_insert_fast(tmp[k - 1], nodes[k])
  BY <1>1, <1>5
<1> DEFINE Put(k) == /\ Good(tmp[k]) /\ tmp[k].mask = m
                     /\ Held(tmp[k]) = {nodes[i] : i \in 1..k}
           S == {k \in Nat : k <= L => Put(k)}
<1>8. 0 \in S
  <2>1. {nodes[i] : i \in 1..0} = {}
    OBVIOUS
  <2> QED
    BY <1>7, <2>1, EmptyGood DEF base
<1>9. ASSUME NEW k \in Nat, k \in S
      PROVE  k + 1 \in S
  <2> SUFFICES ASSUME k + 1 <= L PROVE Put(k + 1)
    OBVIOUS
  <2> DEFINE h == tmp[k]
             x == nodes[k + 1]
             g == tmp[k + 1]
  <2>1. Good(h) /\ h.mask = m /\ Held(h) = {nodes[i] : i \in 1..k}
    BY <1>1, <1>9
  <2>2. k + 1 \in 1..L /\ (k + 1) - 1 = k
    BY <1>1
  <2>3. g = hmap_insert_fast(h, x)
    BY <1>7, <2>2
  <2>4. x \in Nodes
    BY <2>2
  <2>5. x \notin Held(h)
    <3> SUFFICES ASSUME NEW i \in 1..k, nodes[i] = x PROVE FALSE
      BY <2>1
    <3>1. i \in DOMAIN nodes /\ k + 1 \in DOMAIN nodes /\ i # k + 1
      BY <1>1, <2>2
    <3> QED
      BY <3>1 DEF IsInjective
  <2> HIDE DEF h, x, g
  <2>6. Good(g) /\ g.mask = m /\ Held(g) = Held(h) \cup {x}
    BY <2>1, <2>3, <2>4, <2>5, InsertFastGood
  <2>7. {nodes[i] : i \in 1..(k + 1)} = {nodes[i] : i \in 1..k} \cup {x}
    <3>1. 1..(k + 1) = 1..k \cup {k + 1}
      OBVIOUS
    <3> QED
      BY <3>1 DEF x
  <2> QED
    BY <2>1, <2>6, <2>7 DEF g
<1>10. Put(L)
  <2>1. L \in S
    <3> HIDE DEF S, L
    <3> QED
      BY <1>1, <1>8, <1>9, SetInduction
  <2> HIDE DEF Put
  <2> QED
    BY <1>1, <2>1
<1>11. ToSet(nodes) = {nodes[i] : i \in 1..L}
  BY DEF ToSet
<1> QED
  BY <1>6, <1>10, <1>11

\* A reallocation keeps the nodes.
LEMMA ResizeGood ==
  ASSUME NEW h, Good(h), NEW m \in Masks
  PROVE  /\ Good(resize(h, m)) /\ resize(h, m).mask = m
         /\ Held(resize(h, m)) = Held(h) /\ resize(h, m).n = h.n
<1> DEFINE T == Traversal(h)
<1>1. T \in Seq(Nodes) /\ IsInjective(T) /\ ToSet(T) = Held(h)
  BY TraversalOfGood DEF Elements
<1>2. resize(h, m) = Refilled(T, m)
  BY DEF resize
<1> HIDE DEF T
<1>3. /\ Good(resize(h, m)) /\ resize(h, m).mask = m
      /\ Held(resize(h, m)) = Held(h)
  BY <1>1, <1>2, RefilledGood
<1> QED
  BY <1>3 DEF Good

\* hmap_expand() keeps the nodes and leaves no more of them than the map has capacity.
LEMMA ExpandGood ==
  ASSUME NEW h, Good(h)
  PROVE  /\ Good(hmap_expand(h)) /\ Held(hmap_expand(h)) = Held(h)
         /\ hmap_expand(h).n = h.n /\ h.n <= hmap_capacity(hmap_expand(h))
         /\ hmap_expand(h) = h \/ hmap_expand(h).mask # h.mask
<1>1. h.n \in Nat /\ h.mask \in Nat
  BY DEF Good, Shaped, Masks
<1>2. calc_mask(h.n) \in Masks /\ calc_mask(h.n) \in Nat /\ h.n <= 2 * calc_mask(h.n) + 1
  BY <1>1, CalcMask
<1>3. CASE calc_mask(h.n) > h.mask
  <2>1. hmap_expand(h) = resize(h, calc_mask(h.n))
    BY <1>3 DEF hmap_expand
  <2>2. hmap_expand(h).mask = calc_mask(h.n)
    BY <1>2, <2>1, ResizeGood
  <2> QED
    BY <1>1, <1>2, <1>3, <2>1, <2>2, ResizeGood DEF hmap_capacity
<1>4. CASE ~(calc_mask(h.n) > h.mask)
  BY <1>1, <1>2, <1>4 DEF hmap_expand, hmap_capacity
<1> QED
  BY <1>3, <1>4

\* hmap_shrink() does so, too, if it does anything.
LEMMA ShrinkGood ==
  ASSUME NEW h, Good(h)
  PROVE  /\ Good(hmap_shrink(h)) /\ Held(hmap_shrink(h)) = Held(h)
         /\ hmap_shrink(h).n = h.n
         /\ hmap_shrink(h) = h \/ h.n <= hmap_capacity(hmap_shrink(h))
         /\ hmap_shrink(h) = h \/ hmap_shrink(h).mask # h.mask
<1>1. h.n \in Nat /\ h.mask \in Nat
  BY DEF Good, Shaped, Masks
<1>2. calc_mask(h.n) \in Masks /\ calc_mask(h.n) \in Nat /\ h.n <= 2 * calc_mask(h.n) + 1
  BY <1>1, CalcMask
<1>3. CASE calc_mask(h.n) < h.mask
  <2>1. hmap_shrink(h) = resize(h, calc_mask(h.n))
    BY <1>3 DEF hmap_shrink
  <2>2. hmap_shrink(h).mask = calc_mask(h.n)
    BY <1>2, <2>1, ResizeGood
  <2> QED
    BY <1>1, <1>2, <1>3, <2>1, <2>2, ResizeGood DEF hmap_capacity
<1>4. CASE ~(calc_mask(h.n) < h.mask)
  BY <1>4 DEF hmap_shrink
<1> QED
  BY <1>3, <1>4

\* hmap_reserve() keeps the nodes and never takes capacity away.
LEMMA ReserveGood ==
  ASSUME NEW h, Good(h), NEW c \in Nat
  PROVE  /\ Good(hmap_reserve(h, c)) /\ Held(hmap_reserve(h, c)) = Held(h)
         /\ hmap_reserve(h, c).n = h.n
         /\ hmap_capacity(h) <= hmap_capacity(hmap_reserve(h, c))
         /\ hmap_reserve(h, c) = h \/ hmap_reserve(h, c).mask # h.mask
<1>1. h.mask \in Nat
  BY DEF Good, Shaped, Masks
<1>2. calc_mask(c) \in Masks /\ calc_mask(c) \in Nat
  BY CalcMask
<1>3. CASE calc_mask(c) > h.mask
  <2>1. hmap_reserve(h, c) = resize(h, calc_mask(c))
    BY <1>3 DEF hmap_reserve
  <2>2. hmap_reserve(h, c).mask = calc_mask(c)
    BY <1>2, <2>1, ResizeGood
  <2>3. h.mask * 2 + 1 <= calc_mask(c) * 2 + 1
    BY <1>1, <1>2, <1>3
  <2> QED
    BY <1>1, <1>2, <1>3, <2>1, <2>2, <2>3, ResizeGood DEF hmap_capacity
<1>4. CASE ~(calc_mask(c) > h.mask)
  BY <1>1, <1>4 DEF hmap_reserve, hmap_capacity
<1> QED
  BY <1>3, <1>4

\* hmap_insert() adds a node, and makes room for it.
LEMMA InsertGood ==
  ASSUME NEW h, Good(h), NEW x \in Nodes, x \notin Held(h)
  PROVE  /\ Good(hmap_insert(h, x)) /\ Held(hmap_insert(h, x)) = Held(h) \cup {x}
         /\ hmap_insert(h, x).n <= hmap_capacity(hmap_insert(h, x))
         /\ hmap_insert(h, x) = hmap_insert_fast(h, x) \/ hmap_insert(h, x).mask # h.mask
<1> DEFINE g == hmap_insert_fast(h, x)
<1>1. hmap_insert(h, x) = IF g.n \div 2 > g.mask THEN hmap_expand(g) ELSE g
  BY DEF hmap_insert
<1> HIDE DEF g
<1>2. Good(g) /\ Held(g) = Held(h) \cup {x} /\ g.mask = h.mask
  BY InsertFastGood DEF g
<1>3. g.n \in Nat /\ g.mask \in Nat
  BY <1>2 DEF Good, Shaped, Masks
<1>4. CASE g.n \div 2 > g.mask
  <2>1. /\ Good(hmap_expand(g)) /\ Held(hmap_expand(g)) = Held(g)
        /\ hmap_expand(g).n = g.n /\ g.n <= hmap_capacity(hmap_expand(g))
    BY <1>2, ExpandGood
  <2>2. ~(g.n <= g.mask * 2 + 1)
    BY <1>3, <1>4
  <2>3. hmap_expand(g).mask # g.mask
    BY <2>1, <2>2 DEF hmap_capacity
  <2> QED
    BY <1>1, <1>2, <1>4, <2>1, <2>3
<1>5. CASE ~(g.n \div 2 > g.mask)
  <2>1. g.n <= g.mask * 2 + 1
    BY <1>3, <1>5
  <2> QED
    BY <1>1, <1>2, <1>5, <2>1 DEF hmap_capacity, g
<1> QED
  BY <1>4, <1>5

-----------------------------------------------------------------------------
(* Removal, replacement and clearing *)

Distinct(c) == \A k, l \in 1..Len(c) : c[k] = c[l] => k = l

\* The place SelectInSeq finds for x in c.
Position(c, x) == SelectInSeq(c, LAMBDA v : v = x)

\* In a chain a node has one position.
LEMMA PositionIs ==
  ASSUME NEW S, NEW c \in Seq(S), Distinct(c), NEW i \in 1..Len(c), NEW x, c[i] = x
  PROVE  Position(c, x) = i
<1> DEFINE I == {j \in 1..Len(c) : c[j] = x}
<1>1. I = {i}
  BY DEF Distinct
<1>2. Position(c, x) = IF I # {} THEN Min(I) ELSE 0
  BY DEF SelectInSeq, Position
<1>3. i \in Nat
  OBVIOUS
<1>4. Min({i}) = i
  BY <1>3 DEF Min
<1> HIDE DEF I
<1> QED
  BY <1>1, <1>2, <1>4

\* A chain without one of its nodes.
IsWithout(d, c, i) ==
    /\ Len(d) = Len(c) - 1
    /\ \A k \in 1..Len(d) : d[k] = IF k < i THEN c[k] ELSE c[k + 1]

\* RemoveFirst takes out one node, and the nodes after it move up.
LEMMA RemoveFirstIs ==
  ASSUME NEW S, NEW c \in Seq(S), Distinct(c), NEW i \in 1..Len(c), NEW x, c[i] = x
  PROVE  RemoveFirst(c, x) \in Seq(S) /\ IsWithout(RemoveFirst(c, x), c, i)
<1> DEFINE a == SubSeq(c, 1, i - 1)
           z == SubSeq(c, i + 1, Len(c))
<1>1. RemoveFirst(c, x) = a \o z
  <2>1. Position(c, x) = i
    BY PositionIs
  <2>2. \E j \in 1..Len(c) : c[j] = x
    OBVIOUS
  <2> QED
    BY <2>1, <2>2 DEF RemoveFirst, RemoveAt, Position
<1>2. /\ a \in Seq(S) /\ Len(a) = i - 1
      /\ \A k \in 1..(i - 1) : a[k] = c[k]
  OBVIOUS
<1>3. /\ z \in Seq(S) /\ Len(z) = Len(c) - i
      /\ \A k \in 1..(Len(c) - i) : z[k] = c[i + k]
  OBVIOUS
<1> HIDE DEF a, z
<1> DEFINE d == a \o z
<1>4. d \in Seq(S) /\ Len(d) = Len(c) - 1
  <2>1. d \in Seq(S) /\ Len(d) = Len(a) + Len(z)
    BY <1>2, <1>3
  <2>2. Len(c) \in Nat /\ i \in Nat
    OBVIOUS
  <2> HIDE DEF d
  <2> QED
    BY <1>2, <1>3, <2>1, <2>2
<1>5. ASSUME NEW k \in 1..Len(d)
      PROVE  d[k] = IF k < i THEN c[k] ELSE c[k + 1]
  <2>0. Len(c) \in Nat /\ i \in Nat /\ k \in Nat
    OBVIOUS
  <2>1. CASE k < i
    <3>1. k \in 1..(i - 1) /\ d[k] = a[k]
      BY <1>2, <1>3, <2>0, <2>1
    <3> QED
      BY <1>2, <2>1, <3>1
  <2>2. CASE ~(k < i)
    <3> DEFINE j == k - (i - 1)
    <3>1. j \in 1..(Len(c) - i) /\ i + j = k + 1
      BY <1>4, <2>0, <2>2
    <3>2. d[k] = z[j]
      BY <1>2, <1>3, <1>4, <2>0, <2>2
    <3>3. z[j] = c[i + j]
      BY <1>3, <3>1
    <3> QED
      BY <2>2, <3>1, <3>2, <3>3
  <2> QED
    BY <2>1, <2>2
<1> QED
  BY <1>1, <1>4, <1>5 DEF IsWithout

\* x is before y in chain c.
Precedes(c, x, y) == \E k, l \in 1..Len(c) : c[k] = x /\ c[l] = y /\ k < l

\* What is left of a chain has the other nodes, in their order.
LEMMA WithoutKeepsOrder ==
  ASSUME NEW S, NEW c \in Seq(S), Distinct(c),
         NEW i \in 1..Len(c), NEW d \in Seq(S), IsWithout(d, c, i)
  PROVE  /\ Distinct(d)
         /\ ToSet(d) = ToSet(c) \ {c[i]}
         /\ \A x, y : x # c[i] /\ y # c[i] => (Precedes(d, x, y) <=> Precedes(c, x, y))
<1> DEFINE up(k) == IF k < i THEN k ELSE k + 1
           down(k) == IF k < i THEN k ELSE k - 1
<1>0. Len(c) \in Nat /\ Len(d) \in Nat /\ Len(d) = Len(c) - 1 /\ i \in Nat
  BY DEF IsWithout
<1>1. ASSUME NEW k \in 1..Len(d)
      PROVE  up(k) \in 1..Len(c) /\ up(k) # i /\ d[k] = c[up(k)]
  BY <1>0 DEF IsWithout
<1>2. ASSUME NEW k \in 1..Len(c), k # i
      PROVE  down(k) \in 1..Len(d) /\ up(down(k)) = k /\ d[down(k)] = c[k]
  <2>1. down(k) \in 1..Len(d) /\ up(down(k)) = k
    BY <1>0, <1>2
  <2> HIDE DEF down, up
  <2> QED
    BY <1>1, <2>1
<1>3. ASSUME NEW k \in 1..Len(d), NEW l \in 1..Len(d) PROVE k < l <=> up(k) < up(l)
  BY <1>0
<1>4. ASSUME NEW k \in 1..Len(c), k # i, NEW l \in 1..Len(c), l # i
      PROVE  k < l <=> down(k) < down(l)
  BY <1>0, <1>4
<1>5. ASSUME NEW k \in 1..Len(d), NEW l \in 1..Len(d), d[k] = d[l] PROVE k = l
  <2>1. up(k) = up(l)
    <3> HIDE DEF up
    <3> QED
      BY <1>1, <1>5 DEF Distinct
  <2> QED
    BY <1>0, <2>1
<1> HIDE DEF up, down
<1>6. ToSet(d) = ToSet(c) \ {c[i]}
  <2>1. ToSet(c) = {c[k] : k \in 1..Len(c)} /\ ToSet(d) = {d[k] : k \in 1..Len(d)}
    BY DEF ToSet
  <2>2. ASSUME NEW k \in 1..Len(d) PROVE d[k] \in ToSet(c) \ {c[i]}
    <3>1. up(k) \in 1..Len(c) /\ up(k) # i /\ d[k] = c[up(k)]
      BY <1>1
    <3>2. c[up(k)] # c[i]
      BY <3>1 DEF Distinct
    <3> QED
      BY <2>1, <3>1, <3>2
  <2>3. ASSUME NEW k \in 1..Len(c), c[k] # c[i] PROVE c[k] \in ToSet(d)
    <3>1. k # i
      BY <2>3
    <3>2. down(k) \in 1..Len(d) /\ d[down(k)] = c[k]
      BY <1>2, <3>1
    <3> QED
      BY <2>1, <3>2
  <2> QED
    BY <2>1, <2>2, <2>3
<1>7. ASSUME NEW x, NEW y, Precedes(d, x, y) PROVE Precedes(c, x, y)
  <2>1. PICK k \in 1..Len(d), l \in 1..Len(d) : d[k] = x /\ d[l] = y /\ k < l
    BY <1>7 DEF Precedes
  <2>2. up(k) \in 1..Len(c) /\ up(l) \in 1..Len(c) /\ up(k) < up(l)
    BY <1>1, <1>3, <2>1
  <2>3. c[up(k)] = x /\ c[up(l)] = y
    BY <1>1, <2>1
  <2> QED
    BY <2>2, <2>3 DEF Precedes
<1>8. ASSUME NEW x, NEW y, x # c[i], y # c[i], Precedes(c, x, y) PROVE Precedes(d, x, y)
  <2>1. PICK k \in 1..Len(c), l \in 1..Len(c) : c[k] = x /\ c[l] = y /\ k < l
    BY <1>8 DEF Precedes
  <2>2. k # i /\ l # i
    BY <1>8, <2>1
  <2>3. down(k) \in 1..Len(d) /\ down(l) \in 1..Len(d) /\ down(k) < down(l)
    BY <1>2, <1>4, <2>1, <2>2
  <2>4. d[down(k)] = x /\ d[down(l)] = y
    BY <1>2, <2>1, <2>2
  <2> QED
    BY <2>3, <2>4 DEF Precedes
<1> QED
  BY <1>5, <1>6, <1>7, <1>8 DEF Distinct

\* A node put at the head of a chain is before all others, whose order stays.
LEMMA PrependOrder ==
  ASSUME NEW S, NEW c \in Seq(S), NEW x \in S
  PROVE  \A y, z : Precedes(<<x>> \o c, y, z)
                     <=> (y = x /\ z \in ToSet(c)) \/ Precedes(c, y, z)
<1> DEFINE d == <<x>> \o c
<1>1. /\ Len(c) \in Nat /\ Len(d) = Len(c) + 1 /\ d[1] = x
      /\ \A k \in 1..Len(c) : k + 1 \in 1..Len(d) /\ d[k + 1] = c[k]
      /\ \A k \in 1..Len(d) : k # 1 => k - 1 \in 1..Len(c) /\ d[k] = c[k - 1]
  OBVIOUS
<1>2. ToSet(c) = {c[k] : k \in 1..Len(c)}
  BY DEF ToSet
<1> HIDE DEF d
<1>3. ASSUME NEW y, NEW z, Precedes(d, y, z)
      PROVE  (y = x /\ z \in ToSet(c)) \/ Precedes(c, y, z)
  <2>1. PICK k \in 1..Len(d), l \in 1..Len(d) : d[k] = y /\ d[l] = z /\ k < l
    BY <1>3 DEF Precedes
  <2>2. l # 1 /\ l - 1 \in 1..Len(c) /\ z = c[l - 1]
    BY <1>1, <2>1
  <2>3. CASE k = 1
    BY <1>1, <1>2, <2>1, <2>2, <2>3
  <2>4. CASE k # 1
    <3>1. k - 1 \in 1..Len(c) /\ y = c[k - 1] /\ k - 1 < l - 1
      BY <1>1, <2>1, <2>4
    <3> QED
      BY <2>2, <3>1 DEF Precedes
  <2> QED
    BY <2>3, <2>4
<1>4. ASSUME NEW z \in ToSet(c) PROVE Precedes(d, x, z)
  <2>1. PICK k \in 1..Len(c) : c[k] = z
    BY <1>2
  <2>2. k + 1 \in 1..Len(d) /\ d[k + 1] = z /\ 1 \in 1..Len(d) /\ 1 < k + 1
    BY <1>1, <2>1
  <2> QED
    BY <1>1, <2>2 DEF Precedes
<1>5. ASSUME NEW y, NEW z, Precedes(c, y, z) PROVE Precedes(d, y, z)
  <2>1. PICK k \in 1..Len(c), l \in 1..Len(c) : c[k] = y /\ c[l] = z /\ k < l
    BY <1>5 DEF Precedes
  <2>2. k + 1 \in 1..Len(d) /\ l + 1 \in 1..Len(d) /\ k + 1 < l + 1
    BY <1>1, <2>1
  <2>3. d[k + 1] = y /\ d[l + 1] = z
    BY <1>1, <2>1
  <2> QED
    BY <2>2, <2>3 DEF Precedes
<1> QED
  BY <1>3, <1>4, <1>5 DEF d

\* Each chain of a good map is a sequence of distinct nodes that belong there.
LEMMA ChainAt ==
  ASSUME NEW h, Good(h), NEW b \in 0..h.mask
  PROVE  /\ h.buckets[b] \in Seq(Nodes) /\ Distinct(h.buckets[b])
         /\ ToSet(h.buckets[b]) = {y \in Held(h) : Bucket(h, y) = b}
<1>1. h.buckets \in [0..h.mask -> Seq(Nodes)] /\ Shaped(h) /\ Chained(h)
  BY DEF Good, Shaped
<1>2. h.buckets[b] \in Seq(Nodes)
  BY <1>1
<1>3. Distinct(h.buckets[b])
  BY <1>1 DEF Chained, Distinct
<1>4. ASSUME NEW k \in 1..Len(h.buckets[b])
      PROVE  h.buckets[b][k] \in Held(h) /\ Bucket(h, h.buckets[b][k]) = b
  BY <1>1, HeldInChain
<1>5. ASSUME NEW y \in Held(h), Bucket(h, y) = b PROVE y \in ToSet(h.buckets[b])
  BY <1>5 DEF Held, hmap_contains
<1>6. ToSet(h.buckets[b]) = {h.buckets[b][k] : k \in 1..Len(h.buckets[b])}
  BY <1>2 DEF ToSet
<1> QED
  BY <1>2, <1>3, <1>4, <1>5, <1>6

\* hmap_remove() takes out the node, and nothing else moves.
LEMMA RemoveGood ==
  ASSUME NEW h, Good(h), NEW x \in Held(h), NEW g, g = hmap_remove(h, x)
  PROVE  /\ Good(g)
         /\ g.mask = h.mask /\ g.n = h.n - 1
         /\ \A y \in Nodes : Bucket(g, y) = Bucket(h, y)
         /\ Held(g) = Held(h) \ {x}
         /\ \A b \in 0..h.mask : \A y, z : y # x /\ z # x =>
               (Precedes(g.buckets[b], y, z) <=> Precedes(h.buckets[b], y, z))
<1> DEFINE B == Bucket(h, x)
           old == h.buckets[B]
           c == RemoveFirst(old, x)
           n == h.n - 1
<1>1. /\ h.mask \in Nat /\ h.buckets \in [0..h.mask -> Seq(Nodes)] /\ h.n \in Nat
      /\ h = [mask |-> h.mask, buckets |-> h.buckets, n |-> h.n]
      /\ Shaped(h) /\ Chained(h) /\ IsFiniteSet(Held(h)) /\ h.n = Cardinality(Held(h))
  BY DEF Good, Shaped, Masks
<1>2. x \in Nodes /\ B \in 0..h.mask
  BY <1>1, BucketRange DEF Held
<1>3. old \in Seq(Nodes) /\ Distinct(old) /\ ToSet(old) = {y \in Held(h) : Bucket(h, y) = B}
  BY <1>2, ChainAt
<1>4. PICK i \in 1..Len(old) : old[i] = x
  BY <1>1, HeldInChain
<1> HIDE DEF c, old
<1>5. c \in Seq(Nodes) /\ IsWithout(c, old, i)
  BY <1>3, <1>4, RemoveFirstIs DEF c
<1>6. /\ Distinct(c) /\ ToSet(c) = ToSet(old) \ {x}
      /\ \A y, z : y # x /\ z # x => (Precedes(c, y, z) <=> Precedes(old, y, z))
  BY <1>3, <1>4, <1>5, WithoutKeepsOrder
<1>7. IsChain(c, h, B)
  <2>1. ASSUME NEW k \in 1..Len(c) PROVE Bucket(h, c[k]) = B
    <3>1. c[k] \in ToSet(c)
      BY <1>5 DEF ToSet
    <3> QED
      BY <1>3, <1>6, <3>1
  <2> QED
    BY <1>5, <1>6, <2>1 DEF IsChain, Distinct
<1>8. IsRechained(g, h, B, c, n)
  BY <1>1, <1>2 DEF hmap_remove, IsRechained, c, old
<1>9. /\ IsFiniteSet(Held(h) \ {x}) /\ Cardinality(Held(h) \ {x}) = n
      /\ Cardinality(Held(h) \ {x}) \in Nat
  BY <1>1, FS_RemoveElement, FS_CardinalityType
<1> HIDE DEF B, n
<1>10. /\ Shaped(g) /\ Chained(g)
       /\ g.mask = h.mask /\ g.n = n
       /\ g.buckets[B] = c /\ \A b \in 0..h.mask : b # B => g.buckets[b] = h.buckets[b]
       /\ \A y \in Nodes : Bucket(g, y) = Bucket(h, y)
       /\ Held(g) = HeldElsewhere(h, B) \cup ToSet(c)
  <2>1. n \in Nat
    BY <1>9
  <2> QED
    BY <1>1, <1>2, <1>7, <1>8, <2>1, Rechained
<1>11. Held(g) = Held(h) \ {x}
  BY <1>3, <1>6, <1>10 DEF HeldElsewhere, B
<1>12. Good(g)
  BY <1>9, <1>10, <1>11 DEF Good
<1>13. ASSUME NEW b \in 0..h.mask, NEW y, NEW z, y # x, z # x
       PROVE  Precedes(g.buckets[b], y, z) <=> Precedes(h.buckets[b], y, z)
  <2>1. CASE b = B
    BY <1>6, <1>10, <1>13, <2>1 DEF old
  <2>2. CASE b # B
    BY <1>10, <2>2
  <2> QED
    BY <2>1, <2>2
<1> QED
  BY <1>10, <1>11, <1>12, <1>13 DEF n

\* hmap_replace() puts the new node in the place of the old one.
LEMMA ReplaceGood ==
  ASSUME NEW h, Good(h), NEW x \in Held(h), NEW y \in Nodes, y \notin Held(h),
         Hash[x] = Hash[y], NEW g, g = hmap_replace(h, x, y)
  PROVE  /\ Good(g) /\ g.mask = h.mask /\ g.n = h.n
         /\ Held(g) = (Held(h) \ {x}) \cup {y}
<1> DEFINE B == Bucket(h, x)
           old == h.buckets[B]
           c == [k \in 1..Len(old) |-> IF old[k] = x THEN y ELSE old[k]]
           n == h.n
<1>1. /\ h.mask \in Nat /\ h.buckets \in [0..h.mask -> Seq(Nodes)] /\ h.n \in Nat
      /\ h = [mask |-> h.mask, buckets |-> h.buckets, n |-> h.n]
      /\ Shaped(h) /\ Chained(h) /\ IsFiniteSet(Held(h)) /\ h.n = Cardinality(Held(h))
  BY DEF Good, Shaped, Masks
<1>2. x \in Nodes /\ B \in 0..h.mask /\ Bucket(h, y) = B
  BY <1>1, BucketRange DEF Held, Bucket
<1>3. old \in Seq(Nodes) /\ Distinct(old) /\ ToSet(old) = {z \in Held(h) : Bucket(h, z) = B}
  BY <1>2, ChainAt
<1>4. IsRechained(g, h, B, c, n)
  BY <1>1, <1>2 DEF hmap_replace, IsRechained
<1> HIDE DEF old
<1>5. /\ c \in Seq(Nodes) /\ Len(c) = Len(old)
      /\ \A k \in 1..Len(old) : c[k] = IF old[k] = x THEN y ELSE old[k]
  <2>1. \A k \in 1..Len(old) : (IF old[k] = x THEN y ELSE old[k]) \in Nodes
    BY <1>3
  <2>2. Len(old) \in Nat
    BY <1>3
  <2> QED
    BY <2>1, <2>2
<1> HIDE DEF c, B, n
<1>6. ASSUME NEW k \in 1..Len(old) PROVE old[k] \in Held(h) /\ Bucket(h, old[k]) = B
  <2>1. old[k] \in ToSet(old)
    BY <1>3 DEF ToSet
  <2> QED
    BY <1>3, <2>1
<1>7. IsChain(c, h, B)
  <2>1. \A k \in 1..Len(c) : Bucket(h, c[k]) = B
    BY <1>2, <1>5, <1>6
  <2>2. ASSUME NEW k \in 1..Len(c), NEW l \in 1..Len(c), c[k] = c[l] PROVE k = l
    <3>1. old[k] = old[l]
      BY <1>5, <1>6, <2>2
    <3> QED
      BY <1>3, <1>5, <3>1 DEF Distinct
  <2> QED
    BY <1>5, <2>1, <2>2 DEF IsChain
<1>8. /\ Shaped(g) /\ Chained(g)
      /\ g.mask = h.mask /\ g.n = n
      /\ Held(g) = HeldElsewhere(h, B) \cup ToSet(c)
  <2>1. n \in Nat
    BY <1>1 DEF n
  <2> QED
    BY <1>1, <1>2, <1>4, <1>7, <2>1, Rechained
<1>9. ToSet(c) = (ToSet(old) \ {x}) \cup {y}
  <2>1. ToSet(c) = {c[k] : k \in 1..Len(old)} /\ ToSet(old) = {old[k] : k \in 1..Len(old)}
    BY <1>3, <1>5 DEF ToSet
  <2>2. PICK i \in 1..Len(old) : old[i] = x
    BY <1>1, HeldInChain DEF old, B
  <2>3. y \in ToSet(c)
    BY <1>5, <2>1, <2>2
  <2>4. ToSet(c) \subseteq (ToSet(old) \ {x}) \cup {y}
    BY <1>5, <2>1
  <2>5. ToSet(old) \ {x} \subseteq ToSet(c)
    BY <1>5, <2>1
  <2> QED
    BY <2>3, <2>4, <2>5
<1>10. Held(g) = (Held(h) \ {x}) \cup {y}
  BY <1>3, <1>8, <1>9 DEF HeldElsewhere, B
<1>11. IsFiniteSet(Held(g)) /\ Cardinality(Held(g)) = n
  <2> DEFINE R == Held(h) \ {x}
  <2>1. IsFiniteSet(R) /\ Cardinality(R) = h.n - 1
    BY <1>1, FS_RemoveElement
  <2>2. y \notin R
    OBVIOUS
  <2> HIDE DEF R
  <2>3. IsFiniteSet(R \cup {y}) /\ Cardinality(R \cup {y}) = h.n - 1 + 1
    BY <2>1, <2>2, FS_AddElement
  <2> QED
    BY <1>1, <1>10, <2>3 DEF R, n
<1> QED
  BY <1>8, <1>10, <1>11 DEF Good, n

\* hmap_clear() empties the map.
LEMMA ClearGood ==
  ASSUME NEW h, Good(h)
  PROVE  /\ Good(hmap_clear(h)) /\ Held(hmap_clear(h)) = {}
         /\ hmap_clear(h).mask = h.mask /\ hmap_clear(h).n = 0
<1>1. /\ h.mask \in Masks /\ h.n \in Nat
      /\ IsFiniteSet(Held(h)) /\ h.n = Cardinality(Held(h))
      /\ h = [mask |-> h.mask, buckets |-> h.buckets, n |-> h.n]
  BY DEF Good, Shaped
<1>2. CASE h.n > 0
  <2>1. hmap_clear(h) = EmptyTable(h.mask)
    BY <1>1, <1>2 DEF hmap_clear, EmptyTable
  <2> QED
    BY <1>1, <2>1, EmptyGood
<1>3. CASE ~(h.n > 0)
  <2>1. h.n = 0 /\ hmap_clear(h) = h
    BY <1>1, <1>3 DEF hmap_clear
  <2>2. Held(h) = {}
    BY <1>1, <2>1, FS_EmptySet
  <2> QED
    BY <2>1, <2>2
<1> QED
  BY <1>2, <1>3

-----------------------------------------------------------------------------
(* Search by hash *)

ChainOf(h, hash) == h.buckets[hash % (h.mask + 1)]

\* r is the first node of that hash behind place i of its chain, or NULL.
IsNextHit(h, hash, i, r) ==
    \/ /\ r = NULL
       /\ \A j \in (i + 1)..Len(ChainOf(h, hash)) : Hash[ChainOf(h, hash)[j]] # hash
    \/ \E l \in (i + 1)..Len(ChainOf(h, hash)) :
          /\ ChainOf(h, hash)[l] = r /\ Hash[r] = hash
          /\ \A j \in (i + 1)..(l - 1) : Hash[ChainOf(h, hash)[j]] # hash

\* The nodes of a hash are in one chain, which is not longer than n.
LEMMA ChainOfHash ==
  ASSUME NEW h, Good(h), NEW hash \in Nat
  PROVE  /\ ChainOf(h, hash) \in Seq(Nodes) /\ Distinct(ChainOf(h, hash))
         /\ Len(ChainOf(h, hash)) \in Nat /\ Len(ChainOf(h, hash)) <= h.n /\ h.n \in Nat
         /\ \A l \in 1..Len(ChainOf(h, hash)) : ChainOf(h, hash)[l] \in Held(h)
         /\ \A y \in Held(h) : Hash[y] = hash =>
               \E l \in 1..Len(ChainOf(h, hash)) : ChainOf(h, hash)[l] = y
<1> DEFINE B == hash % (h.mask + 1)
           c == h.buckets[B]
<1>1. h.mask \in Nat /\ Shaped(h) /\ Chained(h) /\ h.n \in Nat
  BY DEF Good, Shaped, Masks
<1>2. B \in 0..h.mask
  <2>1. ASSUME NEW a \in Nat, NEW m \in Nat PROVE a % (m + 1) \in 0..m
    OBVIOUS
  <2> QED
    BY <1>1, <2>1
<1> HIDE DEF B
<1>3. c \in Seq(Nodes) /\ Distinct(c)
  BY <1>2, ChainAt
<1>4. \A l \in 1..Len(c) : c[l] \in Held(h)
  BY <1>1, <1>2, HeldInChain
<1>5. ASSUME NEW y \in Held(h), Hash[y] = hash
      PROVE  \E l \in 1..Len(c) : c[l] = y
  <2>1. Bucket(h, y) = B
    BY <1>5 DEF Bucket, B
  <2> QED
    BY <1>1, <2>1, HeldInChain
<1> HIDE DEF c
<1>6. Len(c) \in Nat /\ Len(c) <= h.n
  <2> DEFINE L == Len(c)
  <2>1. L \in Nat
    BY <1>3
  <2>2. IsFiniteSet(1..L) /\ Cardinality(1..L) = L
    <3> HIDE DEF L
    <3>1. L - 1 + 1 = L
      BY <2>1
    <3> QED
      BY <2>1, FS_Interval
  <2> DEFINE f == [l \in 1..L |-> c[l]]
  <2>3. f \in Injection(1..L, Held(h))
    BY <1>3, <1>4 DEF Injection, IsInjective, Distinct
  <2>4. IsFiniteSet(Held(h)) /\ Cardinality(Held(h)) = h.n
    BY DEF Good
  <2> HIDE DEF f, L
  <2>5. Cardinality(1..L) <= Cardinality(Held(h))
    BY <2>3, <2>4, FS_Injection DEF ExistsInjection
  <2> QED
    BY <2>1, <2>2, <2>4, <2>5 DEF L
<1>7. ChainOf(h, hash) = c
  BY DEF ChainOf, c, B
<1> QED
  BY <1>1, <1>3, <1>4, <1>5, <1>6, <1>7

\* The least place of a set of places, as SelectInSeq finds it.
LEMMA LeastPlace ==
  ASSUME NEW I \in SUBSET Nat, I # {}
  PROVE  Min(I) \in I /\ \A j \in I : ~(j < Min(I))
<1> DEFINE m == Min(I)
<1>1. m \in I /\ \A j \in I : m <= j
  BY MinExists
<1> HIDE DEF m
<1>2. m \in Nat /\ \A j \in I : j \in Nat
  BY <1>1
<1> QED
  BY <1>1, <1>2 DEF m

\* hmap_first_with_hash() starts at the head of the chain.
LEMMA FirstWithHash ==
  ASSUME NEW h, Good(h), NEW hash \in Nat
  PROVE  IsNextHit(h, hash, 0, hmap_first_with_hash(h, hash))
<1> DEFINE c == ChainOf(h, hash)
           I == {i \in 1..Len(c) : Hash[c[i]] = hash}
           r == hmap_first_with_hash(h, hash)
<1>1. c \in Seq(Nodes) /\ Len(c) \in Nat
  BY ChainOfHash
<1>2. r = LET k == IF I # {} THEN Min(I) ELSE 0 IN IF k = 0 THEN NULL ELSE c[k]
  BY DEF hmap_first_with_hash, SelectInSeq, ChainOf
<1> HIDE DEF c, r
<1>3. CASE I = {}
  BY <1>1, <1>2, <1>3 DEF IsNextHit, c, r
<1>4. CASE I # {}
  <2> DEFINE k == Min(I)
  <2>1. k \in I /\ \A j \in I : ~(j < k)
    <3>1. I \in SUBSET Nat
      OBVIOUS
    <3> HIDE DEF I
    <3> QED
      BY <1>4, <3>1, LeastPlace
  <2>2. r = IF k = 0 THEN NULL ELSE c[k]
    BY <1>2, <1>4
  <2> HIDE DEF k
  <2>3. k \in 1..Len(c) /\ Hash[c[k]] = hash /\ r = c[k]
    BY <1>1, <2>1, <2>2
  <2>4. \A j \in 1..(k - 1) : Hash[c[j]] # hash
    BY <1>1, <2>1, <2>3
  <2>5. 0 + 1 = 1
    OBVIOUS
  <2> QED
    BY <2>3, <2>4, <2>5 DEF IsNextHit, c, r
<1> QED
  BY <1>3, <1>4

\* hmap_next_with_hash() goes on behind the place of the node.
LEMMA NextWithHash ==
  ASSUME NEW h, Good(h), NEW hash \in Nat,
         NEW i \in 1..Len(ChainOf(h, hash)), Hash[ChainOf(h, hash)[i]] = hash
  PROVE  IsNextHit(h, hash, i, hmap_next_with_hash(h, ChainOf(h, hash)[i]))
<1> DEFINE c == ChainOf(h, hash)
           x == c[i]
           I == {j \in (i + 1)..Len(c) : Hash[c[j]] = hash}
           r == hmap_next_with_hash(h, x)
<1>1. c \in Seq(Nodes) /\ Len(c) \in Nat /\ Distinct(c)
  BY ChainOfHash
<1>2. h.buckets[Bucket(h, x)] = c
  BY DEF Bucket, ChainOf
<1> HIDE DEF c
<1>3. Position(c, x) = i
  BY <1>1, PositionIs DEF c
<1>4. r = LET l == IF I # {} THEN Min(I) ELSE 0 IN IF l = 0 THEN NULL ELSE c[l]
  <2>1. r = LET k == Position(c, x)
                l == SelectInSubSeq(c, k + 1, Len(c), LAMBDA y : Hash[y] = Hash[x])
            IN IF l = 0 THEN NULL ELSE c[l]
    BY <1>2 DEF hmap_next_with_hash, Position
  <2>2. Hash[x] = hash
    BY DEF c
  <2> HIDE DEF r, x
  <2> QED
    BY <1>3, <2>1, <2>2 DEF SelectInSubSeq
<1> HIDE DEF r, x
<1>5. CASE I = {}
  BY <1>1, <1>4, <1>5 DEF IsNextHit, c, r, x
<1>6. CASE I # {}
  <2> DEFINE k == Min(I)
  <2>1. k \in I /\ \A j \in I : ~(j < k)
    <3>1. I \in SUBSET Nat
      OBVIOUS
    <3> HIDE DEF I
    <3> QED
      BY <1>6, <3>1, LeastPlace
  <2>2. r = IF k = 0 THEN NULL ELSE c[k]
    BY <1>4, <1>6
  <2> HIDE DEF k
  <2>3. k \in (i + 1)..Len(c) /\ Hash[c[k]] = hash /\ r = c[k]
    <3>1. k # 0
      BY <1>1, <2>1 DEF c
    <3> QED
      BY <2>1, <2>2, <3>1
  <2>4. \A j \in (i + 1)..(k - 1) : Hash[c[j]] # hash
    <3> SUFFICES ASSUME NEW j \in (i + 1)..(k - 1), Hash[c[j]] = hash PROVE FALSE
      OBVIOUS
    <3>1. i \in Nat /\ j < k /\ j \in (i + 1)..Len(c)
      BY <1>1, <2>3 DEF c
    <3> QED
      BY <2>1, <3>1
  <2> QED
    BY <2>3, <2>4 DEF IsNextHit, c, r, x
<1> QED
  BY <1>5, <1>6

\* A search for the nodes W of one hash: it steps through the nodes of this hash until
\* it is at one of W or at the end.
IsSearch(f, h, hash, W) ==
    /\ f[0] = hmap_first_with_hash(h, hash)
    /\ \A k \in 1..h.n :
          /\ f[k - 1] \in W \cup {NULL} => f[k] = f[k - 1]
          /\ f[k - 1] \in Held(h) \ W => f[k] = hmap_next_with_hash(h, f[k - 1])

\* After k steps the search is behind place k, unless it has ended.
Searching(h, hash, W, k, r) ==
    \/ r \in W \cap Held(h)
    \/ r = NULL /\ W \cap Held(h) = {}
    \/ \E i \in (k + 1)..Len(ChainOf(h, hash)) :
          /\ r = ChainOf(h, hash)[i] /\ Hash[r] = hash
          /\ \A j \in 1..(i - 1) : ChainOf(h, hash)[j] \notin W

\* A hit leaves the search going on, or ends it.
LEMMA HitSearching ==
  ASSUME NEW h, Good(h), NEW hash \in Nat,
         NEW W \in SUBSET Nodes, \A x \in W : Hash[x] = hash,
         NEW i \in Nat, \A j \in 1..i : ChainOf(h, hash)[j] \notin W,
         NEW k \in Nat, k <= i, NEW r, IsNextHit(h, hash, i, r)
  PROVE  Searching(h, hash, W, k, r)
<1> DEFINE c == ChainOf(h, hash)
<1>1. /\ c \in Seq(Nodes) /\ Len(c) \in Nat
      /\ \A y \in Held(h) : Hash[y] = hash => \E l \in 1..Len(c) : c[l] = y
  BY ChainOfHash
<1> HIDE DEF c
<1>2. CASE r = NULL /\ \A j \in (i + 1)..Len(c) : Hash[c[j]] # hash
  <2>1. ASSUME NEW y \in W \cap Held(h) PROVE FALSE
    <3>1. PICK l \in 1..Len(c) : c[l] = y
      BY <1>1
    <3>2. l \in 1..i \/ l \in (i + 1)..Len(c)
      BY <1>1
    <3> QED
      BY <1>2, <3>1, <3>2 DEF c
  <2> QED
    BY <1>2, <2>1 DEF Searching
<1>3. CASE \E l \in (i + 1)..Len(c) : c[l] = r /\ Hash[r] = hash
                                       /\ \A j \in (i + 1)..(l - 1) : Hash[c[j]] # hash
  <2>1. PICK l \in (i + 1)..Len(c) : /\ c[l] = r /\ Hash[r] = hash
                                     /\ \A j \in (i + 1)..(l - 1) : Hash[c[j]] # hash
    BY <1>3
  <2>2. l \in (k + 1)..Len(c)
    BY <1>1
  <2>3. \A j \in 1..(l - 1) : c[j] \notin W
    <3> SUFFICES ASSUME NEW j \in 1..(l - 1) PROVE c[j] \notin W
      OBVIOUS
    <3>1. j \in 1..i \/ j \in (i + 1)..(l - 1)
      OBVIOUS
    <3> QED
      BY <2>1, <3>1 DEF c
  <2> QED
    BY <2>1, <2>2, <2>3 DEF Searching, c
<1> QED
  BY <1>2, <1>3 DEF IsNextHit, c

\* A step of the search.
LEMMA SearchStep ==
  ASSUME NEW h, Good(h), NEW hash \in Nat,
         NEW W \in SUBSET Nodes, \A x \in W : Hash[x] = hash,
         NEW k \in Nat, NEW r, Searching(h, hash, W, k, r), NEW s,
         r \in W \cup {NULL} => s = r,
         r \in Held(h) \ W => s = hmap_next_with_hash(h, r)
  PROVE  Searching(h, hash, W, k + 1, s)
<1> DEFINE c == ChainOf(h, hash)
<1>1. /\ c \in Seq(Nodes) /\ Len(c) \in Nat
      /\ \A l \in 1..Len(c) : c[l] \in Held(h)
  BY ChainOfHash
<1>2. CASE r \in W \cap Held(h) \/ (r = NULL /\ W \cap Held(h) = {})
  BY <1>2 DEF Searching
<1>3. CASE /\ ~(r \in W \cap Held(h))
           /\ \E i \in (k + 1)..Len(c) : /\ r = c[i] /\ Hash[r] = hash
                                         /\ \A j \in 1..(i - 1) : c[j] \notin W
  <2>1. PICK i \in (k + 1)..Len(c) : /\ r = c[i] /\ Hash[r] = hash
                                     /\ \A j \in 1..(i - 1) : c[j] \notin W
    BY <1>3
  <2>2. i \in 1..Len(c) /\ i \in Nat /\ k + 1 <= i /\ k + 1 \in Nat
    BY <1>1
  <2>3. r \in Held(h) \ W
    BY <1>1, <1>3, <2>1, <2>2
  <2>4. IsNextHit(h, hash, i, s)
    BY <2>1, <2>2, <2>3, NextWithHash
  <2>5. \A j \in 1..i : c[j] \notin W
    <3> SUFFICES ASSUME NEW j \in 1..i PROVE c[j] \notin W
      OBVIOUS
    <3>1. j = i \/ j \in 1..(i - 1)
      OBVIOUS
    <3> QED
      BY <2>1, <2>3, <3>1
  <2> QED
    BY <2>2, <2>4, <2>5, HitSearching
<1> QED
  BY <1>2, <1>3 DEF Searching

\* A search finds one of W, if the map holds one.
LEMMA SearchFinds ==
  ASSUME NEW h, Good(h), NEW hash \in Nat,
         NEW W \in SUBSET Nodes, \A x \in W : Hash[x] = hash,
         NEW f, IsSearch(f, h, hash, W)
  PROVE  /\ \A k \in 0..h.n : f[k] \in Held(h) \cup {NULL}
         /\ f[h.n] \in W \cap Held(h) \/ (f[h.n] = NULL /\ W \cap Held(h) = {})
<1> DEFINE c == ChainOf(h, hash)
           N == h.n
           S == {k \in Nat : k <= N => Searching(h, hash, W, k, f[k])}
<1>1. /\ c \in Seq(Nodes) /\ Len(c) \in Nat /\ Len(c) <= N /\ N \in Nat
      /\ \A l \in 1..Len(c) : c[l] \in Held(h)
  BY ChainOfHash
<1>2. 0 \in S
  <2>1. IsNextHit(h, hash, 0, f[0])
    BY FirstWithHash DEF IsSearch
  <2>2. Searching(h, hash, W, 0, f[0])
    BY <2>1, HitSearching
  <2> QED
    BY <2>2
<1>3. ASSUME NEW k \in Nat, k \in S PROVE k + 1 \in S
  <2> SUFFICES ASSUME k + 1 <= N PROVE Searching(h, hash, W, k + 1, f[k + 1])
    OBVIOUS
  <2>1. k + 1 \in 1..h.n /\ (k + 1) - 1 = k /\ k <= N
    BY <1>1
  <2>2. Searching(h, hash, W, k, f[k])
    BY <1>3, <2>1
  <2>3. /\ f[k] \in W \cup {NULL} => f[k + 1] = f[k]
        /\ f[k] \in Held(h) \ W => f[k + 1] = hmap_next_with_hash(h, f[k])
    BY <2>1 DEF IsSearch
  <2> QED
    BY <2>2, <2>3, SearchStep
<1>4. ASSUME NEW k \in 0..N PROVE Searching(h, hash, W, k, f[k])
  <2>1. k \in Nat /\ k <= N
    BY <1>1
  <2>2. k \in S
    <3> HIDE DEF S
    <3> QED
      BY <1>2, <1>3, <2>1, SetInduction
  <2> QED
    BY <2>1, <2>2
<1>5. ASSUME NEW k \in 0..N PROVE f[k] \in Held(h) \cup {NULL}
  <2>1. \A i \in (k + 1)..Len(c) : i \in 1..Len(c)
    BY <1>1
  <2> QED
    BY <1>1, <1>4, <2>1 DEF Searching
<1>6. f[N] \in W \cap Held(h) \/ (f[N] = NULL /\ W \cap Held(h) = {})
  <2>1. (N + 1)..Len(c) = {}
    BY <1>1
  <2>2. N \in 0..N
    BY <1>1
  <2> QED
    BY <1>4, <2>1, <2>2 DEF Searching
<1> QED
  BY <1>5, <1>6

\* What follows a hit is a node of the map or NULL.
LEMMA HitHeld ==
  ASSUME NEW h, Good(h), NEW hash \in Nat, NEW i \in Nat, NEW r, IsNextHit(h, hash, i, r)
  PROVE  r \in Held(h) \cup {NULL}
<1> DEFINE c == ChainOf(h, hash)
<1>1. Len(c) \in Nat /\ \A l \in 1..Len(c) : c[l] \in Held(h)
  BY ChainOfHash
<1>2. \A l \in (i + 1)..Len(c) : l \in 1..Len(c)
  BY <1>1
<1> QED
  BY <1>1, <1>2 DEF IsNextHit

\* There is such a search.
LEMMA SearchExists ==
  ASSUME NEW h, Good(h), NEW hash \in Nat, NEW W \in SUBSET Nodes
  PROVE  \E f \in [0..h.n -> Held(h) \cup {NULL}] : IsSearch(f, h, hash, W)
<1> DEFINE N == h.n
           V == Held(h) \cup {NULL}
           base == hmap_first_with_hash(h, hash)
           step == [k \in 1..N |->
                     [r \in V |-> IF r \in W \cup {NULL} THEN r
                                  ELSE hmap_next_with_hash(h, r)]]
<1>1. base \in V
  BY FirstWithHash, HitHeld
<1>2. ASSUME NEW r \in Held(h) PROVE hmap_next_with_hash(h, r) \in V
  <2> DEFINE own == Hash[r]
  <2>1. r \in Nodes /\ own \in Nat
    BY HmapAssumption DEF Held
  <2>2. PICK i \in 1..Len(ChainOf(h, own)) : ChainOf(h, own)[i] = r
    BY <2>1, ChainOfHash
  <2>3. IsNextHit(h, own, i, hmap_next_with_hash(h, r)) /\ i \in Nat
    <3> HIDE DEF own
    <3>1. Hash[ChainOf(h, own)[i]] = own
      BY <2>2 DEF own
    <3>2. IsNextHit(h, own, i, hmap_next_with_hash(h, ChainOf(h, own)[i]))
      BY <2>1, <3>1, NextWithHash
    <3> QED
      BY <2>2, <3>2
  <2> HIDE DEF own
  <2> QED
    BY <2>1, <2>3, HitHeld
<1>3. step \in [1..N -> [V -> V]]
  <2>1. \A r \in V : (IF r \in W \cup {NULL} THEN r ELSE hmap_next_with_hash(h, r)) \in V
    BY <1>2
  <2> HIDE DEF V
  <2> QED
    BY <2>1
<1>4. N \in Nat
  BY DEF Good, Shaped
<1>5. PICK f \in [0..N -> V] : IsRun(f, N, base, step)
  <2> HIDE DEF N, V, base, step
  <2> QED
    BY <1>1, <1>3, <1>4, Iteration
<1>6. f[0] = base /\ \A k \in 1..N : f[k] = step[k][f[k - 1]]
  BY <1>5 DEF IsRun
<1>7. ASSUME NEW k \in 1..N
      PROVE  /\ f[k - 1] \in W \cup {NULL} => f[k] = f[k - 1]
             /\ f[k - 1] \in Held(h) \ W => f[k] = hmap_next_with_hash(h, f[k - 1])
  <2>1. k - 1 \in 0..N
    BY <1>4
  <2>2. f[k - 1] \in V
    BY <2>1
  <2>3. f[k] = IF f[k - 1] \in W \cup {NULL} THEN f[k - 1]
               ELSE hmap_next_with_hash(h, f[k - 1])
    BY <1>6, <2>2
  <2>4. NULL \notin Held(h)
    BY HmapAssumption DEF Held
  <2> QED
    BY <2>3, <2>4
<1>8. IsSearch(f, h, hash, W)
  BY <1>6, <1>7 DEF IsSearch
<1> QED
  BY <1>8

\* The equation of such a loop.
SearchEquation(f, h, hash, W) ==
    f = [k \in 0..h.n |->
            IF k = 0 THEN hmap_first_with_hash(h, hash)
            ELSE IF f[k - 1] \in W \cup {NULL} THEN f[k - 1]
            ELSE hmap_next_with_hash(h, f[k - 1])]

\* It has a solution, and what solves it finds one of W, if the map holds one.
LEMMA SearchSolved ==
  ASSUME NEW h, Good(h), NEW hash \in Nat,
         NEW W \in SUBSET Nodes, \A x \in W : Hash[x] = hash
  PROVE  /\ \E f : SearchEquation(f, h, hash, W)
         /\ \A f : SearchEquation(f, h, hash, W) =>
               f[h.n] \in W \cap Held(h) \/ (f[h.n] = NULL /\ W \cap Held(h) = {})
<1> DEFINE N == h.n
           V == Held(h) \cup {NULL}
           body(f, k) == IF k = 0 THEN hmap_first_with_hash(h, hash)
                         ELSE IF f[k - 1] \in W \cup {NULL} THEN f[k - 1]
                         ELSE hmap_next_with_hash(h, f[k - 1])
<1>1. N \in Nat /\ NULL \notin Held(h)
  BY HmapAssumption DEF Good, Shaped, Held
<1>2. \E f : SearchEquation(f, h, hash, W)
  <2>1. PICK f \in [0..N -> V] : IsSearch(f, h, hash, W)
    BY SearchExists
  <2>2. ASSUME NEW k \in 0..N PROVE f[k] = body(f, k)
    <3>1. CASE k = 0
      BY <2>1, <3>1 DEF IsSearch
    <3>2. CASE k # 0
      <4>1. k \in 1..h.n /\ k - 1 \in 0..N
        BY <1>1, <3>2
      <4>2. f[k - 1] \in V
        BY <4>1
      <4> QED
        BY <2>1, <3>2, <4>1, <4>2 DEF IsSearch
    <3> QED
      BY <3>1, <3>2
  <2>3. f = [k \in 0..N |-> body(f, k)]
    <3> HIDE DEF N, V, body
    <3> QED
      BY <2>2
  <2> QED
    BY <2>3 DEF SearchEquation
<1>3. ASSUME NEW f, SearchEquation(f, h, hash, W)
      PROVE  f[h.n] \in W \cap Held(h) \/ (f[h.n] = NULL /\ W \cap Held(h) = {})
  <2>1. f = [k \in 0..N |-> body(f, k)]
    BY <1>3 DEF SearchEquation
  <2>2. \A k \in 0..N : f[k] = body(f, k)
    <3> HIDE DEF N, body
    <3> QED
      BY <2>1
  <2>3. 0 \in 0..N /\ \A k \in 1..N : k \in 0..N /\ k # 0
    BY <1>1
  <2>4. f[0] = hmap_first_with_hash(h, hash)
    BY <2>2, <2>3
  <2>5. ASSUME NEW k \in 1..N
        PROVE  /\ f[k - 1] \in W \cup {NULL} => f[k] = f[k - 1]
               /\ f[k - 1] \in Held(h) \ W => f[k] = hmap_next_with_hash(h, f[k - 1])
    <3>1. f[k] = IF f[k - 1] \in W \cup {NULL} THEN f[k - 1]
                 ELSE hmap_next_with_hash(h, f[k - 1])
      BY <2>2, <2>3
    <3> QED
      BY <1>1, <3>1
  <2>6. IsSearch(f, h, hash, W)
    BY <2>4, <2>5 DEF IsSearch
  <2> QED
    BY <2>6, SearchFinds
<1> QED
  BY <1>2, <1>3

-----------------------------------------------------------------------------
(* Loops over the nodes of a map *)

\* The good maps, as a set.
Maps ==
    {h \in [mask : Nat, buckets : UNION {[0..m -> Seq(Nodes)] : m \in Nat}, n : Nat] : Good(h)}

\* Every good map is one of them.
LEMMA MapsAreGood ==
  ASSUME NEW h
  PROVE  h \in Maps <=> Good(h)
<1> SUFFICES ASSUME Good(h) PROVE h \in Maps
  BY DEF Maps
<1>1. /\ h = [mask |-> h.mask, buckets |-> h.buckets, n |-> h.n]
      /\ h.mask \in Nat /\ h.buckets \in [0..h.mask -> Seq(Nodes)] /\ h.n \in Nat
  BY DEF Good, Shaped, Masks
<1> DEFINE B == UNION {[0..m -> Seq(Nodes)] : m \in Nat}
<1>2. h.buckets \in B
  BY <1>1
<1> HIDE DEF B
<1>3. h \in [mask : Nat, buckets : B, n : Nat]
  BY <1>1, <1>2
<1> QED
  BY <1>3 DEF Maps, B

\* The map of a program before anything is in it.
LEMMA InitializerGood ==
  Good(HMAP_INITIALIZER) /\ Held(HMAP_INITIALIZER) = {} /\ HMAP_INITIALIZER.n = 0
<1>1. 0 \in Masks
  <2>1. 0 \in 0..0 /\ 0 = LowBits[0]
    BY LowBitsFacts
  <2> QED
    BY <2>1 DEF Masks
<1>2. HMAP_INITIALIZER = EmptyTable(0)
  BY DEF HMAP_INITIALIZER, EmptyTable
<1> QED
  BY <1>1, <1>2, EmptyGood

\* g[k] is a new map after the first k nodes have been inserted.
IsFilling(g, nodes) ==
    /\ g[0] = HMAP_INITIALIZER
    /\ \A k \in 1..Len(nodes) :
          nodes[k] \notin Held(g[k - 1]) => g[k] = hmap_insert(g[k - 1], nodes[k])

\* g[k] is map h after those of the first k nodes that are in W have been removed.
IsEmptying(g, h, nodes, W) ==
    /\ g[0] = h
    /\ \A k \in 1..Len(nodes) :
          /\ nodes[k] \in W /\ nodes[k] \in Held(g[k - 1]) =>
                g[k] = hmap_remove(g[k - 1], nodes[k])
          /\ nodes[k] \notin W => g[k] = g[k - 1]

\* The first k elements of a sequence.
Upto(s, k) == {s[i] : i \in 1..k}

\* One more element.
LEMMA OneMore ==
  ASSUME NEW S, NEW s \in Seq(S), IsInjective(s), NEW k \in Nat, k + 1 <= Len(s)
  PROVE  /\ k + 1 \in 1..Len(s) /\ (k + 1) - 1 = k /\ k <= Len(s) /\ s[k + 1] \in S
         /\ Upto(s, k + 1) = Upto(s, k) \cup {s[k + 1]} /\ s[k + 1] \notin Upto(s, k)
<1>1. k + 1 \in 1..Len(s) /\ (k + 1) - 1 = k /\ k <= Len(s) /\ s[k + 1] \in S
  OBVIOUS
<1>2. {s[i] : i \in 1..(k + 1)} = {s[i] : i \in 1..k} \cup {s[k + 1]}
  <2>1. 1..(k + 1) = 1..k \cup {k + 1}
    OBVIOUS
  <2> QED
    BY <2>1
<1>3. ASSUME NEW i \in 1..k, s[i] = s[k + 1] PROVE FALSE
  <2>1. i \in DOMAIN s /\ k + 1 \in DOMAIN s /\ i # k + 1
    BY <1>1
  <2> QED
    BY <1>3, <2>1 DEF IsInjective
<1> QED
  BY <1>1, <1>2, <1>3 DEF Upto

\* Insertion, one by one, of different nodes.
LEMMA FillingGood ==
  ASSUME NEW nodes \in Seq(Nodes), IsInjective(nodes), NEW g, IsFilling(g, nodes),
         NEW k \in 0..Len(nodes)
  PROVE  Good(g[k]) /\ Held(g[k]) = Upto(nodes, k)
<1> DEFINE L == Len(nodes)
           Full(j) == Good(g[j]) /\ Held(g[j]) = Upto(nodes, j)
           S == {j \in Nat : j <= L => Full(j)}
<1>1. L \in Nat
  OBVIOUS
<1>2. 0 \in S
  <2>1. Upto(nodes, 0) = {}
    BY DEF Upto
  <2> QED
    BY <2>1, InitializerGood DEF IsFilling
<1>3. ASSUME NEW j \in Nat, j \in S PROVE j + 1 \in S
  <2> SUFFICES ASSUME j + 1 <= L PROVE Full(j + 1)
    OBVIOUS
  <2> DEFINE x == nodes[j + 1]
             done == Upto(nodes, j)
  <2>1. /\ j + 1 \in 1..L /\ (j + 1) - 1 = j /\ j <= L /\ x \in Nodes
        /\ Upto(nodes, j + 1) = done \cup {x} /\ x \notin done
    BY OneMore
  <2>2. Good(g[j]) /\ Held(g[j]) = done
    BY <1>3, <2>1
  <2>3. g[j + 1] = hmap_insert(g[j], x)
    BY <2>1, <2>2 DEF IsFilling
  <2> HIDE DEF x, done
  <2>4. Good(g[j + 1]) /\ Held(g[j + 1]) = done \cup {x}
    BY <2>1, <2>2, <2>3, InsertGood
  <2> QED
    BY <2>1, <2>4
<1>4. k \in Nat /\ k <= L
  BY <1>1
<1>5. k \in S
  <2> HIDE DEF S
  <2> QED
    BY <1>2, <1>3, <1>4, SetInduction
<1> QED
  BY <1>4, <1>5

\* There is such a loop.
LEMMA FillingExists ==
  ASSUME NEW nodes \in Seq(Nodes)
  PROVE  \E g \in [0..Len(nodes) -> Maps] : IsFilling(g, nodes)
<1> DEFINE L == Len(nodes)
           step == [k \in 1..L |-> [h \in Maps |->
                       IF nodes[k] \in Held(h) THEN h ELSE hmap_insert(h, nodes[k])]]
           base == HMAP_INITIALIZER
<1>1. L \in Nat /\ base \in Maps
  BY InitializerGood, MapsAreGood
<1>2. step \in [1..L -> [Maps -> Maps]]
  <2> SUFFICES ASSUME NEW k \in 1..L, NEW h \in Maps
               PROVE  (IF nodes[k] \in Held(h) THEN h ELSE hmap_insert(h, nodes[k])) \in Maps
    OBVIOUS
  <2>1. nodes[k] \in Nodes /\ Good(h)
    BY MapsAreGood
  <2> QED
    BY <2>1, InsertGood, MapsAreGood
<1>3. PICK g \in [0..L -> Maps] : IsRun(g, L, base, step)
  <2> HIDE DEF L, base, step
  <2> QED
    BY <1>1, <1>2, Iteration
<1>4. g[0] = base /\ \A k \in 1..L : g[k] = step[k][g[k - 1]]
  BY <1>3 DEF IsRun
<1>5. ASSUME NEW k \in 1..L, nodes[k] \notin Held(g[k - 1])
      PROVE  g[k] = hmap_insert(g[k - 1], nodes[k])
  <2>1. k - 1 \in 0..L
    BY <1>1
  <2>2. g[k - 1] \in Maps
    BY <2>1
  <2> QED
    BY <1>4, <1>5, <2>2
<1> QED
  BY <1>4, <1>5 DEF IsFilling

\* The equation of such a loop.
FillingEquation(g, nodes) ==
    g = [k \in 0..Len(nodes) |->
            IF k = 0 THEN HMAP_INITIALIZER ELSE hmap_insert(g[k - 1], nodes[k])]

\* It has a solution, and in the end what solves it holds the nodes.
LEMMA FillingSolved ==
  ASSUME NEW nodes \in Seq(Nodes), IsInjective(nodes)
  PROVE  /\ \E g : FillingEquation(g, nodes)
         /\ \A g : FillingEquation(g, nodes) =>
               Good(g[Len(nodes)]) /\ Held(g[Len(nodes)]) = ToSet(nodes)
<1> DEFINE L == Len(nodes)
           body(g, k) == IF k = 0 THEN HMAP_INITIALIZER ELSE hmap_insert(g[k - 1], nodes[k])
<1>1. L \in Nat
  OBVIOUS
<1>2. \E g : FillingEquation(g, nodes)
  <2>1. PICK g \in [0..L -> Maps] : IsFilling(g, nodes)
    BY FillingExists
  <2>2. ASSUME NEW k \in 0..L PROVE g[k] = body(g, k)
    <3>1. CASE k = 0
      BY <2>1, <3>1 DEF IsFilling
    <3>2. CASE k # 0
      <4>1. k \in 1..Len(nodes) /\ k - 1 \in 0..L /\ k - 1 \in Nat /\ (k - 1) + 1 = k
        BY <1>1, <3>2
      <4>2. Held(g[k - 1]) = Upto(nodes, k - 1)
        BY <2>1, <4>1, FillingGood
      <4>3. nodes[(k - 1) + 1] \notin Upto(nodes, k - 1)
        BY <4>1, OneMore
      <4> QED
        BY <2>1, <3>2, <4>1, <4>2, <4>3 DEF IsFilling
    <3> QED
      BY <3>1, <3>2
  <2>3. g = [k \in 0..L |-> body(g, k)]
    <3> HIDE DEF L, body
    <3> QED
      BY <2>2
  <2> QED
    BY <2>3 DEF FillingEquation
<1>3. ASSUME NEW g, FillingEquation(g, nodes)
      PROVE  Good(g[L]) /\ Held(g[L]) = ToSet(nodes)
  <2>1. g = [k \in 0..L |-> body(g, k)]
    BY <1>3 DEF FillingEquation
  <2>2. \A k \in 0..L : g[k] = body(g, k)
    <3> HIDE DEF L, body
    <3> QED
      BY <2>1
  <2>3. 0 \in 0..L /\ \A k \in 1..L : k \in 0..L /\ k # 0
    BY <1>1
  <2>4. IsFilling(g, nodes)
    BY <2>2, <2>3 DEF IsFilling
  <2>5. L \in 0..Len(nodes)
    BY <1>1
  <2>6. Good(g[L]) /\ Held(g[L]) = Upto(nodes, L)
    BY <2>4, <2>5, FillingGood
  <2>7. Upto(nodes, L) = ToSet(nodes)
    BY DEF Upto, ToSet
  <2> QED
    BY <2>6, <2>7
<1> QED
  BY <1>2, <1>3

\* Removal, one by one, of nodes the map holds.
LEMMA EmptyingGood ==
  ASSUME NEW h, Good(h),
         NEW nodes \in Seq(Nodes), IsInjective(nodes), ToSet(nodes) = Held(h),
         NEW W, NEW g, IsEmptying(g, h, nodes, W), NEW k \in 0..Len(nodes)
  PROVE  Good(g[k]) /\ Held(g[k]) = Held(h) \ (Upto(nodes, k) \cap W)
<1> DEFINE L == Len(nodes)
           Gone(j) == Upto(nodes, j) \cap W
           Emptied(j) == Good(g[j]) /\ Held(g[j]) = Held(h) \ Gone(j)
           S == {j \in Nat : j <= L => Emptied(j)}
<1>1. L \in Nat
  OBVIOUS
<1>2. 0 \in S
  <2>1. Upto(nodes, 0) = {}
    BY DEF Upto
  <2> QED
    BY <2>1 DEF IsEmptying
<1>3. ASSUME NEW j \in Nat, j \in S PROVE j + 1 \in S
  <2> SUFFICES ASSUME j + 1 <= L PROVE Emptied(j + 1)
    OBVIOUS
  <2> DEFINE x == nodes[j + 1]
             done == Upto(nodes, j)
  <2>1. /\ j + 1 \in 1..L /\ (j + 1) - 1 = j /\ j <= L
        /\ Upto(nodes, j + 1) = done \cup {x} /\ x \notin done
    BY OneMore
  <2>2. Good(g[j]) /\ Held(g[j]) = Held(h) \ (done \cap W)
    BY <1>3, <2>1
  <2>3. x \in Held(h)
    <3>1. j + 1 \in DOMAIN nodes
      BY <2>1
    <3> QED
      BY <3>1 DEF ToSet
  <2>4. /\ x \in W /\ x \in Held(g[j]) => g[j + 1] = hmap_remove(g[j], x)
        /\ x \notin W => g[j + 1] = g[j]
    BY <2>1 DEF IsEmptying
  <2> HIDE DEF x, done
  <2>5. CASE x \in W
    <3>1. x \in Held(g[j])
      BY <2>1, <2>2, <2>3
    <3>2. Good(g[j + 1]) /\ Held(g[j + 1]) = Held(g[j]) \ {x}
      BY <2>2, <2>4, <2>5, <3>1, RemoveGood
    <3> QED
      BY <2>1, <2>2, <2>5, <3>2
  <2>6. CASE x \notin W
    BY <2>1, <2>2, <2>4, <2>6
  <2> QED
    BY <2>5, <2>6
<1>4. k \in Nat /\ k <= L
  BY <1>1
<1>5. k \in S
  <2> HIDE DEF S
  <2> QED
    BY <1>2, <1>3, <1>4, SetInduction
<1> QED
  BY <1>4, <1>5

\* There is such a loop.
LEMMA EmptyingExists ==
  ASSUME NEW h, Good(h), NEW nodes \in Seq(Nodes), NEW W
  PROVE  \E g \in [0..Len(nodes) -> Maps] : IsEmptying(g, h, nodes, W)
<1> DEFINE L == Len(nodes)
           step == [k \in 1..L |-> [m \in Maps |->
                       IF nodes[k] \in Held(m) \cap W THEN hmap_remove(m, nodes[k]) ELSE m]]
<1>1. L \in Nat /\ h \in Maps
  BY MapsAreGood
<1>2. step \in [1..L -> [Maps -> Maps]]
  <2> SUFFICES ASSUME NEW k \in 1..L, NEW m \in Maps
               PROVE  (IF nodes[k] \in Held(m) \cap W THEN hmap_remove(m, nodes[k]) ELSE m)
                         \in Maps
    OBVIOUS
  <2>1. Good(m)
    BY MapsAreGood
  <2> QED
    BY <2>1, RemoveGood, MapsAreGood
<1>3. PICK g \in [0..L -> Maps] : IsRun(g, L, h, step)
  <2> HIDE DEF L, step
  <2> QED
    BY <1>1, <1>2, Iteration
<1>4. g[0] = h /\ \A k \in 1..L : g[k] = step[k][g[k - 1]]
  BY <1>3 DEF IsRun
<1>5. ASSUME NEW k \in 1..L
      PROVE  /\ nodes[k] \in W /\ nodes[k] \in Held(g[k - 1]) =>
                   g[k] = hmap_remove(g[k - 1], nodes[k])
             /\ nodes[k] \notin W => g[k] = g[k - 1]
  <2>1. k - 1 \in 0..L
    BY <1>1
  <2>2. g[k - 1] \in Maps
    BY <2>1
  <2> QED
    BY <1>4, <2>2
<1> QED
  BY <1>4, <1>5 DEF IsEmptying

\* The equation of such a loop.
EmptyingEquation(g, h, nodes, W) ==
    g = [k \in 0..Len(nodes) |->
            IF k = 0 THEN h
            ELSE IF nodes[k] \in W THEN hmap_remove(g[k - 1], nodes[k])
            ELSE g[k - 1]]

\* It has a solution, and in the end what solves it holds the nodes that are not in W.
LEMMA EmptyingSolved ==
  ASSUME NEW h, Good(h),
         NEW nodes \in Seq(Nodes), IsInjective(nodes), ToSet(nodes) = Held(h),
         NEW W
  PROVE  /\ \E g : EmptyingEquation(g, h, nodes, W)
         /\ \A g : EmptyingEquation(g, h, nodes, W) =>
               Good(g[Len(nodes)]) /\ Held(g[Len(nodes)]) = Held(h) \ W
<1> DEFINE L == Len(nodes)
           body(g, k) == IF k = 0 THEN h
                         ELSE IF nodes[k] \in W THEN hmap_remove(g[k - 1], nodes[k])
                         ELSE g[k - 1]
<1>1. L \in Nat
  OBVIOUS
<1>2. \E g : EmptyingEquation(g, h, nodes, W)
  <2>1. PICK g \in [0..L -> Maps] : IsEmptying(g, h, nodes, W)
    BY EmptyingExists
  <2>2. ASSUME NEW k \in 0..L PROVE g[k] = body(g, k)
    <3>1. CASE k = 0
      BY <2>1, <3>1 DEF IsEmptying
    <3>2. CASE k # 0
      <4>1. k \in 1..Len(nodes) /\ k - 1 \in 0..L /\ k - 1 \in Nat /\ (k - 1) + 1 = k
        BY <1>1, <3>2
      <4>2. Held(g[k - 1]) = Held(h) \ (Upto(nodes, k - 1) \cap W)
        BY <2>1, <4>1, EmptyingGood
      <4>3. nodes[(k - 1) + 1] \notin Upto(nodes, k - 1)
        BY <4>1, OneMore
      <4>4. nodes[k] \in Held(h)
        <5>1. k \in DOMAIN nodes
          BY <4>1
        <5> QED
          BY <5>1 DEF ToSet
      <4>5. nodes[k] \in Held(g[k - 1])
        BY <4>1, <4>2, <4>3, <4>4
      <4> QED
        BY <2>1, <3>2, <4>1, <4>5 DEF IsEmptying
    <3> QED
      BY <3>1, <3>2
  <2>3. g = [k \in 0..L |-> body(g, k)]
    <3> HIDE DEF L, body
    <3> QED
      BY <2>2
  <2> QED
    BY <2>3 DEF EmptyingEquation
<1>3. ASSUME NEW g, EmptyingEquation(g, h, nodes, W)
      PROVE  Good(g[L]) /\ Held(g[L]) = Held(h) \ W
  <2>1. g = [k \in 0..L |-> body(g, k)]
    BY <1>3 DEF EmptyingEquation
  <2>2. \A k \in 0..L : g[k] = body(g, k)
    <3> HIDE DEF L, body
    <3> QED
      BY <2>1
  <2>3. 0 \in 0..L /\ \A k \in 1..L : k \in 0..L /\ k # 0
    BY <1>1
  <2>4. IsEmptying(g, h, nodes, W)
    BY <2>2, <2>3 DEF IsEmptying
  <2>5. L \in 0..Len(nodes)
    BY <1>1
  <2>6. Good(g[L]) /\ Held(g[L]) = Held(h) \ (Upto(nodes, L) \cap W)
    BY <2>4, <2>5, EmptyingGood
  <2>7. Upto(nodes, L) = ToSet(nodes)
    BY DEF Upto, ToSet
  <2> QED
    BY <2>6, <2>7
<1> QED
  BY <1>2, <1>3

-----------------------------------------------------------------------------
(* The order in which a walk meets the nodes *)

\* The nodes from bucket b on.
From(h, b) == {y \in Held(h) : b <= Bucket(h, y)}

\* The nodes that hmap_next() delivers after x.
Behind(h, x) ==
    {y \in Held(h) :
        \/ Bucket(h, x) < Bucket(h, y)
        \/ Bucket(h, x) = Bucket(h, y) /\ Precedes(h.buckets[Bucket(h, x)], x, y)}

\* n is the first of the nodes in S, and the others are behind it.
Leads(h, n, S) ==
    \/ n = NULL /\ S = {}
    \/ n \in Held(h) /\ n \notin Behind(h, n) /\ S = {n} \cup Behind(h, n)

\* No node comes after itself.
LEMMA NotBehindItself ==
  ASSUME NEW h, Good(h), NEW x \in Held(h)
  PROVE  x \notin Behind(h, x)
<1> DEFINE c == h.buckets[Bucket(h, x)]
<1>1. h.mask \in Nat /\ x \in Nodes
  BY DEF Good, Shaped, Masks, Held
<1>2. Bucket(h, x) \in 0..h.mask
  BY <1>1, BucketRange
<1>3. c \in Seq(Nodes) /\ Distinct(c)
  BY <1>2, ChainAt
<1> HIDE DEF c
<1>4. ~Precedes(c, x, x)
  <2> SUFFICES ASSUME NEW k \in 1..Len(c), NEW l \in 1..Len(c), c[k] = x, c[l] = x, k < l
               PROVE  FALSE
    BY DEF Precedes
  <2>1. k = l
    BY <1>3 DEF Distinct
  <2> QED
    BY <2>1
<1>5. ~(Bucket(h, x) < Bucket(h, x))
  BY <1>1, <1>2
<1> QED
  BY <1>4, <1>5 DEF Behind, c

\* hmap_next__() finds the first node from a bucket on.
LEMMA NextBucketLeads ==
  ASSUME NEW h, Good(h), NEW start \in Nat
  PROVE  /\ Leads(h, hmap_next__(h, start), From(h, start))
         /\ hmap_next__(h, start) # NULL => start <= Bucket(h, hmap_next__(h, start))
<1> DEFINE Occupied == {b \in start..h.mask : h.buckets[b] # <<>>}
           n == hmap_next__(h, start)
<1>1. h.mask \in Nat /\ Shaped(h) /\ Chained(h)
  BY DEF Good, Shaped, Masks
<1>2. ASSUME NEW y \in From(h, start)
      PROVE  Bucket(h, y) \in Occupied /\ Bucket(h, y) \in 0..h.mask
  <2>1. /\ y \in Held(h) /\ Bucket(h, y) \in 0..h.mask /\ start <= Bucket(h, y)
        /\ \E k \in 1..Len(h.buckets[Bucket(h, y)]) : h.buckets[Bucket(h, y)][k] = y
    BY <1>1, HeldInChain DEF From
  <2>2. h.buckets[Bucket(h, y)] # <<>>
    BY <2>1
  <2> QED
    BY <1>1, <2>1, <2>2
<1>3. CASE Occupied = {}
  <2>1. n = NULL
    BY <1>3 DEF hmap_next__
  <2>2. From(h, start) = {}
    BY <1>2, <1>3
  <2> QED
    BY <2>1, <2>2 DEF Leads
<1>4. CASE Occupied # {}
  <2> DEFINE First(b) == \A c \in Occupied : b <= c
             b == CHOOSE b \in Occupied : First(b)
  <2>1. n = Head(h.buckets[b])
    BY <1>4 DEF hmap_next__
  <2>2. b \in Occupied /\ First(b)
    <3>1. Occupied \in SUBSET Nat
      OBVIOUS
    <3>2. \E c \in Occupied : First(c)
      <4> HIDE DEF Occupied
      <4> QED
        BY <1>4, <3>1, LeastNumber
    <3> HIDE DEF First, Occupied
    <3> QED
      BY <3>2
  <2> HIDE DEF b
  <2>3. b \in 0..h.mask /\ start <= b /\ h.buckets[b] # <<>>
    BY <1>1, <2>2
  <2> DEFINE c == h.buckets[b]
  <2>4. c \in Seq(Nodes) /\ Distinct(c) /\ c # <<>>
    BY <2>3, ChainAt
  <2> HIDE DEF c, n
  <2>5. 1 \in 1..Len(c) /\ n = c[1] /\ Len(c) \in Nat
    BY <2>1, <2>4 DEF c
  <2>6. n \in Held(h) /\ Bucket(h, n) = b
    BY <1>1, <2>3, <2>5, HeldInChain DEF c
  <2>7. n \in From(h, start)
    BY <2>3, <2>6 DEF From
  <2>8. ASSUME NEW y \in From(h, start), y # n PROVE y \in Behind(h, n)
    <3>1. y \in Held(h) /\ Bucket(h, y) \in 0..h.mask /\ b <= Bucket(h, y)
      BY <1>2, <2>2 DEF From
    <3>2. CASE Bucket(h, y) = b
      <4>1. PICK k \in 1..Len(c) : c[k] = y
        BY <1>1, <3>1, <3>2, HeldInChain DEF c
      <4>2. 1 < k
        BY <2>5, <2>8, <4>1
      <4>3. Precedes(c, n, y)
        BY <2>5, <4>1, <4>2 DEF Precedes
      <4> QED
        BY <2>6, <3>1, <3>2, <4>3 DEF Behind, c
    <3>3. CASE Bucket(h, y) # b
      BY <2>3, <2>6, <3>1, <3>3 DEF Behind
    <3> QED
      BY <3>2, <3>3
  <2>9. ASSUME NEW y \in Behind(h, n) PROVE y \in From(h, start)
    <3>1. y \in Held(h) /\ Bucket(h, y) \in 0..h.mask
      BY <1>1, HeldInChain DEF Behind
    <3>2. b <= Bucket(h, y)
      BY <2>3, <2>6, <3>1 DEF Behind
    <3> QED
      BY <2>3, <3>1, <3>2 DEF From
  <2>10. n \notin Behind(h, n)
    BY <2>6, NotBehindItself
  <2>11. From(h, start) = {n} \cup Behind(h, n)
    BY <2>7, <2>8, <2>9
  <2> QED
    BY <2>3, <2>6, <2>10, <2>11 DEF Leads, n
<1> QED
  BY <1>3, <1>4

\* hmap_first() finds a node of a map that is not empty.
LEMMA FirstHeld ==
  ASSUME NEW h, Good(h)
  PROVE  IF h.n > 0 THEN hmap_first(h) \in Held(h) ELSE Held(h) = {}
<1>1. Shaped(h) /\ Chained(h) /\ IsFiniteSet(Held(h)) /\ h.n = Cardinality(Held(h)) /\ h.n \in Nat
  BY DEF Good, Shaped
<1>2. Held(h) = {} <=> h.n = 0
  BY <1>1, FS_EmptySet
<1>3. From(h, 0) = Held(h)
  <2>1. h.mask \in Nat
    BY <1>1 DEF Shaped, Masks
  <2>2. \A y \in Held(h) : Bucket(h, y) \in 0..h.mask
    BY <1>1, HeldInChain
  <2> QED
    BY <2>1, <2>2 DEF From
<1>4. Leads(h, hmap_first(h), Held(h))
  BY <1>3, NextBucketLeads DEF hmap_first
<1> QED
  BY <1>1, <1>2, <1>4 DEF Leads

\* node->next is NULL for the last node of a chain, else the node that follows.
LEMMA NextInChainIs ==
  ASSUME NEW h, Good(h), NEW x \in Held(h), NEW n, n = NextInChain(h, x)
  PROVE  \/ n = NULL /\ Behind(h, x) = From(h, Bucket(h, x) + 1)
         \/ n \in Held(h) /\ Bucket(h, n) = Bucket(h, x) /\ n # x
              /\ Leads(h, n, Behind(h, x))
<1> DEFINE B == Bucket(h, x)
           c == h.buckets[B]
<1>1. h.mask \in Nat /\ Shaped(h) /\ Chained(h) /\ x \in Nodes
  BY DEF Good, Shaped, Masks, Held
<1>2. B \in 0..h.mask
  BY <1>1, BucketRange
<1>3. c \in Seq(Nodes) /\ Distinct(c) /\ Len(c) \in Nat
  BY <1>2, ChainAt
<1>4. PICK i \in 1..Len(c) : c[i] = x
  BY <1>1, HeldInChain
<1>5. Position(c, x) = i
  <2> HIDE DEF c
  <2> QED
    BY <1>3, <1>4, PositionIs
<1>6. n = IF i < Len(c) THEN c[i + 1] ELSE NULL
  BY <1>5 DEF NextInChain, Position
<1> HIDE DEF c, B
<1>7. \A y \in Held(h) : y \in Nodes /\ Bucket(h, y) \in 0..h.mask
  BY <1>1, HeldInChain
<1>8. ASSUME NEW k \in 1..Len(c), NEW y
      PROVE  Precedes(c, c[k], y) <=> \E l \in 1..Len(c) : c[l] = y /\ k < l
  BY <1>3 DEF Precedes, Distinct
<1>9. CASE ~(i < Len(c))
  <2>1. \A y : ~Precedes(c, x, y)
    BY <1>3, <1>4, <1>8, <1>9
  <2>2. \A y \in Held(h) : B < Bucket(h, y) <=> B + 1 <= Bucket(h, y)
    BY <1>2, <1>7
  <2>3. Behind(h, x) = From(h, B + 1)
    BY <2>1, <2>2 DEF Behind, From, B, c
  <2> QED
    BY <1>6, <1>9, <2>3 DEF B
<1>10. CASE i < Len(c)
  <2>1. i + 1 \in 1..Len(c) /\ n = c[i + 1] /\ i # i + 1
    BY <1>3, <1>6, <1>10
  <2>2. n \in Held(h) /\ Bucket(h, n) = B /\ n # x
    <3>1. n \in Held(h) /\ Bucket(h, n) = B
      BY <1>1, <1>2, <2>1, HeldInChain DEF c
    <3>2. n # x
      BY <1>3, <1>4, <2>1 DEF Distinct
    <3> QED
      BY <3>1, <3>2
  <2>3. ASSUME NEW y PROVE Precedes(c, x, y) <=> y = n \/ Precedes(c, n, y)
    <3>1. Precedes(c, x, y) <=> \E l \in 1..Len(c) : c[l] = y /\ i < l
      BY <1>4, <1>8
    <3>2. Precedes(c, n, y) <=> \E l \in 1..Len(c) : c[l] = y /\ i + 1 < l
      BY <1>8, <2>1
    <3>3. \A l \in 1..Len(c) : i < l <=> l = i + 1 \/ i + 1 < l
      OBVIOUS
    <3> QED
      BY <2>1, <3>1, <3>2, <3>3
  <2>4. Behind(h, x) = {n} \cup Behind(h, n)
    <3>1. ~(B < B)
      BY <1>2
    <3> QED
      BY <2>2, <2>3, <3>1 DEF Behind, B, c
  <2>5. n \notin Behind(h, n)
    BY <2>2, NotBehindItself
  <2> QED
    BY <2>2, <2>4, <2>5 DEF Leads, B
<1> QED
  BY <1>9, <1>10

\* hmap_next() from a node of the map delivers the first of those behind it.
LEMMA AfterLeads ==
  ASSUME NEW h, Good(h), NEW x \in Held(h)
  PROVE  /\ Leads(h, After(h, x), Behind(h, x))
         /\ After(h, x) # NULL => Bucket(h, x) <= Bucket(h, After(h, x))
<1> DEFINE n == NextInChain(h, x)
           B == Bucket(h, x)
<1>1. h.mask \in Nat /\ x \in Nodes
  BY DEF Good, Shaped, Masks, Held
<1>2. B \in 0..h.mask /\ NULL \notin Held(h)
  BY <1>1, BucketRange, HmapAssumption DEF Held
<1>3. After(h, x) = IF n # NULL THEN n ELSE hmap_next__(h, B + 1)
  BY DEF After, hmap_next
<1>4. \/ n = NULL /\ Behind(h, x) = From(h, B + 1)
      \/ n \in Held(h) /\ Bucket(h, n) = B /\ n # x /\ Leads(h, n, Behind(h, x))
  BY NextInChainIs
<1> HIDE DEF n
<1>5. CASE n = NULL
  <2> DEFINE s == B + 1
  <2>0. s \in Nat /\ s = B + 1
    BY <1>2
  <2> HIDE DEF s
  <2>1. /\ Leads(h, hmap_next__(h, s), From(h, s))
        /\ hmap_next__(h, s) # NULL => s <= Bucket(h, hmap_next__(h, s))
    BY <2>0, NextBucketLeads
  <2>2. Behind(h, x) = From(h, s) /\ After(h, x) = hmap_next__(h, s)
    BY <1>2, <1>3, <1>4, <1>5, <2>0
  <2>3. After(h, x) # NULL => Bucket(h, After(h, x)) \in 0..h.mask
    BY <1>1, <2>1, <2>2, BucketRange DEF Leads, Held
  <2>4. After(h, x) # NULL => B <= Bucket(h, After(h, x))
    BY <1>2, <2>0, <2>1, <2>2, <2>3
  <2> QED
    BY <2>1, <2>2, <2>4
<1>6. CASE n # NULL
  BY <1>2, <1>3, <1>4, <1>6
<1> QED
  BY <1>5, <1>6

\* An insertion without growth puts the new node before those of its chain,
LEMMA BehindInsert ==
  ASSUME NEW h, Good(h), NEW x \in Nodes, x \notin Held(h),
         NEW g, g = hmap_insert_fast(h, x), NEW y \in Held(h)
  PROVE  /\ Behind(h, y) \subseteq Behind(g, y)
         /\ Behind(g, y) \subseteq Behind(h, y) \cup {x}
         /\ x \in Behind(g, y) => Bucket(h, y) < Bucket(h, x)
<1> DEFINE B == Bucket(h, x)
           c == h.buckets[B]
           Y == Bucket(h, y)
<1>1. /\ g.mask = h.mask /\ \A z \in Nodes : Bucket(g, z) = Bucket(h, z)
      /\ Held(g) = Held(h) \cup {x} /\ g.buckets[B] = <<x>> \o c
      /\ \A b \in 0..h.mask : b # B => g.buckets[b] = h.buckets[b]
  BY InsertFastGood
<1>2. h.mask \in Nat /\ y \in Nodes /\ Held(h) \subseteq Nodes /\ y # x
  BY DEF Good, Shaped, Masks, Held
<1>3. B \in 0..h.mask /\ Y \in 0..h.mask
  BY <1>2, BucketRange
<1>4. c \in Seq(Nodes) /\ ToSet(c) \subseteq Held(h)
  BY <1>3, ChainAt
<1>5. \A z : Precedes(g.buckets[Y], y, z) <=> Precedes(h.buckets[Y], y, z)
  <2>1. CASE Y = B
    <3> HIDE DEF c
    <3>1. \A z : Precedes(<<x>> \o c, y, z) <=> Precedes(c, y, z)
      BY <1>2, <1>4, PrependOrder
    <3> QED
      BY <1>1, <2>1, <3>1 DEF c
  <2>2. CASE Y # B
    BY <1>1, <1>3, <2>2
  <2> QED
    BY <2>1, <2>2
<1>6. ~Precedes(h.buckets[Y], y, x)
  <2> SUFFICES ASSUME Precedes(h.buckets[Y], y, x) PROVE FALSE
    OBVIOUS
  <2>1. h.buckets[Y] \in Seq(Nodes) /\ ToSet(h.buckets[Y]) \subseteq Held(h)
    BY <1>3, ChainAt
  <2>2. x \in ToSet(h.buckets[Y])
    BY <2>1 DEF Precedes, ToSet
  <2> QED
    BY <2>1, <2>2
<1>7. Bucket(g, y) = Y /\ Bucket(g, x) = B /\ \A z \in Held(h) : Bucket(g, z) = Bucket(h, z)
  BY <1>1, <1>2
<1> QED
  BY <1>1, <1>5, <1>6, <1>7 DEF Behind

\* and a removal leaves the others in their order.
LEMMA BehindRemove ==
  ASSUME NEW h, Good(h), NEW x \in Held(h),
         NEW g, g = hmap_remove(h, x), NEW y \in Held(h), y # x
  PROVE  Behind(g, y) = Behind(h, y) \ {x}
<1>1. /\ g.mask = h.mask /\ \A z \in Nodes : Bucket(g, z) = Bucket(h, z)
      /\ Held(g) = Held(h) \ {x}
      /\ \A b \in 0..h.mask : \A z, w : z # x /\ w # x =>
            (Precedes(g.buckets[b], z, w) <=> Precedes(h.buckets[b], z, w))
  BY RemoveGood
<1>2. h.mask \in Nat /\ y \in Nodes /\ Held(h) \subseteq Nodes
  BY DEF Good, Shaped, Masks, Held
<1>3. Bucket(h, y) \in 0..h.mask
  BY <1>2, BucketRange
<1>4. \A w : w # x => (Precedes(g.buckets[Bucket(h, y)], y, w)
                        <=> Precedes(h.buckets[Bucket(h, y)], y, w))
  BY <1>1, <1>3
<1>5. Bucket(g, y) = Bucket(h, y) /\ \A z \in Held(h) : Bucket(g, z) = Bucket(h, z)
  BY <1>1, <1>2
<1> QED
  BY <1>1, <1>4, <1>5 DEF Behind

-----------------------------------------------------------------------------
(* Positions *)

\* Each chain starts where the one before it ends.
Adjoin(start, m, ch) == \A b \in 0..m : start[b + 1] = start[b] + Len(ch[b])

\* Chains with no node in them leave the next one where they start.
EmptyIsNarrow(start, m, ch) ==
    \A a \in 0..(m + 1) : \A c \in a..(m + 1) :
       (\A b \in a..(c - 1) : Len(ch[b]) = 0) => start[c] = start[a]

\* Empty chains move nothing.
LEMMA EmptySpan ==
  ASSUME NEW m \in Nat, NEW ch, NEW start \in [0..(m + 1) -> Nat],
         Adjoin(start, m, ch)
  PROVE  EmptyIsNarrow(start, m, ch)
<1> SUFFICES ASSUME NEW a \in 0..(m + 1), NEW c \in a..(m + 1),
                    \A b \in a..(c - 1) : Len(ch[b]) = 0
             PROVE  start[c] = start[a]
  BY DEF EmptyIsNarrow
<1> USE DEF Adjoin
<1> DEFINE S == {j \in Nat : a + j <= c => start[a + j] = start[a]}
<1>1. 0 \in S
  OBVIOUS
<1>2. ASSUME NEW j \in Nat, j \in S PROVE j + 1 \in S
  <2> SUFFICES ASSUME a + (j + 1) <= c PROVE start[a + (j + 1)] = start[a]
    OBVIOUS
  <2> DEFINE b == a + j
  <2>1. b \in a..(c - 1) /\ b \in 0..m /\ b + 1 = a + (j + 1) /\ b \in 0..(m + 1)
    OBVIOUS
  <2>2. start[b] = start[a]
    BY <1>2, <2>1
  <2>3. start[b] \in Nat
    BY <2>1
  <2>4. start[b + 1] = start[b] + Len(ch[b]) /\ Len(ch[b]) = 0
    <3> HIDE DEF b
    <3> QED
      BY <2>1
  <2>5. start[b + 1] = start[b]
    BY <2>3, <2>4
  <2> QED
    BY <2>1, <2>2, <2>5
<1>3. c - a \in Nat /\ a + (c - a) = c
  OBVIOUS
<1>4. c - a \in S
  <2> HIDE DEF S
  <2> QED
    BY <1>1, <1>2, <1>3, SetInduction
<1> QED
  BY <1>3, <1>4

ZeroPosition == [bucket |-> 0, offset |-> 0]

Positions == [bucket : Nat, offset : Nat]

\* Before position pos there are i nodes.
Denotes(h, start, pos, i) ==
    /\ pos \in Positions
    /\ pos.bucket <= h.mask + 1
    /\ \/ pos.offset = 0
       \/ pos.bucket <= h.mask /\ pos.offset < Len(h.buckets[pos.bucket])
    /\ i = start[pos.bucket] + pos.offset

\* hmap_at_position() delivers the node that follows, and the position after it, or
\* after the last node nothing.
LEMMA AtPosition ==
  ASSUME NEW h, Good(h), NEW start \in [0..(h.mask + 1) -> Nat],
         IsLayout(start, h.mask, h.buckets, Traversal(h)),
         NEW pos, NEW i \in Nat, Denotes(h, start, pos, i),
         NEW r, r = hmap_at_position(h, pos)
  PROVE  \/ i = h.n /\ r = [node |-> NULL, pos |-> ZeroPosition]
         \/ /\ i + 1 \in 1..h.n /\ r.node = Traversal(h)[i + 1]
            /\ Denotes(h, start, r.pos, i + 1)
<1> DEFINE m == h.mask
           ch == h.buckets
           T == Traversal(h)
           Offset(b) == IF b = pos.bucket THEN pos.offset ELSE 0
           Hits == {b \in pos.bucket..m : Offset(b) < Len(ch[b])}
           p == pos.bucket
<1>1. m \in Nat /\ ch \in [0..m -> Seq(Nodes)] /\ Len(T) = h.n /\ h.n \in Nat
  BY TraversalOfGood DEF Good, Shaped, Masks
<1> HIDE DEF m, ch, T
<1>2. \A b \in 0..m : Len(ch[b]) \in Nat
  BY <1>1
<1>3. /\ start \in [0..(m + 1) -> Nat]
      /\ start[0] = 0 /\ start[m + 1] = Len(T)
      /\ \A b \in 0..m : start[b + 1] = start[b] + Len(ch[b])
      /\ \A b \in 0..m : \A k \in 1..Len(ch[b]) : T[start[b] + k] = ch[b][k]
  BY DEF IsLayout, m, ch, T
<1>4. /\ p \in Nat /\ pos.offset \in Nat /\ p <= m + 1
      /\ pos.offset = 0 \/ (p <= m /\ pos.offset < Len(ch[p]))
      /\ i = start[p] + pos.offset
  BY DEF Denotes, Positions, m, ch
<1> HIDE DEF p
<1>5. p \in 0..(m + 1) /\ start[p] \in Nat
  <2>1. p \in 0..(m + 1)
    BY <1>1, <1>4
  <2> QED
    BY <1>3, <2>1
<1>6. ASSUME NEW c \in p..(m + 1), \A b \in p..(c - 1) : b \notin Hits, c # p
      PROVE  start[c] = i
  <2>1. c \in Nat /\ p \in p..(c - 1) /\ \A b \in p..(c - 1) : b \in 0..m
    BY <1>1, <1>4, <1>6
  <2>2. \A b \in p..(c - 1) : ~(Offset(b) < Len(ch[b]))
    BY <1>1, <1>4, <1>6, <2>1 DEF p
  <2>3. pos.offset = 0
    BY <1>4, <2>1, <2>2 DEF p
  <2>4. \A b \in p..(c - 1) : Len(ch[b]) = 0
    BY <1>2, <2>1, <2>2, <2>3
  <2>5. start[c] = start[p]
    <3>1. /\ m \in Nat /\ p \in 0..(m + 1) /\ c \in p..(m + 1)
          /\ start \in [0..(m + 1) -> Nat]
      BY <1>1, <1>3, <1>5, <1>6
    <3>2. Adjoin(start, m, ch)
      BY <1>3 DEF Adjoin
    <3>3. EmptyIsNarrow(start, m, ch)
      BY <3>1, <3>2, EmptySpan
    <3> HIDE DEF Hits, Offset
    <3> QED
      BY <2>4, <3>1, <3>3 DEF EmptyIsNarrow
  <2> QED
    BY <1>4, <1>5, <2>3, <2>5
<1>7. CASE Hits = {}
  <2>1. r = [node |-> NULL, pos |-> ZeroPosition]
    BY <1>7 DEF hmap_at_position, ZeroPosition, m, ch
  <2>2. i = start[m + 1]
    <3>1. CASE p = m + 1
      BY <1>1, <1>4, <1>5, <3>1
    <3>2. CASE p # m + 1
      <4>1. m + 1 \in p..(m + 1) /\ m + 1 # p
        BY <1>1, <1>4, <3>2
      <4>2. \A b \in p..((m + 1) - 1) : b \notin Hits
        BY <1>7
      <4> QED
        BY <1>6, <4>1, <4>2
    <3> QED
      BY <3>1, <3>2
  <2> QED
    BY <1>1, <1>3, <2>1, <2>2
<1>8. CASE Hits # {}
  <2> DEFINE b == CHOOSE b \in Hits : \A c \in Hits : b <= c
             o == Offset(b)
  <2>1. b \in Hits /\ \A c \in Hits : b <= c
    <3>1. Hits \in SUBSET Nat
      BY <1>4 DEF p
    <3>2. \E c \in Hits : \A d \in Hits : c <= d
      <4> HIDE DEF Hits
      <4> QED
        BY ONLY <1>8, <3>1, LeastNumber
    <3> HIDE DEF Hits
    <3> QED
      BY <3>2
  <2>2. r = [node |-> ch[b][o + 1],
             pos  |-> IF o + 1 < Len(ch[b]) THEN [bucket |-> b, offset |-> o + 1]
                                            ELSE [bucket |-> b + 1, offset |-> 0]]
    BY <1>8 DEF hmap_at_position, m, ch
  <2> HIDE DEF b
  <2>3. /\ b \in p..m /\ b \in 0..m /\ b \in Nat /\ b + 1 \in Nat /\ b + 1 <= m + 1
        /\ o \in Nat /\ o < Len(ch[b])
    BY <1>1, <1>4, <2>1 DEF p
  <2>4. start[b] + o = i
    <3>1. CASE b = p
      BY <1>4, <3>1 DEF p
    <3>2. CASE b # p
      <4>1. b \in p..(m + 1) /\ \A c \in p..(b - 1) : c \notin Hits
        <5>1. \A c \in Hits : b <= c
          BY <2>1
        <5> HIDE DEF Hits
        <5> QED
          BY <1>1, <1>4, <2>3, <5>1
      <4>2. start[b] = i
        BY <1>6, <3>2, <4>1
      <4>3. o = 0
        BY <3>2 DEF p
      <4> QED
        BY <4>2, <4>3
    <3> QED
      BY <3>1, <3>2
  <2> HIDE DEF o
  <2>5. o + 1 \in 1..Len(ch[b]) /\ Len(ch[b]) \in Nat /\ start[b] \in Nat
        /\ start[b + 1] = start[b] + Len(ch[b])
    <3>1. b \in 0..(m + 1) /\ Len(ch[b]) \in Nat
      BY <1>1, <1>2, <2>3
    <3>2. start[b] \in Nat
      BY <1>3, <3>1
    <3>3. start[b + 1] = start[b] + Len(ch[b])
      BY <1>3, <2>3
    <3>4. o + 1 \in 1..Len(ch[b])
      BY <2>3, <3>1
    <3> QED
      BY <3>1, <3>2, <3>3, <3>4
  <2>6. start[b] + (o + 1) \in 1..start[m + 1]
    <3>1. \A c \in 0..m : Len(ch[c]) \in Nat /\ start[c + 1] = start[c] + Len(ch[c])
      BY <1>2, <1>3
    <3> DEFINE k == o + 1
    <3>2. k \in 1..Len(ch[b])
      BY <2>5
    <3> HIDE DEF k
    <3>3. start[b] + k \in 1..start[m + 1]
      BY <1>1, <1>3, <2>3, <3>1, <3>2, Before
    <3> QED
      BY <3>3 DEF k
  <2>7. start[b] + (o + 1) = i + 1
    <3>1. start[b] \in Nat /\ o \in Nat
      BY <2>3, <2>5
    <3> QED
      BY <2>4, <3>1
  <2>8. i + 1 \in 1..h.n
    BY <1>1, <1>3, <2>6, <2>7
  <2>9. r.node = T[i + 1]
    <3>1. r.node = ch[b][o + 1]
      BY <2>2
    <3>2. T[start[b] + (o + 1)] = ch[b][o + 1]
      BY <1>3, <2>3, <2>5
    <3> QED
      BY <2>7, <3>1, <3>2
  <2>10. Denotes(h, start, r.pos, i + 1)
    <3>1. CASE o + 1 < Len(ch[b])
      <4>1. r.pos = [bucket |-> b, offset |-> o + 1]
        BY <2>2, <3>1
      <4>2. r.pos.bucket = b /\ r.pos.offset = o + 1 /\ r.pos \in Positions
        BY <2>3, <4>1 DEF Positions
      <4>3. b <= m + 1 /\ b <= m
        BY <1>1, <2>3
      <4> QED
        BY <2>7, <3>1, <4>2, <4>3 DEF Denotes, m, ch
    <3>2. CASE ~(o + 1 < Len(ch[b]))
      <4>1. r.pos = [bucket |-> b + 1, offset |-> 0]
        BY <2>2, <3>2
      <4>2. r.pos.bucket = b + 1 /\ r.pos.offset = 0 /\ r.pos \in Positions
        BY <2>3, <4>1 DEF Positions
      <4>3. start[b + 1] + 0 = i + 1
        BY <2>3, <2>5, <2>7, <3>2
      <4> QED
        BY <2>3, <4>2, <4>3 DEF Denotes, m
    <3> QED
      BY <3>1, <3>2
  <2> QED
    BY <2>8, <2>9, <2>10 DEF T
<1> QED
  BY <1>7, <1>8

Stops == [node : Nodes \cup {NULL}, pos : Positions]

\* It always delivers a node or NULL, and a position.
LEMMA AtPositionTyped ==
  ASSUME NEW h, Good(h), NEW pos \in Positions
  PROVE  hmap_at_position(h, pos) \in Stops
<1> DEFINE Offset(b) == IF b = pos.bucket THEN pos.offset ELSE 0
           Hits == {b \in pos.bucket..h.mask : Offset(b) < Len(h.buckets[b])}
           b == CHOOSE b \in Hits : \A c \in Hits : b <= c
           o == Offset(b)
<1>1. h.mask \in Nat /\ h.buckets \in [0..h.mask -> Seq(Nodes)]
  BY DEF Good, Shaped, Masks
<1>2. CASE Hits = {}
  BY <1>2 DEF hmap_at_position, Stops, Positions
<1>3. CASE Hits # {}
  <2>1. hmap_at_position(h, pos)
          = [node |-> h.buckets[b][o + 1],
             pos  |-> IF o + 1 < Len(h.buckets[b]) THEN [bucket |-> b, offset |-> o + 1]
                                                   ELSE [bucket |-> b + 1, offset |-> 0]]
    BY <1>3 DEF hmap_at_position
  <2>2. b \in Hits
    <3>1. Hits \in SUBSET Nat
      BY DEF Positions
    <3>2. \E c \in Hits : \A d \in Hits : c <= d
      <4> HIDE DEF Hits
      <4> QED
        BY <1>3, <3>1, LeastNumber
    <3> HIDE DEF Hits
    <3> QED
      BY <3>2
  <2> HIDE DEF b
  <2>3. b \in 0..h.mask /\ b \in Nat /\ o \in Nat /\ o < Len(h.buckets[b])
    BY <1>1, <2>2 DEF Positions
  <2> HIDE DEF o
  <2>4. h.buckets[b] \in Seq(Nodes)
    BY <1>1, <2>3
  <2>5. o + 1 \in 1..Len(h.buckets[b]) /\ h.buckets[b][o + 1] \in Nodes
    <3>1. Len(h.buckets[b]) \in Nat
      BY <2>4
    <3>2. o + 1 \in 1..Len(h.buckets[b])
      BY <2>3, <3>1
    <3> QED
      BY <2>4, <3>2
  <2> DEFINE nx == IF o + 1 < Len(h.buckets[b]) THEN [bucket |-> b, offset |-> o + 1]
                                               ELSE [bucket |-> b + 1, offset |-> 0]
  <2>6. nx \in Positions
    BY <2>3 DEF Positions
  <2>7. hmap_at_position(h, pos) = [node |-> h.buckets[b][o + 1], pos |-> nx]
    BY <2>1
  <2>8. \A x \in Nodes : [node |-> x, pos |-> nx] \in Stops
    <3> HIDE DEF nx
    <3> QED
      BY <2>6 DEF Stops
  <2> HIDE DEF nx, Hits, Offset
  <2> QED
    BY ONLY <2>5, <2>7, <2>8
<1> QED
  BY <1>2, <1>3

\* From the zero position on, hmap_at_position() delivers the traversal.
LEMMA PositionsOfGood ==
  ASSUME Good(map)
  PROVE  PositionsFollowTraversal
<1> DEFINE L == map.n
           base == hmap_at_position(map, ZeroPosition)
           step == [k \in 1..L |-> [v \in Stops |-> hmap_at_position(map, v.pos)]]
           Eq(t) == t = [k \in 0..L |->
                           hmap_at_position(map, IF k = 0 THEN ZeroPosition
                                                 ELSE t[k - 1].pos)]
           Step == CHOOSE t : Eq(t)
<1>1. L \in Nat /\ map.mask \in Nat /\ map.buckets \in [0..map.mask -> Seq(Nodes)]
  BY DEF Good, Shaped, Masks
<1>2. ZeroPosition \in Positions /\ base \in Stops
  <2>1. ZeroPosition \in Positions
    BY DEF ZeroPosition, Positions
  <2> QED
    BY <2>1, AtPositionTyped
<1>3. step \in [1..L -> [Stops -> Stops]]
  <2>1. \A v \in Stops : v.pos \in Positions
    BY DEF Stops
  <2>2. \A v \in Stops : hmap_at_position(map, v.pos) \in Stops
    BY <2>1, AtPositionTyped
  <2> QED
    BY <2>2
<1>4. PICK f \in [0..L -> Stops] : IsRun(f, L, base, step)
  <2> HIDE DEF L, base, step
  <2> QED
    BY <1>1, <1>2, <1>3, Iteration
<1>5. Eq(f)
  <2>1. f[0] = base /\ \A k \in 1..L : f[k] = step[k][f[k - 1]]
    BY <1>4 DEF IsRun
  <2>2. ASSUME NEW k \in 0..L, k # 0 PROVE f[k] = hmap_at_position(map, f[k - 1].pos)
    <3>1. k \in 1..L /\ k - 1 \in 0..L
      BY <1>1, <2>2
    <3>2. f[k - 1] \in Stops
      BY <3>1
    <3> QED
      BY <2>1, <3>1, <3>2
  <2> QED
    BY <2>1, <2>2
<1>6. Eq(Step)
  <2> HIDE DEF Eq
  <2> QED
    BY <1>5
<1> HIDE DEF Step
<1>7. /\ Step[0] = hmap_at_position(map, ZeroPosition)
      /\ \A k \in 1..L : Step[k] = hmap_at_position(map, Step[k - 1].pos)
  BY <1>1, <1>6
<1> DEFINE T == Traversal(map)
<1>8. PICK start \in [0..(map.mask + 1) -> Nat] :
        IsLayout(start, map.mask, map.buckets, T)
  <2> DEFINE m == map.mask
             ch == map.buckets
  <2>1. T = FlattenSeq([b \in 1..(m + 1) |-> ch[b - 1]])
    BY DEF Traversal
  <2> HIDE DEF m, ch, T
  <2>2. \E start \in [0..(m + 1) -> Nat] : IsLayout(start, m, ch, T)
    BY <1>1, <2>1, Flattened DEF m, ch
  <2> QED
    BY <2>2 DEF m, ch
<1> DEFINE Right(k) ==
             IF k = L THEN Step[k] = [node |-> NULL, pos |-> ZeroPosition]
             ELSE Step[k].node = T[k + 1] /\ Denotes(map, start, Step[k].pos, k + 1)
           S == {k \in Nat : k <= L => Right(k)}
<1>9. ASSUME NEW k \in 0..L, NEW pos, Denotes(map, start, pos, k),
             Step[k] = hmap_at_position(map, pos)
      PROVE  Right(k)
  <2>1. \/ k = L /\ Step[k] = [node |-> NULL, pos |-> ZeroPosition]
        \/ /\ k + 1 \in 1..L /\ Step[k].node = T[k + 1]
           /\ Denotes(map, start, Step[k].pos, k + 1)
    BY <1>8, <1>9, AtPosition
  <2> QED
    BY <1>1, <2>1
<1>10. 0 \in S
  <2>1. Denotes(map, start, ZeroPosition, 0)
    BY <1>1, <1>2, <1>8 DEF Denotes, ZeroPosition, IsLayout
  <2>2. Right(0)
    BY <1>1, <1>7, <1>9, <2>1
  <2> QED
    BY <2>2
<1>11. ASSUME NEW k \in Nat, k \in S PROVE k + 1 \in S
  <2> SUFFICES ASSUME k + 1 <= L PROVE Right(k + 1)
    OBVIOUS
  <2>1. k + 1 \in 1..L /\ k + 1 \in 0..L /\ (k + 1) - 1 = k /\ k # L /\ k <= L
    BY <1>1
  <2>2. Denotes(map, start, Step[k].pos, k + 1)
    BY <1>11, <2>1
  <2>3. Step[k + 1] = hmap_at_position(map, Step[k].pos)
    BY <1>7, <2>1
  <2> HIDE DEF Right
  <2> QED
    BY <1>9, <2>1, <2>2, <2>3
<1>12. ASSUME NEW k \in 0..L PROVE Right(k)
  <2>1. k \in Nat /\ k <= L
    BY <1>1
  <2>2. k \in S
    <3> HIDE DEF S
    <3> QED
      BY <1>10, <1>11, <2>1, SetInduction
  <2> HIDE DEF Right
  <2> QED
    BY <2>1, <2>2
<1>13. \A k \in 1..L : Step[k - 1].node = T[k]
  <2> SUFFICES ASSUME NEW k \in 1..L PROVE Step[k - 1].node = T[k]
    OBVIOUS
  <2>1. k - 1 \in 0..L /\ k - 1 # L /\ (k - 1) + 1 = k
    BY <1>1
  <2> QED
    BY <1>12, <2>1
<1>14. Step[L] = [node |-> NULL, pos |-> ZeroPosition]
  BY <1>1, <1>12
<1> QED
  BY <1>13, <1>14 DEF PositionsFollowTraversal, Step, ZeroPosition

-----------------------------------------------------------------------------
(* The invariant of the walk *)

\* The types of the variables that describe the walk.
WalkTypes ==
    /\ safe \in BOOLEAN
    /\ cursor \in Nodes \cup {NULL}
    /\ ahead \in Nodes \cup {NULL}
    /\ due \subseteq Nodes
    /\ seen \subseteq Nodes
    /\ twice \in BOOLEAN
    /\ resized \in BOOLEAN
    /\ fast \in BOOLEAN

\* The next pointer that the client has to leave valid.
AheadHeld == Pinned /\ ahead # NULL => ahead \in Held(map)

Onward(x) == IF x = NULL THEN {} ELSE {x} \cup Behind(map, x)

\* What the walk will still meet if the map stays as it is.
Rest ==
    IF safe THEN Onward(ahead)
    ELSE IF cursor \in Held(map) THEN Behind(map, cursor)
    ELSE IF ahead # NULL THEN Onward(ahead)
    ELSE From(map, Bucket(map, cursor) + 1)

\* The nodes that are due lie ahead, the visited ones do not, nor can they get there
\* by being removed and inserted again: the walk has passed their bucket, or is in
\* it and they come before it.
Walking ==
    cursor # NULL /\ ~resized =>
        /\ due \subseteq Rest
        /\ seen \cap Rest = {}
        /\ cursor \in seen
        /\ \A x \in seen : Bucket(map, x) <= Bucket(map, cursor)
        /\ Pinned /\ ahead # NULL => Bucket(map, cursor) <= Bucket(map, ahead)

NothingDue == resized \/ cursor = NULL => due = {}

Inv ==
    /\ Good(map)
    /\ WalkTypes
    /\ ~twice
    /\ NothingDue
    /\ AheadHeld
    /\ Walking
    /\ LoadBounded

\* What the invariant says of the map, in short.
LEMMA InvFacts ==
  ASSUME Inv
  PROVE  /\ map.mask \in Nat /\ NULL \notin Nodes /\ Held(map) \subseteq Nodes
         /\ Elements(map) = Held(map)
         /\ \A x \in Nodes : Bucket(map, x) \in Nat
         /\ Pinned <=> cursor # NULL /\ (safe \/ cursor \notin Held(map))
<1>1. map.mask \in Nat /\ NULL \notin Nodes /\ Held(map) \subseteq Nodes
  BY HmapAssumption DEF Inv, Good, Shaped, Masks, Held
<1>2. Elements(map) = Held(map)
  BY TraversalOfGood DEF Inv
<1>3. ASSUME NEW x \in Nodes PROVE Bucket(map, x) \in Nat
  <2>1. Bucket(map, x) \in 0..map.mask
    BY <1>1, BucketRange
  <2> QED
    BY <2>1
<1>4. Pinned <=> cursor # NULL /\ (safe \/ cursor \notin Held(map))
  BY DEF Pinned, Held, Inv, WalkTypes
<1> QED
  BY <1>1, <1>2, <1>3, <1>4

\* The nodes of the next map.
LEMMA HeldPrimed == Held(map)' = Held(map')
BY DEF Held, hmap_contains, Bucket

\* Whether the next pointer is pinned in the next state.
LEMMA PinnedPrimed ==
  ASSUME cursor' \in Nodes \cup {NULL}
  PROVE  Pinned' <=> cursor' # NULL /\ (safe' \/ cursor' \notin Held(map)')
BY DEF Pinned, Held, hmap_contains, Bucket

\* HMAP_INITIALIZER is an empty table of one bucket.
LEMMA InitInv ==
  Init => Inv /\ Elements(map) = {}
<1> SUFFICES ASSUME Init PROVE Inv /\ Elements(map) = {}
  OBVIOUS
<1>1. 0 \in Masks
  <2>1. 0 \in 0..0 /\ 0 = LowBits[0]
    BY LowBitsFacts
  <2> QED
    BY <2>1 DEF Masks
<1>2. map = EmptyTable(0)
  BY DEF Init, HMAP_INITIALIZER, EmptyTable
<1>3. Good(map) /\ Held(map) = {} /\ map.n = 0 /\ map.mask = 0
  BY <1>1, <1>2, EmptyGood
<1>4. LoadBounded
  BY <1>3 DEF LoadBounded, hmap_capacity
<1>5. Inv
  BY <1>3, <1>4 DEF Init, Inv, WalkTypes, NothingDue, AheadHeld, Walking, Pinned
<1> QED
  BY <1>3, <1>5, TraversalOfGood

\* A node arrives without growth: it is met only if it lies in a bucket still to come.
LEMMA ArrivalKeepsWalking ==
  ASSUME Inv, NEW x \in Nodes, x \notin Held(map), x # cursor,
         map' = hmap_insert_fast(map, x), UNCHANGED <<safe, cursor, ahead, due, resized>>,
         ~resized => seen' = seen
  PROVE  AheadHeld' /\ Walking'
<1> DEFINE B(y) == Bucket(map, y)
<1>1. /\ map.mask \in Nat /\ NULL \notin Nodes /\ Held(map) \subseteq Nodes
      /\ \A y \in Nodes : B(y) \in Nat
      /\ Pinned <=> cursor # NULL /\ (safe \/ cursor \notin Held(map))
  BY InvFacts
<1>2. /\ Good(map) /\ Good(map') /\ map'.mask = map.mask
      /\ \A y \in Nodes : Bucket(map', y) = B(y)
      /\ Held(map') = Held(map) \cup {x} /\ Held(map)' = Held(map')
  <2>1. Good(map)
    BY DEF Inv
  <2>2. /\ Good(map') /\ map'.mask = map.mask
        /\ \A y \in Nodes : Bucket(map', y) = B(y)
        /\ Held(map') = Held(map) \cup {x}
    <3>1. Good(map') /\ map'.mask = map.mask /\ Held(map') = Held(map) \cup {x}
      BY <2>1, InsertFastGood
    <3> QED
      BY <3>1 DEF Bucket
  <2> QED
    BY <2>1, <2>2, HeldPrimed
<1>3. Pinned' <=> Pinned
  <2>1. Pinned' <=> cursor' # NULL /\ (safe' \/ cursor' \notin Held(map)')
    BY PinnedPrimed DEF Inv, WalkTypes
  <2> QED
    BY <1>1, <1>2, <2>1
<1>4. AheadHeld'
  BY <1>2, <1>3 DEF AheadHeld, Inv
<1>5. Walking'
  <2> SUFFICES ASSUME cursor # NULL, ~resized
               PROVE  /\ due \subseteq Rest'
                      /\ seen \cap Rest' = {}
                      /\ cursor \in seen
                      /\ \A y \in seen : Bucket(map', y) <= Bucket(map', cursor)
                      /\ Pinned' /\ ahead # NULL =>
                            Bucket(map', cursor) <= Bucket(map', ahead)
    BY DEF Walking
  <2>1. /\ due \subseteq Rest /\ seen \cap Rest = {} /\ cursor \in seen
        /\ \A y \in seen : B(y) <= B(cursor)
        /\ Pinned /\ ahead # NULL => B(cursor) <= B(ahead)
        /\ cursor \in Nodes /\ seen \subseteq Nodes /\ ahead \in Nodes \cup {NULL}
        /\ Pinned /\ ahead # NULL => ahead \in Held(map)
    BY DEF Inv, Walking, WalkTypes, AheadHeld
  <2>2. ASSUME NEW y \in Held(map)
        PROVE  /\ Behind(map, y) \subseteq Behind(map', y)
               /\ Behind(map', y) \subseteq Behind(map, y) \cup {x}
               /\ x \in Behind(map', y) => B(y) < B(x)
    BY BehindInsert DEF Inv
  <2> DEFINE s == B(cursor) + 1
  <2>3. /\ From(map, s) \subseteq From(map', s)
        /\ From(map', s) \subseteq From(map, s) \cup {x}
        /\ x \in From(map', s) => B(cursor) < B(x)
    <3>1. B(cursor) \in Nat /\ B(x) \in Nat
      BY <1>1, <2>1
    <3>2. Held(map') = Held(map) \cup {x} /\ \A y \in Held(map') : Bucket(map', y) = B(y)
      BY <1>1, <1>2 DEF Held
    <3> QED
      BY <3>1, <3>2 DEF From
  <2>4. Bucket(map', cursor) = B(cursor)
    BY <1>2, <2>1
  <2>5. /\ Rest \subseteq Rest' /\ Rest' \subseteq Rest \cup {x}
        /\ x \in Rest' => B(cursor) < B(x)
    <3>0. cursor \in Held(map)' <=> cursor \in Held(map)
      BY <1>2
    <3>1. ASSUME ahead \in Held(map), B(cursor) <= B(ahead)
          PROVE  /\ Onward(ahead) \subseteq Onward(ahead)'
                 /\ Onward(ahead)' \subseteq Onward(ahead) \cup {x}
                 /\ x \in Onward(ahead)' => B(cursor) < B(x)
      <4>1. ahead # NULL /\ ahead # x /\ ahead \in Nodes /\ B(ahead) \in Nat
            /\ B(cursor) \in Nat /\ B(x) \in Nat
        BY <1>1, <2>1, <3>1
      <4>2. Onward(ahead) = {ahead} \cup Behind(map, ahead)
        BY <4>1 DEF Onward
      <4>3. Onward(ahead)' = {ahead} \cup Behind(map', ahead)
        BY <4>1 DEF Onward, Behind, Held, hmap_contains, Bucket
      <4> QED
        BY <2>2, <3>1, <4>1, <4>2, <4>3
    <3>2. ahead = NULL => Onward(ahead) = {} /\ Onward(ahead)' = {}
      BY DEF Onward
    <3>3. CASE safe
      <4>1. Rest = Onward(ahead) /\ Rest' = Onward(ahead)'
        BY <3>3 DEF Rest
      <4> QED
        BY <1>1, <2>1, <3>1, <3>2, <3>3, <4>1
    <3>4. CASE ~safe /\ cursor \in Held(map)
      <4>1. Rest = Behind(map, cursor)
        BY <3>4 DEF Rest
      <4>2. Rest' = Behind(map, cursor)'
        BY <3>0, <3>4 DEF Rest
      <4> QED
        BY <2>2, <3>4, <4>1, <4>2
    <3>5. CASE ~safe /\ cursor \notin Held(map) /\ ahead # NULL
      <4>1. Rest = Onward(ahead)
        BY <3>5 DEF Rest
      <4>2. Rest' = Onward(ahead)'
        BY <3>0, <3>5 DEF Rest
      <4> QED
        BY <1>1, <2>1, <3>1, <3>5, <4>1, <4>2
    <3>6. CASE ~safe /\ cursor \notin Held(map) /\ ahead = NULL
      <4>1. Rest = From(map, B(cursor) + 1)
        BY <3>6 DEF Rest
      <4>2. Rest' = From(map, Bucket(map, cursor) + 1)'
        BY <3>0, <3>6 DEF Rest
      <4> QED
        BY <2>3, <2>4, <4>1, <4>2
    <3> QED
      BY <3>3, <3>4, <3>5, <3>6
  <2>6. x \in seen => x \notin Rest'
    BY <1>1, <2>1, <2>5
  <2> QED
    BY <1>2, <1>3, <2>1, <2>5, <2>6
<1> QED
  BY <1>4, <1>5

\* A node that leaves is no longer met; all others still are.
LEMMA UnlinkKeepsWalking ==
  ASSUME Inv, NEW x \in Nodes, Unlink(x)
  PROVE  AheadHeld' /\ Walking'
<1> DEFINE B(y) == Bucket(map, y)
<1>1. /\ map.mask \in Nat /\ NULL \notin Nodes /\ Held(map) \subseteq Nodes
      /\ Elements(map) = Held(map)
      /\ \A y \in Nodes : B(y) \in Nat
      /\ Pinned <=> cursor # NULL /\ (safe \/ cursor \notin Held(map))
  BY InvFacts
<1>2. /\ x \in Held(map) /\ ~(Pinned /\ x = ahead) /\ map' = hmap_remove(map, x)
      /\ due' = due \ {x}
      /\ ahead' = IF x = cursor /\ ~safe THEN NextInChain(map, x) ELSE ahead
      /\ safe' = safe /\ cursor' = cursor /\ seen' = seen /\ resized' = resized
      /\ Good(map)
  BY <1>1 DEF Unlink, Inv
<1>3. map'.mask = map.mask /\ Held(map') = Held(map) \ {x} /\ Held(map)' = Held(map')
  <2>1. map'.mask = map.mask /\ Held(map') = Held(map) \ {x}
    BY <1>2, RemoveGood
  <2> QED
    BY <2>1, HeldPrimed
<1>4. \A y : Bucket(map', y) = B(y)
  BY <1>3 DEF Bucket
<1>5. ASSUME NEW y \in Held(map), y # x PROVE Behind(map', y) = Behind(map, y) \ {x}
  BY <1>2, <1>5, BehindRemove
<1>6. Pinned' <=> cursor # NULL /\ (safe \/ cursor = x \/ cursor \notin Held(map))
  <2>1. Pinned' <=> cursor' # NULL /\ (safe' \/ cursor' \notin Held(map)')
    BY <1>2, PinnedPrimed DEF Inv, WalkTypes
  <2> QED
    BY <1>2, <1>3, <2>1
<1>7. \/ NextInChain(map, x) = NULL /\ Behind(map, x) = From(map, B(x) + 1)
      \/ /\ NextInChain(map, x) \in Held(map) /\ B(NextInChain(map, x)) = B(x)
         /\ NextInChain(map, x) # x
         /\ Leads(map, NextInChain(map, x), Behind(map, x))
  BY <1>2, NextInChainIs
<1>8. ahead \in Nodes \cup {NULL} /\ cursor \in Nodes \cup {NULL}
  BY DEF Inv, WalkTypes
<1>9. Pinned' /\ ahead' # NULL => ahead' \in Held(map) /\ ahead' # x
  <2> SUFFICES ASSUME Pinned', ahead' # NULL PROVE ahead' \in Held(map) /\ ahead' # x
    OBVIOUS
  <2>1. CASE x = cursor /\ ~safe
    BY <1>2, <1>7, <2>1
  <2>2. CASE ~(x = cursor /\ ~safe)
    <3>1. Pinned /\ ahead' = ahead
      BY <1>1, <1>2, <1>6, <2>2
    <3> QED
      BY <1>2, <3>1 DEF Inv, AheadHeld
  <2> QED
    BY <2>1, <2>2
<1>10. AheadHeld'
  BY <1>3, <1>9 DEF AheadHeld
<1>11. Walking'
  <2> SUFFICES ASSUME cursor # NULL, ~resized
               PROVE  /\ due \ {x} \subseteq Rest'
                      /\ seen \cap Rest' = {}
                      /\ cursor \in seen
                      /\ \A y \in seen : Bucket(map', y) <= Bucket(map', cursor)
                      /\ Pinned' /\ ahead' # NULL =>
                            Bucket(map', cursor) <= Bucket(map', ahead')
    BY <1>2 DEF Walking
  <2>1. /\ due \subseteq Rest /\ seen \cap Rest = {} /\ cursor \in seen
        /\ \A y \in seen : B(y) <= B(cursor)
        /\ Pinned /\ ahead # NULL => B(cursor) <= B(ahead)
        /\ cursor \in Nodes /\ B(cursor) \in Nat
    BY <1>1, <1>8 DEF Inv, Walking
  <2>2. Pinned' /\ ahead' # NULL => B(cursor) <= B(ahead')
    <3> SUFFICES ASSUME Pinned', ahead' # NULL PROVE B(cursor) <= B(ahead')
      OBVIOUS
    <3>1. CASE x = cursor /\ ~safe
      <4>1. B(ahead') = B(cursor)
        BY <1>2, <1>7, <3>1
      <4> QED
        BY <2>1, <4>1
    <3>2. CASE ~(x = cursor /\ ~safe)
      <4>1. Pinned /\ ahead' = ahead
        BY <1>1, <1>2, <1>6, <3>2
      <4> QED
        BY <2>1, <4>1
    <3> QED
      BY <3>1, <3>2
  <2>3. Rest' = Rest \ {x}
    <3>1. cursor \in Held(map)' <=> cursor \in Held(map) /\ cursor # x
      BY <1>3
    <3>2. ASSUME NEW a \in Held(map), a # x, a = ahead'
          PROVE  Onward(ahead)' = ({a} \cup Behind(map, a)) \ {x}
      <4>1. a # NULL
        BY <1>1
      <4>2. Onward(ahead)' = {a} \cup Behind(map', a)
        BY <3>2, <4>1 DEF Onward, Behind, Held, hmap_contains, Bucket
      <4> QED
        BY <1>5, <3>2, <4>2
    <3>3. ahead' = NULL => Onward(ahead)' = {}
      BY DEF Onward
    <3>4. ASSUME Pinned, ahead' = ahead
          PROVE  Onward(ahead)' = Onward(ahead) \ {x}
      <4>1. CASE ahead = NULL
        BY <3>3, <3>4, <4>1 DEF Onward
      <4>2. CASE ahead # NULL
        <5>1. ahead \in Held(map) /\ ahead # x
          BY <1>2, <3>4, <4>2 DEF Inv, AheadHeld
        <5> QED
          BY <3>2, <3>4, <4>2, <5>1 DEF Onward
      <4> QED
        BY <4>1, <4>2
    <3>5. CASE safe
      <4>1. Rest = Onward(ahead) /\ Pinned /\ ahead' = ahead
        BY <1>1, <1>2, <3>5 DEF Rest
      <4>2. Rest' = Onward(ahead)'
        BY <1>2, <3>5 DEF Rest
      <4> QED
        BY <3>4, <4>1, <4>2
    <3>6. CASE ~safe /\ cursor = x
      <4>1. Rest = Behind(map, x)
        BY <1>2, <3>6 DEF Rest
      <4>2. x \notin Behind(map, x)
        BY <1>2, NotBehindItself
      <4>3. ahead' = NextInChain(map, x)
        BY <1>2, <3>6
      <4>4. CASE ahead' = NULL
        <5>1. Rest' = From(map, Bucket(map, cursor) + 1)'
          BY <1>2, <3>1, <3>6, <4>4 DEF Rest
        <5>2. From(map, Bucket(map, cursor) + 1)' = From(map', B(x) + 1)
          BY <1>2, <1>4, <3>6 DEF From, Held, hmap_contains, Bucket
        <5>3. From(map', B(x) + 1) = From(map, B(x) + 1) \ {x}
          BY <1>3, <1>4 DEF From
        <5>4. Behind(map, x) = From(map, B(x) + 1)
          BY <1>1, <1>7, <4>3, <4>4
        <5> QED
          BY <4>1, <5>1, <5>2, <5>3, <5>4
      <4>5. CASE ahead' # NULL
        <5>1. Rest' = Onward(ahead)'
          BY <1>2, <3>1, <3>6, <4>5 DEF Rest
        <5>2. /\ ahead' \in Held(map) /\ ahead' # x
              /\ Behind(map, x) = {ahead'} \cup Behind(map, ahead')
          BY <1>1, <1>7, <4>3, <4>5 DEF Leads
        <5> QED
          BY <3>2, <4>1, <5>1, <5>2
      <4> QED
        BY <4>4, <4>5
    <3>7. CASE ~safe /\ cursor # x /\ cursor \in Held(map)
      <4>1. Rest = Behind(map, cursor)
        BY <3>7 DEF Rest
      <4>2. Rest' = Behind(map, cursor)'
        BY <1>2, <3>1, <3>7 DEF Rest
      <4>3. Behind(map, cursor)' = Behind(map', cursor)
        BY <1>2 DEF Behind, Held, hmap_contains, Bucket
      <4> QED
        BY <1>5, <3>7, <4>1, <4>2, <4>3
    <3>8. CASE ~safe /\ cursor # x /\ cursor \notin Held(map)
      <4>1. Pinned /\ ahead' = ahead /\ cursor \notin Held(map)'
        BY <1>1, <1>2, <3>1, <3>8
      <4>2. CASE ahead # NULL
        <5>1. Rest = Onward(ahead) /\ Rest' = Onward(ahead)'
          BY <1>2, <3>8, <4>1, <4>2 DEF Rest
        <5> QED
          BY <3>4, <4>1, <5>1
      <4>3. CASE ahead = NULL
        <5>1. Rest = From(map, B(cursor) + 1)
          BY <3>8, <4>3 DEF Rest
        <5>2. Rest' = From(map, Bucket(map, cursor) + 1)'
          BY <1>2, <3>8, <4>1, <4>3 DEF Rest
        <5>3. From(map, Bucket(map, cursor) + 1)' = From(map', B(cursor) + 1)
          BY <1>2, <1>4 DEF From, Held, hmap_contains, Bucket
        <5>4. From(map', B(cursor) + 1) = From(map, B(cursor) + 1) \ {x}
          BY <1>3, <1>4 DEF From
        <5> QED
          BY <5>1, <5>2, <5>3, <5>4
      <4> QED
        BY <4>2, <4>3
    <3> QED
      BY <3>5, <3>6, <3>7, <3>8
  <2> QED
    BY <1>4, <2>1, <2>2, <2>3
<1> QED
  BY <1>10, <1>11

\* A reallocation ends what is known of the walk; outside a walk there is nothing.
LEMMA NoteResizeKeepsWalking ==
  ASSUME Inv, NEW h,
         Held(map) \subseteq Held(h), cursor \in Held(h) => cursor \in Held(map),
         h.mask # map.mask \/ cursor = NULL,
         map' = h, NoteResize(h), due' = (IF resized' THEN {} ELSE due),
         UNCHANGED <<safe, cursor, ahead>>
  PROVE  /\ ~twice' /\ NothingDue' /\ AheadHeld' /\ Walking'
         /\ due' \subseteq due /\ seen' \subseteq seen /\ resized' \in BOOLEAN
<1>1. Pinned <=> cursor # NULL /\ (safe \/ cursor \notin Held(map))
  BY InvFacts
<1>2. Pinned' <=> cursor # NULL /\ (safe \/ cursor \notin Held(h))
  <2>1. Pinned' <=> cursor' # NULL /\ (safe' \/ cursor' \notin Held(map)')
    BY PinnedPrimed DEF Inv, WalkTypes
  <2> QED
    BY <2>1, HeldPrimed
<1>3. AheadHeld'
  <2>1. Held(map)' = Held(h)
    BY HeldPrimed
  <2> QED
    BY <1>1, <1>2, <2>1 DEF AheadHeld, Inv
<1>4. CASE cursor = NULL
  <2>1. ~resized' /\ seen' = seen /\ twice' = twice /\ due' = due /\ due = {}
    BY <1>4 DEF NoteResize, Inv, NothingDue, WalkTypes
  <2>2. resized' \in BOOLEAN
    BY DEF NoteResize
  <2>3. ~twice
    BY DEF Inv
  <2>4. NothingDue'
    BY <2>1 DEF NothingDue
  <2>5. Walking'
    BY <1>4 DEF Walking
  <2>6. ~twice'
    BY <2>1, <2>3
  <2> QED
    BY <1>3, <2>1, <2>2, <2>4, <2>5, <2>6
<1>5. CASE cursor # NULL
  <2>1. resized' /\ seen' = {} /\ ~twice' /\ due' = {}
    BY <1>5 DEF NoteResize
  <2>2. resized' \in BOOLEAN
    BY DEF NoteResize, Inv, WalkTypes
  <2> QED
    BY <1>3, <2>1, <2>2 DEF Walking, NothingDue
<1> QED
  BY <1>4, <1>5

\* The node that Advance reaches.
NextNode ==
    IF safe THEN ahead
    ELSE IF hmap_contains(map, cursor) THEN After(map, cursor)
    ELSE hmap_next(map, cursor, ahead)

\* The walk goes on to the first of the nodes it has still to meet, if there is one.
LEMMA NextNodeLeads ==
  ASSUME Inv, cursor # NULL
  PROVE  /\ Leads(map, NextNode, Rest)
         /\ NextNode # NULL /\ ~resized => Bucket(map, cursor) <= Bucket(map, NextNode)
<1>1. /\ map.mask \in Nat /\ NULL \notin Nodes /\ Held(map) \subseteq Nodes
      /\ \A y \in Nodes : Bucket(map, y) \in Nat
      /\ Pinned <=> cursor # NULL /\ (safe \/ cursor \notin Held(map))
  BY InvFacts
<1>2. Good(map) /\ cursor \in Nodes /\ (hmap_contains(map, cursor) <=> cursor \in Held(map))
  BY DEF Inv, WalkTypes, Held
<1>3. ASSUME Pinned, ahead # NULL
      PROVE  /\ Leads(map, ahead, Onward(ahead))
             /\ ~resized => Bucket(map, cursor) <= Bucket(map, ahead)
  <2>1. ahead \in Held(map)
    BY <1>3 DEF Inv, AheadHeld
  <2>2. ahead \notin Behind(map, ahead)
    BY <1>2, <2>1, NotBehindItself
  <2>3. ~resized => Bucket(map, cursor) <= Bucket(map, ahead)
    BY <1>3 DEF Inv, Walking
  <2> QED
    BY <1>3, <2>1, <2>2, <2>3 DEF Leads, Onward
<1>4. CASE safe
  <2>1. NextNode = ahead /\ Rest = Onward(ahead) /\ Pinned
    BY <1>1, <1>4 DEF NextNode, Rest
  <2>2. CASE ahead = NULL
    BY <2>1, <2>2 DEF Leads, Onward
  <2>3. CASE ahead # NULL
    BY <1>3, <2>1, <2>3
  <2> QED
    BY <2>2, <2>3
<1>5. CASE ~safe /\ cursor \in Held(map)
  <2>1. NextNode = After(map, cursor) /\ Rest = Behind(map, cursor)
    BY <1>2, <1>5 DEF NextNode, Rest
  <2> QED
    BY <1>2, <1>5, <2>1, AfterLeads
<1>6. CASE ~safe /\ cursor \notin Held(map)
  <2>1. Pinned /\ NextNode = hmap_next(map, cursor, ahead)
    BY <1>1, <1>2, <1>6 DEF NextNode
  <2>2. CASE ahead # NULL
    <3>1. NextNode = ahead /\ Rest = Onward(ahead)
      BY <1>6, <2>1, <2>2 DEF hmap_next, Rest
    <3> QED
      BY <1>3, <2>1, <2>2, <3>1
  <2>3. CASE ahead = NULL
    <3> DEFINE b == Bucket(map, cursor)
               s == b + 1
    <3>1. b \in Nat /\ s \in Nat /\ s = b + 1
      BY <1>1, <1>2
    <3>2. NextNode = hmap_next__(map, s) /\ Rest = From(map, s)
      BY <1>6, <2>1, <2>3 DEF hmap_next, Rest
    <3> HIDE DEF s
    <3>3. /\ Leads(map, NextNode, Rest)
          /\ NextNode # NULL => s <= Bucket(map, NextNode)
      BY <1>2, <3>1, <3>2, NextBucketLeads
    <3>4. NextNode # NULL => Bucket(map, NextNode) \in Nat
      BY <1>1, <3>3 DEF Leads
    <3>5. NextNode # NULL => b <= Bucket(map, NextNode)
      <4> HIDE DEF b
      <4> QED
        BY <3>1, <3>3, <3>4
    <3> QED
      BY <3>3, <3>5
  <2> QED
    BY <2>2, <2>3
<1> QED
  BY <1>4, <1>5, <1>6

\* When the loop reaches a node, what is behind it is what is left.
LEMMA ReachRest ==
  ASSUME Inv, NEW x \in Held(map), UNCHANGED map, cursor' = x,
         ahead' = (IF safe' THEN After(map, x) ELSE NULL), safe' \in BOOLEAN
  PROVE  /\ Rest' = Behind(map, x)
         /\ ahead' # NULL => ahead' \in Held(map) /\ Bucket(map, x) <= Bucket(map, ahead')
         /\ ~safe' => ~Pinned'
<1>1. Good(map) /\ NULL \notin Nodes /\ Held(map) \subseteq Nodes
  BY InvFacts DEF Inv
<1>2. Held(map)' = Held(map)
  BY DEF Held, hmap_contains, Bucket
<1>3. /\ Leads(map, After(map, x), Behind(map, x))
      /\ After(map, x) # NULL => Bucket(map, x) <= Bucket(map, After(map, x))
  BY <1>1, AfterLeads
<1>4. CASE safe'
  <2>1. Rest' = Onward(ahead)' /\ ahead' = After(map, x)
    BY <1>4 DEF Rest
  <2>2. CASE ahead' = NULL
    <3>1. Onward(ahead)' = {}
      BY <2>2 DEF Onward
    <3>2. Behind(map, x) = {}
      BY <1>1, <1>3, <2>1, <2>2 DEF Leads
    <3> QED
      BY <1>4, <2>1, <2>2, <3>1, <3>2
  <2>3. CASE ahead' # NULL
    <3>1. Onward(ahead)' = {ahead'} \cup Behind(map, ahead')
      BY <2>3 DEF Onward, Behind, Held, hmap_contains, Bucket
    <3>2. ahead' \in Held(map) /\ Behind(map, x) = {ahead'} \cup Behind(map, ahead')
      BY <1>3, <2>1, <2>3 DEF Leads
    <3> QED
      BY <1>3, <1>4, <2>1, <3>1, <3>2
  <2> QED
    BY <2>2, <2>3
<1>5. CASE ~safe'
  <2>1. cursor' \in Held(map)'
    BY <1>2
  <2>2. Rest' = Behind(map, cursor)'
    BY <1>5, <2>1 DEF Rest
  <2>3. Behind(map, cursor)' = Behind(map, x)
    BY DEF Behind, Held, hmap_contains, Bucket
  <2>4. ~Pinned'
    BY <1>1, <1>5, <2>1, PinnedPrimed
  <2> QED
    BY <1>5, <2>2, <2>3, <2>4
<1> QED
  BY <1>4, <1>5

\* A walk begins at the first node, with all others behind it.
LEMMA BeginStep ==
  ASSUME Inv, NEW s \in BOOLEAN, Begin(s)
  PROVE  Inv'
<1> DEFINE x == hmap_first(map)
           B(y) == Bucket(map, y)
<1>1. /\ map.mask \in Nat /\ NULL \notin Nodes /\ Held(map) \subseteq Nodes
      /\ Elements(map) = Held(map)
      /\ \A y \in Nodes : B(y) \in Nat
  BY InvFacts
<1>2. /\ x # NULL /\ safe' = s /\ cursor' = x /\ due' = Held(map) \ {x} /\ seen' = {x}
      /\ ahead' = (IF s THEN After(map, x) ELSE NULL)
      /\ twice' = FALSE /\ resized' = FALSE /\ map' = map /\ fast' = fast
  BY <1>1 DEF Begin, Reach
<1>3. Good(map)
  BY DEF Inv
<1>4. Leads(map, x, From(map, 0))
  BY <1>3, NextBucketLeads DEF hmap_first
<1>5. From(map, 0) = Held(map)
  <2>1. \A y \in Held(map) : 0 <= B(y)
    BY <1>1
  <2> QED
    BY <2>1 DEF From
<1> HIDE DEF x
<1>6. x \in Held(map) /\ Held(map) = {x} \cup Behind(map, x) /\ x \notin Behind(map, x)
  BY <1>2, <1>4, <1>5 DEF Leads
<1>7. /\ Rest' = Behind(map, x)
      /\ ahead' # NULL => ahead' \in Held(map) /\ B(x) <= B(ahead')
  BY <1>2, <1>6, ReachRest
<1>8. Held(map)' = Held(map) /\ \A y : Bucket(map', y) = B(y)
  BY <1>2 DEF Held, hmap_contains, Bucket
<1>9. AheadHeld'
  BY <1>7, <1>8 DEF AheadHeld
<1>10. WalkTypes'
  <2>1. ahead' \in Nodes \cup {NULL} /\ cursor' \in Nodes /\ due' \subseteq Nodes
    BY <1>1, <1>2, <1>6, <1>7
  <2>2. fast' \in BOOLEAN
    BY <1>2 DEF Inv, WalkTypes
  <2> QED
    BY <1>2, <2>1, <2>2 DEF WalkTypes
<1>11. Walking'
  <2>1. B(x) <= B(x)
    BY <1>1, <1>6
  <2>2. due' \subseteq Rest' /\ seen' \cap Rest' = {} /\ cursor' \in seen'
    BY <1>2, <1>6, <1>7
  <2>3. \A y \in seen' : Bucket(map', y) <= Bucket(map', cursor')
    BY <1>2, <1>8, <2>1
  <2>4. ahead' # NULL => Bucket(map', cursor') <= Bucket(map', ahead')
    BY <1>2, <1>7, <1>8
  <2> QED
    BY <2>2, <2>3, <2>4 DEF Walking
<1>12. Good(map)' /\ LoadBounded'
  BY <1>2 DEF Inv, Good, Shaped, Chained, Held, hmap_contains, Bucket, LoadBounded,
     hmap_capacity
<1>13. NothingDue'
  BY <1>1, <1>2, <1>6 DEF NothingDue
<1> QED
  BY <1>2, <1>9, <1>10, <1>11, <1>12, <1>13 DEF Inv

\* A walk goes on to the next node, or ends.
LEMMA AdvanceStep ==
  ASSUME Inv, Advance
  PROVE  Inv'
<1> DEFINE x == NextNode
           B(y) == Bucket(map, y)
           before == IF resized THEN {} ELSE seen
<1>1. /\ map.mask \in Nat /\ NULL \notin Nodes /\ Held(map) \subseteq Nodes
      /\ \A y \in Nodes : B(y) \in Nat
  BY InvFacts
<1>2. /\ cursor # NULL /\ cursor' = x
      /\ due' = (IF x = NULL THEN due ELSE due \ {x})
      /\ seen' = (IF x = NULL THEN {} ELSE before \cup {x})
      /\ ahead' = (IF safe /\ x # NULL THEN After(map, x) ELSE NULL)
      /\ twice' = (twice \/ (~resized /\ x \in seen))
      /\ UNCHANGED <<map, safe, resized, fast>>
  BY DEF Advance, Reach, NextNode
<1>3. Leads(map, x, Rest) /\ (x # NULL /\ ~resized => B(cursor) <= B(x))
  BY <1>2, NextNodeLeads
<1>4. /\ Good(map) /\ ~twice /\ (resized => due = {})
      /\ due \subseteq Nodes /\ seen \subseteq Nodes /\ cursor \in Nodes
      /\ safe \in BOOLEAN /\ resized \in BOOLEAN /\ fast \in BOOLEAN
  BY <1>2 DEF Inv, WalkTypes, NothingDue
<1>5. ~resized => /\ due \subseteq Rest /\ seen \cap Rest = {} /\ cursor \in seen
                  /\ \A y \in seen : B(y) <= B(cursor)
  BY <1>2 DEF Inv, Walking
<1>6. Held(map)' = Held(map) /\ \A y : Bucket(map', y) = B(y)
  BY <1>2 DEF Held, hmap_contains, Bucket
<1> HIDE DEF x
<1>7. Good(map)' /\ LoadBounded'
  BY <1>2 DEF Inv, Good, Shaped, Chained, Held, hmap_contains, Bucket, LoadBounded,
     hmap_capacity
<1>8. CASE x = NULL
  <2>1. cursor' = NULL /\ seen' = {} /\ due' = due /\ ahead' = NULL
    BY <1>2, <1>8
  <2>2. due = {}
    BY <1>1, <1>3, <1>4, <1>5, <1>8 DEF Leads
  <2>3. ~twice'
    <3>1. x \notin seen
      BY <1>1, <1>4, <1>8
    <3> QED
      BY <1>2, <1>4, <3>1
  <2>4. WalkTypes'
    <3>1. twice' \in BOOLEAN
      BY <1>2
    <3> QED
      BY <1>2, <1>4, <2>1, <2>2, <3>1 DEF WalkTypes
  <2>5. NothingDue' /\ AheadHeld' /\ Walking'
    BY <2>1, <2>2 DEF NothingDue, AheadHeld, Walking
  <2> QED
    BY <1>7, <2>3, <2>4, <2>5 DEF Inv
<1>9. CASE x # NULL
  <2>1. /\ cursor' = x /\ seen' = before \cup {x} /\ due' = due \ {x}
        /\ ahead' = (IF safe' THEN After(map, x) ELSE NULL)
    BY <1>2, <1>9
  <2>2. x \in Held(map) /\ x \notin Behind(map, x) /\ Rest = {x} \cup Behind(map, x)
    BY <1>3, <1>9 DEF Leads
  <2>3. /\ Rest' = Behind(map, x)
        /\ ahead' # NULL => ahead' \in Held(map) /\ B(x) <= B(ahead')
    BY <1>2, <1>4, <2>1, <2>2, ReachRest
  <2>4. ~twice'
    <3>1. ~(~resized /\ x \in seen)
      BY <1>5, <2>2
    <3> QED
      BY <1>2, <1>4, <3>1
  <2>5. WalkTypes'
    <3>1. twice' \in BOOLEAN
      BY <1>2
    <3>2. cursor' \in Nodes /\ ahead' \in Nodes \cup {NULL}
      BY <1>1, <2>1, <2>2, <2>3
    <3>3. due' \subseteq Nodes /\ seen' \subseteq Nodes
      BY <1>1, <1>4, <2>1, <2>2
    <3> QED
      BY <1>2, <1>4, <3>1, <3>2, <3>3 DEF WalkTypes
  <2>6. NothingDue'
    <3>1. cursor' # NULL /\ resized' = resized
      BY <1>2, <1>9, <2>1
    <3> QED
      BY <1>4, <2>1, <3>1 DEF NothingDue
  <2>7. AheadHeld'
    BY <1>6, <2>3 DEF AheadHeld
  <2>8. Walking'
    <3> SUFFICES ASSUME ~resized
                 PROVE  /\ due' \subseteq Rest'
                        /\ seen' \cap Rest' = {}
                        /\ cursor' \in seen'
                        /\ \A y \in seen' : Bucket(map', y) <= Bucket(map', cursor')
                        /\ ahead' # NULL => Bucket(map', cursor') <= Bucket(map', ahead')
      BY <1>2 DEF Walking
    <3>1. seen' = seen \cup {x}
      BY <2>1
    <3>2. due' \subseteq Rest' /\ seen' \cap Rest' = {} /\ cursor' \in seen'
      BY <1>5, <2>1, <2>2, <2>3, <3>1
    <3>3. ASSUME NEW y \in seen' PROVE B(y) <= B(x)
      <4>1. B(x) \in Nat /\ B(cursor) \in Nat
        BY <1>1, <1>4, <2>2
      <4>2. CASE y = x
        BY <4>1, <4>2
      <4>3. CASE y \in seen
        <5>1. B(y) \in Nat /\ B(y) <= B(cursor) /\ B(cursor) <= B(x)
          BY <1>1, <1>3, <1>4, <1>5, <1>9, <4>3
        <5> QED
          BY <4>1, <5>1
      <4> QED
        BY <3>1, <4>2, <4>3
    <3>4. \A y \in seen' : Bucket(map', y) <= Bucket(map', cursor')
      BY <1>6, <2>1, <3>3
    <3>5. ahead' # NULL => Bucket(map', cursor') <= Bucket(map', ahead')
      BY <1>6, <2>1, <2>3
    <3> QED
      BY <3>2, <3>4, <3>5
  <2> QED
    BY <1>7, <2>4, <2>5, <2>6, <2>7, <2>8 DEF Inv
<1> QED
  BY <1>8, <1>9

\* What becomes of the map in one step: it stays good, a node comes or goes, or one
\* takes the place of another, or all go.
Changed(old, new) ==
    \/ new = old
    \/ \E x \in Nodes : x \notin old /\ new = old \cup {x}
    \/ \E x \in Nodes : x \in old /\ new = old \ {x}
    \/ \E x, y \in Nodes : x \in old /\ y \notin old /\ new = (old \ {x}) \cup {y}
    \/ new = {}

\* Nothing of the walk is at stake while there is none.
LEMMA NoWalk ==
  ASSUME Inv, cursor = NULL, Good(map'), UNCHANGED walk, UNCHANGED fast, LoadBounded'
  PROVE  Inv'
<1>1. ~Pinned' /\ cursor' = NULL
  BY DEF Pinned, walk
<1>2. AheadHeld' /\ Walking'
  BY <1>1 DEF AheadHeld, Walking
<1>3. NothingDue' /\ WalkTypes'
  BY DEF NothingDue, WalkTypes, walk, Inv
<1>4. Good(map)'
  BY DEF Good, Shaped, Chained, Held, hmap_contains, Bucket
<1>5. ~twice'
  BY DEF Inv, walk
<1> QED
  BY <1>2, <1>3, <1>4, <1>5 DEF Inv

\* Each operation keeps the invariant; what it does to the nodes.
LEMMA InsertStep ==
  ASSUME Inv, NEW x \in Nodes, Insert(x)
  PROVE  Inv' /\ x \notin Held(map) /\ Held(map') = Held(map) \cup {x}
<1> DEFINE h == hmap_insert(map, x)
<1>1. Good(map) /\ Elements(map) = Held(map)
  BY InvFacts DEF Inv
<1>2. /\ x \notin Held(map) /\ x # cursor /\ map' = h /\ NoteResize(h)
      /\ due' = (IF resized' THEN {} ELSE due) /\ fast' = FALSE
      /\ UNCHANGED <<safe, cursor, ahead>>
  BY <1>1 DEF Insert
<1>3. /\ Good(h) /\ Held(h) = Held(map) \cup {x} /\ h.n <= hmap_capacity(h)
      /\ h = hmap_insert_fast(map, x) \/ h.mask # map.mask
  BY <1>1, <1>2, InsertGood
<1> HIDE DEF h
<1>4. LoadBounded'
  BY <1>2, <1>3 DEF LoadBounded, hmap_capacity
<1>5. Good(map)'
  BY <1>2, <1>3 DEF Good, Shaped, Chained, Held, hmap_contains, Bucket
<1>6. due \subseteq Nodes /\ seen \subseteq Nodes /\ ~twice /\ twice \in BOOLEAN
      /\ resized \in BOOLEAN
  BY DEF Inv, WalkTypes
<1>7. CASE h.mask # map.mask \/ cursor = NULL
  <2>1. /\ ~twice' /\ NothingDue' /\ AheadHeld' /\ Walking'
        /\ due' \subseteq due /\ seen' \subseteq seen /\ resized' \in BOOLEAN
    <3>1. Held(map) \subseteq Held(h) /\ (cursor \in Held(h) => cursor \in Held(map))
      BY <1>2, <1>3
    <3> QED
      BY <1>2, <1>7, <3>1, NoteResizeKeepsWalking
  <2>2. twice' \in BOOLEAN
    BY <1>2 DEF NoteResize
  <2>3. WalkTypes'
    BY <1>2, <1>6, <2>1, <2>2 DEF WalkTypes, Inv
  <2> QED
    BY <1>2, <1>3, <1>4, <1>5, <2>1, <2>3 DEF Inv
<1>8. CASE h.mask = map.mask /\ cursor # NULL
  <2>1. map' = hmap_insert_fast(map, x)
    BY <1>2, <1>3, <1>8
  <2>2. resized' = resized
    BY <1>2, <1>6, <1>8 DEF NoteResize
  <2>3. seen' = IF resized THEN {} ELSE seen
    BY <1>2, <1>8 DEF NoteResize
  <2>4. ~twice' /\ twice' \in BOOLEAN
    BY <1>2, <1>6 DEF NoteResize
  <2>5. due' = due
    BY <1>2, <2>2 DEF Inv, NothingDue
  <2>6. WalkTypes'
    BY <1>2, <1>6, <2>2, <2>3, <2>4, <2>5 DEF WalkTypes, Inv
  <2>7. AheadHeld' /\ Walking'
    BY <1>2, <2>1, <2>2, <2>3, <2>5, ArrivalKeepsWalking
  <2>8. NothingDue'
    BY <1>2, <2>2, <2>5 DEF NothingDue, Inv
  <2> QED
    BY <1>2, <1>3, <1>4, <1>5, <2>4, <2>6, <2>7, <2>8 DEF Inv
<1> QED
  BY <1>7, <1>8

\* hmap_insert_fast()
LEMMA InsertFastStep ==
  ASSUME Inv, NEW x \in Nodes, InsertFast(x)
  PROVE  Inv' /\ x \notin Held(map) /\ Held(map') = Held(map) \cup {x}
<1>1. Good(map) /\ Elements(map) = Held(map)
  BY InvFacts DEF Inv
<1>2. /\ x \notin Held(map) /\ x # cursor /\ map' = hmap_insert_fast(map, x) /\ fast' = TRUE
      /\ UNCHANGED <<safe, cursor, ahead, due, seen, twice, resized>>
  BY <1>1 DEF InsertFast, walk
<1>3. Good(map') /\ Held(map') = Held(map) \cup {x}
  BY <1>1, <1>2, InsertFastGood
<1>4. LoadBounded'
  BY <1>2 DEF LoadBounded
<1>5. Good(map)'
  BY <1>3 DEF Good, Shaped, Chained, Held, hmap_contains, Bucket
<1>6. AheadHeld' /\ Walking'
  BY <1>2, ArrivalKeepsWalking
<1>7. WalkTypes' /\ NothingDue' /\ ~twice'
  BY <1>2 DEF WalkTypes, NothingDue, Inv
<1> QED
  BY <1>2, <1>3, <1>4, <1>5, <1>6, <1>7 DEF Inv

\* hmap_remove()
LEMMA UnlinkStep ==
  ASSUME Inv, NEW x \in Nodes, Unlink(x)
  PROVE  Inv' /\ x \in Held(map) /\ Held(map') = Held(map) \ {x}
<1>1. Good(map) /\ Elements(map) = Held(map) /\ Held(map) \subseteq Nodes
  BY InvFacts DEF Inv
<1>2. /\ x \in Held(map) /\ map' = hmap_remove(map, x) /\ due' = due \ {x}
      /\ ahead' = (IF x = cursor /\ ~safe THEN NextInChain(map, x) ELSE ahead)
      /\ UNCHANGED <<safe, cursor, seen, twice, resized, fast>>
  BY <1>1 DEF Unlink
<1>3. /\ Good(map') /\ Held(map') = Held(map) \ {x}
      /\ map'.mask = map.mask /\ map'.n = map.n - 1
  BY <1>1, <1>2, RemoveGood
<1>4. LoadBounded'
  <2>1. map.mask \in Nat /\ map.n \in Nat
    BY <1>1 DEF Good, Shaped, Masks
  <2> QED
    BY <1>2, <1>3, <2>1 DEF LoadBounded, hmap_capacity, Inv
<1>5. Good(map)'
  BY <1>3 DEF Good, Shaped, Chained, Held, hmap_contains, Bucket
<1>6. AheadHeld' /\ Walking'
  BY UnlinkKeepsWalking
<1>7. NextInChain(map, x) \in Nodes \cup {NULL}
  BY <1>1, <1>2, NextInChainIs
<1>8. WalkTypes' /\ NothingDue' /\ ~twice'
  BY <1>2, <1>7 DEF WalkTypes, NothingDue, Inv
<1> QED
  BY <1>2, <1>3, <1>4, <1>5, <1>6, <1>8 DEF Inv

\* hmap_replace()
LEMMA ReplaceStep ==
  ASSUME Inv, NEW x \in Nodes, NEW y \in Nodes, Replace(x, y)
  PROVE  /\ Inv' /\ x \in Held(map) /\ y \notin Held(map)
         /\ Held(map') = (Held(map) \ {x}) \cup {y}
<1>1. Good(map) /\ Elements(map) = Held(map)
  BY InvFacts DEF Inv
<1>2. /\ cursor = NULL /\ x \in Held(map) /\ y \notin Held(map) /\ Hash[x] = Hash[y]
      /\ map' = hmap_replace(map, x, y) /\ UNCHANGED walk /\ UNCHANGED fast
  BY <1>1 DEF Replace
<1>3. /\ Good(map') /\ Held(map') = (Held(map) \ {x}) \cup {y}
      /\ map'.mask = map.mask /\ map'.n = map.n
  BY <1>1, <1>2, ReplaceGood
<1>4. LoadBounded'
  BY <1>2, <1>3 DEF LoadBounded, hmap_capacity, Inv
<1> QED
  BY <1>2, <1>3, <1>4, NoWalk

\* hmap_clear()
LEMMA ClearStep ==
  ASSUME Inv, Clear
  PROVE  Inv' /\ Held(map') = {}
<1>1. Good(map)
  BY DEF Inv
<1>2. cursor = NULL /\ map' = hmap_clear(map) /\ UNCHANGED walk /\ UNCHANGED fast
  BY DEF Clear
<1>3. Good(map') /\ Held(map') = {} /\ map'.mask = map.mask /\ map'.n = 0
  BY <1>1, <1>2, ClearGood
<1>4. LoadBounded'
  <2>1. map.mask \in Nat
    BY <1>1 DEF Good, Shaped, Masks
  <2> QED
    BY <1>3, <2>1 DEF LoadBounded, hmap_capacity
<1> QED
  BY <1>2, <1>3, <1>4, NoWalk

\* The steps that only reallocate.
LEMMA ResizeStep ==
  ASSUME Inv, NEW h, Resize(h), Good(h), Held(h) = Held(map), h.mask # map.mask,
         fast' \in BOOLEAN, ~fast' => h.n <= hmap_capacity(h)
  PROVE  Inv' /\ Held(map') = Held(map)
<1>1. /\ map' = h /\ NoteResize(h) /\ due' = (IF resized' THEN {} ELSE due)
      /\ UNCHANGED <<safe, cursor, ahead>>
  BY DEF Resize
<1>2. /\ ~twice' /\ NothingDue' /\ AheadHeld' /\ Walking'
      /\ due' \subseteq due /\ seen' \subseteq seen /\ resized' \in BOOLEAN
  BY <1>1, NoteResizeKeepsWalking
<1>3. twice' \in BOOLEAN
  BY <1>1 DEF NoteResize
<1>4. WalkTypes'
  <2>1. due' \subseteq Nodes /\ seen' \subseteq Nodes
    BY <1>2 DEF Inv, WalkTypes
  <2>2. safe' \in BOOLEAN /\ cursor' \in Nodes \cup {NULL} /\ ahead' \in Nodes \cup {NULL}
    BY <1>1 DEF Inv, WalkTypes
  <2> QED
    BY <1>2, <1>3, <2>1, <2>2 DEF WalkTypes
<1>5. LoadBounded'
  BY <1>1 DEF LoadBounded, hmap_capacity
<1>6. Good(map)'
  BY <1>1 DEF Good, Shaped, Chained, Held, hmap_contains, Bucket
<1> QED
  BY <1>1, <1>2, <1>4, <1>5, <1>6 DEF Inv

\* hmap_expand(), hmap_shrink() and hmap_reserve()
LEMMA ReallocationStep ==
  ASSUME Inv, Expand \/ Shrink \/ \E n \in Reservations : Reserve(n)
  PROVE  Inv' /\ Held(map') = Held(map)
<1>1. Good(map) /\ fast \in BOOLEAN /\ (~fast => map.n <= hmap_capacity(map))
      /\ map.n \in Nat
  BY DEF Inv, WalkTypes, LoadBounded, Good, Shaped
<1>2. CASE Expand
  <2> DEFINE h == hmap_expand(map)
  <2>1. Resize(h) /\ h # map /\ fast' = FALSE
    BY <1>2 DEF Expand, Resize
  <2>2. Good(h) /\ Held(h) = Held(map) /\ h.mask # map.mask /\ h.n <= hmap_capacity(h)
    BY <1>1, <2>1, ExpandGood
  <2> HIDE DEF h
  <2> QED
    BY <2>1, <2>2, ResizeStep
<1>3. CASE Shrink
  <2> DEFINE h == hmap_shrink(map)
  <2>1. Resize(h) /\ h # map /\ fast' = fast
    BY <1>3 DEF Shrink, Resize
  <2>2. Good(h) /\ Held(h) = Held(map) /\ h.mask # map.mask /\ h.n <= hmap_capacity(h)
    BY <1>1, <2>1, ShrinkGood
  <2> HIDE DEF h
  <2> QED
    BY <1>1, <2>1, <2>2, ResizeStep
<1>4. CASE \E n \in Reservations : Reserve(n)
  <2>1. PICK n \in Reservations : Reserve(n)
    BY <1>4
  <2> DEFINE h == hmap_reserve(map, n)
  <2>2. n \in Nat
    BY ReservationsAssumption
  <2>3. Resize(h) /\ h # map /\ fast' = fast
    BY <2>1 DEF Reserve, Resize
  <2>4. /\ Good(h) /\ Held(h) = Held(map) /\ h.mask # map.mask /\ h.n = map.n
        /\ hmap_capacity(map) <= hmap_capacity(h)
    BY <1>1, <2>2, <2>3, ReserveGood
  <2> HIDE DEF h
  <2>5. hmap_capacity(map) \in Nat /\ hmap_capacity(h) \in Nat
    BY <1>1, <2>4 DEF Good, Shaped, Masks, hmap_capacity
  <2>6. ~fast' => h.n <= hmap_capacity(h)
    BY <1>1, <2>3, <2>4, <2>5
  <2> QED
    BY <1>1, <2>3, <2>4, <2>6, ResizeStep
<1> QED
  BY <1>2, <1>3, <1>4

\* Every step keeps the invariant, and changes the set of nodes as it may.
LEMMA NextInv ==
  ASSUME Inv, [Next]_vars
  PROVE  Inv' /\ Changed(Held(map), Held(map'))
<1>1. ASSUME NEW x \in Nodes, Insert(x) \/ InsertFast(x)
      PROVE  Inv' /\ Changed(Held(map), Held(map'))
  <2>1. Inv' /\ x \notin Held(map) /\ Held(map') = Held(map) \cup {x}
    BY <1>1, InsertStep, InsertFastStep
  <2> QED
    BY <2>1 DEF Changed
<1>2. ASSUME NEW x \in Nodes, Unlink(x) PROVE Inv' /\ Changed(Held(map), Held(map'))
  <2>1. Inv' /\ x \in Held(map) /\ Held(map') = Held(map) \ {x}
    BY <1>2, UnlinkStep
  <2> QED
    BY <2>1 DEF Changed
<1>3. ASSUME NEW x \in Nodes, NEW y \in Nodes, Replace(x, y)
      PROVE  Inv' /\ Changed(Held(map), Held(map'))
  <2>1. /\ Inv' /\ x \in Held(map) /\ y \notin Held(map)
        /\ Held(map') = (Held(map) \ {x}) \cup {y}
    BY <1>3, ReplaceStep
  <2> QED
    BY <2>1 DEF Changed
<1>4. CASE Clear
  BY <1>4, ClearStep DEF Changed
<1>5. CASE Expand \/ Shrink \/ \E n \in Reservations : Reserve(n)
  BY <1>5, ReallocationStep DEF Changed
<1>6. ASSUME NEW s \in BOOLEAN, Begin(s)
      PROVE  Inv' /\ Changed(Held(map), Held(map'))
  <2>1. Inv' /\ map' = map
    BY <1>6, BeginStep DEF Begin
  <2>2. Held(map') = Held(map)
    BY <2>1
  <2> QED
    BY <2>1, <2>2 DEF Changed
<1>7. CASE Advance
  <2>1. Inv' /\ map' = map
    BY <1>7, AdvanceStep DEF Advance
  <2>2. Held(map') = Held(map)
    BY <2>1
  <2> QED
    BY <2>1, <2>2 DEF Changed
<1>8. CASE UNCHANGED vars
  <2>1. map' = map /\ UNCHANGED <<safe, cursor, ahead, due, seen, twice, resized, fast>>
    BY <1>8 DEF vars, walk
  <2>2. Inv'
    <3>1. Good(map)' /\ LoadBounded'
      BY <2>1 DEF Inv, Good, Shaped, Chained, Held, hmap_contains, Bucket, LoadBounded,
         hmap_capacity
    <3>2. WalkTypes' /\ NothingDue' /\ ~twice'
      BY <2>1 DEF Inv, WalkTypes, NothingDue
    <3>3. AheadHeld'
      BY <2>1 DEF Inv, AheadHeld, Pinned, Held, hmap_contains, Bucket
    <3>4. Rest' = Rest
      BY <2>1 DEF Rest, Onward, From, Behind, Held, hmap_contains, Bucket
    <3>5. Walking'
      BY <2>1, <3>4 DEF Inv, Walking, Pinned, hmap_contains, Bucket
    <3> QED
      BY <3>1, <3>2, <3>3, <3>5 DEF Inv
  <2>3. Held(map') = Held(map)
    BY <2>1
  <2> QED
    BY <2>2, <2>3 DEF Changed
<1>9. CASE Next
  <2>1. CASE \E x \in Nodes : Insert(x) \/ InsertFast(x) \/ Unlink(x)
    BY <1>1, <1>2, <2>1
  <2>2. CASE \E x, y \in Nodes : Replace(x, y)
    BY <1>3, <2>2
  <2>3. CASE \E s \in BOOLEAN : Begin(s)
    BY <1>6, <2>3
  <2> QED
    BY <1>4, <1>5, <1>7, <1>9, <2>1, <2>2, <2>3 DEF Next
<1> QED
  BY <1>8, <1>9

-----------------------------------------------------------------------------
(* Theorems *)

\* The invariant holds in every state.
LEMMA Invariance == Spec => []Inv
<1>1. Init => Inv
  BY InitInv
<1>2. Inv /\ [Next]_vars => Inv'
  BY NextInv
<1> QED
  BY <1>1, <1>2, PTL DEF Spec

\* After any sequence of calls the buckets of the map are sound: every node lies once,
\* in the chain that its hash selects, the counter that the code keeps apart from the
\* chains counts them, and mask + 1 is a power of two other than 2.
THEOREM TypeCorrect == Spec => []TypeOK
<1>1. Inv => TypeOK
  <2> SUFFICES ASSUME Inv PROVE TypeOK
    OBVIOUS
  <2>1. WellFormed(map) /\ Elements(map) \subseteq Nodes
    BY GoodIsWellFormed, InvFacts DEF Inv
  <2> QED
    BY <2>1 DEF Inv, WalkTypes, TypeOK
<1> QED
  BY <1>1, Invariance, PTL

\* hmap_insert() and hmap_expand() keep the load of the map bounded, through removals,
\* shrinking, reservation and fast insertions.
THEOREM LoadIsBounded == Spec => []LoadBounded
<1>1. Inv => LoadBounded
  BY DEF Inv
<1> QED
  BY <1>1, Invariance, PTL

\* A walk that is not resized under visits every node that it found at its start and
\* that was not removed before its turn, and none twice.
THEOREM WalksVisitOnce == Spec => []VisitedExactlyOnce
<1>1. Inv => VisitedExactlyOnce
  <2> SUFFICES ASSUME Inv PROVE VisitedExactlyOnce
    OBVIOUS
  <2>1. ~twice /\ NothingDue
    BY DEF Inv
  <2> QED
    BY <2>1 DEF VisitedExactlyOnce, NothingDue
<1> QED
  BY <1>1, Invariance, PTL

\* To its client the map is a set of nodes: reallocation and iteration are invisible.
THEOREM MapImplementsSet == Spec => ImplementsSet
<1>1. Init => AbstractSet!Init
  BY InitInv DEF AbstractSet!Init
<1>2. Inv /\ [Next]_vars => [AbstractSet!Next]_(Elements(map))
  <2> SUFFICES ASSUME Inv, [Next]_vars
               PROVE  AbstractSet!Next \/ Elements(map)' = Elements(map)
    OBVIOUS
  <2> DEFINE old == Elements(map)
             new == Elements(map)'
  <2>1. Inv' /\ Changed(Held(map), Held(map'))
    BY NextInv
  <2>2. old = Held(map)
    BY InvFacts
  <2>3. new = Held(map')
    <3>0. Good(map)'
      BY <2>1 DEF Inv
    <3>1. Good(map')
      BY <3>0 DEF Good, Shaped, Chained, Held, hmap_contains, Bucket
    <3>2. Elements(map') = Held(map')
      BY <3>1, TraversalOfGood
    <3>3. Elements(map)' = Elements(map')
      BY DEF Elements, Traversal
    <3> QED
      BY <3>2, <3>3
  <2>4. Changed(old, new)
    BY <2>1, <2>2, <2>3
  <2>5. ASSUME NEW x \in Nodes, x \notin old, new = old \cup {x} PROVE AbstractSet!Next
    <3>1. AbstractSet!Insert(x)
      BY <2>5 DEF AbstractSet!Insert
    <3> QED
      BY <3>1 DEF AbstractSet!Next
  <2>6. ASSUME NEW x \in Nodes, x \in old, new = old \ {x} PROVE AbstractSet!Next
    <3>1. AbstractSet!Remove(x)
      BY <2>6 DEF AbstractSet!Remove
    <3> QED
      BY <3>1 DEF AbstractSet!Next
  <2>7. ASSUME NEW x \in Nodes, NEW y \in Nodes, x \in old, y \notin old,
               new = (old \ {x}) \cup {y}
        PROVE  AbstractSet!Next
    <3>1. AbstractSet!Replace(x, y)
      BY <2>7 DEF AbstractSet!Replace
    <3> QED
      BY <3>1 DEF AbstractSet!Next
  <2>8. ASSUME new = {} PROVE AbstractSet!Next
    <3>1. AbstractSet!Clear
      BY <2>8 DEF AbstractSet!Clear
    <3> QED
      BY <3>1 DEF AbstractSet!Next
  <2> HIDE DEF old, new
  <2>9. AbstractSet!Next \/ new = old
    BY <2>4, <2>5, <2>6, <2>7, <2>8 DEF Changed
  <2> QED
    BY <2>9 DEF old, new
<1> QED
  BY <1>1, <1>2, Invariance, PTL DEF Spec, ImplementsSet, AbstractSet!Spec

\* A client that keeps only a position between its calls, as hmap_at_position() allows,
\* meets the same nodes as one that iterates, in the same order.
THEOREM PositionsAgree == Spec => []PositionsFollowTraversal
<1>1. Inv => PositionsFollowTraversal
  BY PositionsOfGood DEF Inv
<1> QED
  BY <1>1, Invariance, PTL

=============================================================================
