-------------------------- MODULE ContainersProofs --------------------------
(***************************************************************************)
(* Proofs about Containers.  First the rings of list.h are the lists that  *)
(* their calls promise.  All calls but two cut a run of elements out of a  *)
(* ring or paste one into a ring, and list_splice() does both; so there is *)
(* one lemma for each, in which sequences are known by their elements.     *)
(* Then the vectors of svec.c own the strings on the heap: what each call, *)
(* and each round of its loop, does to the number of strings it holds.     *)
(* Then the strings of dynamic-string.c are the texts that were put: each  *)
(* call writes behind the text, for which it has made room, or cuts it.    *)
(* Last, the sets of sset.c and the maps of shash.c are the sets and maps  *)
(* of names that they promise.  Both keep their nodes in the table that    *)
(* HmapProofs is about: its facts about one table, and about the loops     *)
(* that search, fill and empty it, are taken over with INSTANCE.           *)
(***************************************************************************)
EXTENDS Containers, NumberProofs, SequenceTheorems

-----------------------------------------------------------------------------
(* Rings *)

Nodes == Elems \cup ListHeads
Pointer == Nodes \cup {POISON}
Memory == [prev : [Nodes -> Pointer], next : [Nodes -> Pointer]]

\* The nodes of a ring: the head is before the first element and behind the last one.
At(s, h, k) == IF k \in 1..Len(s) THEN s[k] ELSE h

Linked(m, h, s) ==
    \A k \in 0..Len(s) : /\ m.next[At(s, h, k)] = At(s, h, k + 1)
                         /\ m.prev[At(s, h, k + 1)] = At(s, h, k)

\* No element is twice in the lists.
Apart(ls) ==
    \A g, h \in ListHeads :
        ls[g] # NULL /\ ls[h] # NULL =>
            \A k \in 1..Len(ls[g]), l \in 1..Len(ls[h]) :
                ls[g][k] = ls[h][l] => g = h /\ k = l

Good(m, ls) ==
    /\ m \in Memory
    /\ ls \in [ListHeads -> Seq(Elems) \cup {NULL}]
    /\ Apart(ls)
    /\ \A h \in ListHeads : ls[h] # NULL => Linked(m, h, ls[h])

\* What the constants of LinkedList satisfy.
LEMMA ListConstants ==
  /\ Elems \cap ListHeads = {}
  /\ IsFiniteSet(Elems) /\ IsFiniteSet(ListHeads)
  /\ NULL \notin Seq(Elems)
<1>1. \A S : List!IsFiniteSet(S) <=> IsFiniteSet(S)
  BY DEF List!IsFiniteSet, IsFiniteSet
<1> QED
  BY <1>1, ContainersAssumption DEF ContainersAssumption, List!ConstantsOK

\* The list of a head in use.
LEMMA LiveType ==
  ASSUME NEW ls \in [ListHeads -> Seq(Elems) \cup {NULL}], NEW h \in ListHeads, ls[h] # NULL
  PROVE  /\ ls[h] \in Seq(Elems) /\ Len(ls[h]) \in Nat
         /\ \A k \in Int : At(ls[h], h, k) \in Nodes
         /\ \A k \in 1..Len(ls[h]) : At(ls[h], h, k) = ls[h][k] /\ ls[h][k] \in Elems
         /\ At(ls[h], h, 0) = h /\ At(ls[h], h, Len(ls[h]) + 1) = h
<1>1. ls[h] \in Seq(Elems) /\ Len(ls[h]) \in Nat
  OBVIOUS
<1>2. \A k \in 1..Len(ls[h]) : ls[h][k] \in Elems
  BY <1>1, ElementOfSeq
<1> QED
  BY <1>1, <1>2 DEF At, Nodes

\* Nodes at different places of the rings are different.
LEMMA AtSame ==
  ASSUME NEW ls \in [ListHeads -> Seq(Elems) \cup {NULL}], Apart(ls),
         NEW g \in ListHeads, ls[g] # NULL, NEW h \in ListHeads, ls[h] # NULL
  PROVE  /\ \A k \in 0..Len(ls[g]), l \in 0..Len(ls[h]) :
                At(ls[g], g, k) = At(ls[h], h, l) => g = h /\ k = l
         /\ \A k \in 1..(Len(ls[g]) + 1), l \in 1..(Len(ls[h]) + 1) :
                At(ls[g], g, k) = At(ls[h], h, l) => g = h /\ k = l
<1>1. /\ Len(ls[g]) \in Nat /\ Len(ls[h]) \in Nat
      /\ \A k \in 1..Len(ls[g]) : ls[g][k] \in Elems
      /\ \A k \in 1..Len(ls[h]) : ls[h][k] \in Elems
  BY LiveType
<1>2. Elems \cap ListHeads = {}
  BY ListConstants
<1>3. \A k \in 1..Len(ls[g]), l \in 1..Len(ls[h]) : ls[g][k] = ls[h][l] => g = h /\ k = l
  BY DEF Apart
<1> DEFINE m == Len(ls[g])
           n == Len(ls[h])
           a == ls[g]
           b == ls[h]
<1> HIDE DEF m, n
<1>4. \A k \in 0..m, l \in 0..n : At(a, g, k) = At(b, h, l) => g = h /\ k = l
  BY <1>1, <1>2, <1>3 DEF At, m, n
<1>5. \A k \in 1..(m + 1), l \in 1..(n + 1) : At(a, g, k) = At(b, h, l) => g = h /\ k = l
  BY <1>1, <1>2, <1>3 DEF At, m, n
<1> QED
  BY <1>4, <1>5 DEF m, n

-----------------------------------------------------------------------------
(* Cutting *)

CutAt(m, x, y) == [m EXCEPT !.next[x] = y, !.prev[y] = x]

\* Two pointers are written.
LEMMA CutMemory ==
  ASSUME NEW m \in Memory, NEW x \in Nodes, NEW y \in Nodes
  PROVE  /\ CutAt(m, x, y) \in Memory
         /\ \A z \in Nodes : /\ CutAt(m, x, y).next[z] = IF z = x THEN y ELSE m.next[z]
                             /\ CutAt(m, x, y).prev[z] = IF z = y THEN x ELSE m.prev[z]
<1>1. CutAt(m, x, y) \in Memory
  BY DEF CutAt, Memory, Pointer
<1>2. ASSUME NEW z \in Nodes
      PROVE  CutAt(m, x, y).next[z] = IF z = x THEN y ELSE m.next[z]
  BY DEF CutAt, Memory
<1>3. ASSUME NEW z \in Nodes
      PROVE  CutAt(m, x, y).prev[z] = IF z = y THEN x ELSE m.prev[z]
  BY DEF CutAt, Memory
<1> QED
  BY <1>1, <1>2, <1>3

\* t is s without the elements from the i-th to the one before the j-th; r is these.
IsCut(t, r, s, i, j) ==
    /\ t \in Seq(Elems) /\ r \in Seq(Elems)
    /\ Len(t) = Len(s) - (j - i) /\ Len(r) = j - i
    /\ \A q \in 1..Len(t) : t[q] = IF q < i THEN s[q] ELSE s[q + (j - i)]
    /\ \A q \in 1..Len(r) : r[q] = s[i + q - 1]

\* A run of elements that are linked to each other and in no list.
Loose(m, ls, r) ==
    /\ r \in Seq(Elems) /\ Len(r) # 0
    /\ \A k, l \in 1..Len(r) : r[k] = r[l] => k = l
    /\ \A k \in 1..(Len(r) - 1) : m.next[r[k]] = r[k + 1] /\ m.prev[r[k + 1]] = r[k]
    /\ \A h \in ListHeads : ls[h] # NULL =>
           \A k \in 1..Len(r), l \in 1..Len(ls[h]) : r[k] # ls[h][l]

\* What is left is a list, and what is cut out is linked and in no list.
LEMMA CutGood ==
  ASSUME NEW m, NEW ls, Good(m, ls), NEW g \in ListHeads, ls[g] # NULL,
         NEW i \in 1..Len(ls[g]), NEW j \in (i + 1)..(Len(ls[g]) + 1),
         NEW t, NEW r, IsCut(t, r, ls[g], i, j)
  PROVE  LET c  == CutAt(m, At(ls[g], g, i - 1), At(ls[g], g, j))
             l1 == [ls EXCEPT ![g] = t]
         IN Good(c, l1) /\ Loose(c, l1, r)
<1> DEFINE s == ls[g]
           x == At(s, g, i - 1)
           y == At(s, g, j)
           c == CutAt(m, x, y)
           l1 == [ls EXCEPT ![g] = t]
           n == Len(s)
           d == j - i
<1>1. /\ m \in Memory /\ ls \in [ListHeads -> Seq(Elems) \cup {NULL}] /\ Apart(ls)
      /\ \A h \in ListHeads : ls[h] # NULL => Linked(m, h, ls[h])
  BY DEF Good
<1>2. /\ s \in Seq(Elems) /\ n \in Nat /\ \A k \in Int : At(s, g, k) \in Nodes
      /\ \A k \in 1..n : At(s, g, k) = s[k] /\ s[k] \in Elems
      /\ At(s, g, 0) = g /\ At(s, g, n + 1) = g
  BY <1>1, LiveType
<1>3. /\ t \in Seq(Elems) /\ r \in Seq(Elems) /\ Len(t) = n - d /\ Len(r) = d
      /\ \A q \in 1..Len(t) : t[q] = IF q < i THEN s[q] ELSE s[q + d]
      /\ \A q \in 1..Len(r) : r[q] = s[i + q - 1]
  BY DEF IsCut
<1>4. i \in Nat /\ j \in Nat /\ 1 <= i /\ i < j /\ j <= n + 1 /\ d \in Nat /\ d # 0
      /\ i + d = j
  BY <1>2
<1>5. x \in Nodes /\ y \in Nodes
  BY <1>2, <1>4
<1>6. /\ c \in Memory
      /\ \A z \in Nodes : /\ c.next[z] = IF z = x THEN y ELSE m.next[z]
                          /\ c.prev[z] = IF z = y THEN x ELSE m.prev[z]
  BY <1>1, <1>5, CutMemory
<1>7. l1 \in [ListHeads -> Seq(Elems) \cup {NULL}] /\ l1[g] = t
      /\ \A h \in ListHeads : h # g => l1[h] = ls[h]
  BY <1>1, <1>3
<1>8. /\ \A k, l \in 0..n : At(s, g, k) = At(s, g, l) => k = l
      /\ \A k, l \in 1..(n + 1) : At(s, g, k) = At(s, g, l) => k = l
  BY <1>1, AtSame
<1> HIDE DEF s, x, y, c, l1, n, d
<1>9. \A k \in 0..(Len(t) + 1) :
          At(t, g, k) = IF k < i THEN At(s, g, k) ELSE At(s, g, k + d)
  <2> SUFFICES ASSUME NEW k \in 0..(Len(t) + 1)
               PROVE  At(t, g, k) = IF k < i THEN At(s, g, k) ELSE At(s, g, k + d)
    OBVIOUS
  <2>1. k \in Nat /\ k <= n - d + 1
    BY <1>2, <1>3, <1>4
  <2>2. CASE k \in 1..Len(t) /\ k < i
    <3>1. k \in 1..n
      BY <1>2, <1>3, <1>4, <2>1, <2>2
    <3>2. At(t, g, k) = s[k]
      BY <1>3, <2>2 DEF At
    <3> QED
      BY <1>2, <2>2, <3>1, <3>2
  <2>3. CASE k \in 1..Len(t) /\ ~(k < i)
    <3>1. k + d \in 1..n
      BY <1>2, <1>3, <1>4, <2>1, <2>3
    <3>2. At(t, g, k) = s[k + d]
      BY <1>3, <2>3 DEF At
    <3> QED
      BY <1>2, <2>3, <3>1, <3>2
  <2>4. CASE k = 0
    BY <1>2, <1>4, <2>4 DEF At
  <2>5. CASE k = Len(t) + 1
    <3>1. ~(k < i) /\ k + d = n + 1 /\ k \notin 1..Len(t)
      BY <1>2, <1>3, <1>4, <2>5
    <3> QED
      BY <1>2, <3>1 DEF At
  <2> QED
    BY <1>2, <1>3, <1>4, <2>1, <2>2, <2>3, <2>4, <2>5
<1>10. \A k \in 0..n : m.next[At(s, g, k)] = At(s, g, k + 1)
                       /\ m.prev[At(s, g, k + 1)] = At(s, g, k)
  BY <1>1 DEF Linked, s, n
<1>11. Linked(c, g, t)
  <2> SUFFICES ASSUME NEW k \in 0..Len(t)
               PROVE  /\ c.next[At(t, g, k)] = At(t, g, k + 1)
                      /\ c.prev[At(t, g, k + 1)] = At(t, g, k)
    BY DEF Linked
  <2>1. k \in Nat /\ k <= n - d
    BY <1>2, <1>3, <1>4
  <2>2. CASE k < i - 1
    <3>1. At(t, g, k) = At(s, g, k) /\ At(t, g, k + 1) = At(s, g, k + 1)
      <4>1. At(t, g, k) = At(s, g, k)
        BY <1>3, <1>4, <1>9, <2>1, <2>2
      <4>2. At(t, g, k + 1) = At(s, g, k + 1)
        BY <1>3, <1>4, <1>9, <2>1, <2>2
      <4> QED
        BY <4>1, <4>2
    <3>2. At(s, g, k) # x
      BY <1>2, <1>4, <1>8, <2>1, <2>2 DEF x
    <3>3. At(s, g, k + 1) # y
      BY <1>2, <1>4, <1>8, <2>1, <2>2 DEF y
    <3>4. At(s, g, k) \in Nodes /\ At(s, g, k + 1) \in Nodes /\ k \in 0..n
      BY <1>2, <1>4, <2>1
    <3> QED
      BY <1>6, <1>10, <3>1, <3>2, <3>3, <3>4
  <2>3. CASE k = i - 1
    <3>1. At(t, g, k) = x
      BY <1>3, <1>4, <1>9, <2>1, <2>3 DEF x
    <3>2. At(t, g, k + 1) = At(s, g, k + 1 + d) /\ k + 1 + d = j
      BY <1>3, <1>4, <1>9, <2>1, <2>3
    <3>3. At(t, g, k + 1) = y
      BY <3>2 DEF y
    <3> QED
      BY <1>5, <1>6, <3>1, <3>3
  <2>4. CASE k > i - 1
    <3>1. At(t, g, k) = At(s, g, k + d) /\ At(t, g, k + 1) = At(s, g, k + d + 1)
      <4>1. At(t, g, k) = At(s, g, k + d)
        BY <1>3, <1>4, <1>9, <2>1, <2>4
      <4>2. At(t, g, k + 1) = At(s, g, k + 1 + d) /\ k + 1 + d = k + d + 1
        BY <1>3, <1>4, <1>9, <2>1, <2>4
      <4> QED
        BY <4>1, <4>2
    <3>2. At(s, g, k + d) # x
      BY <1>2, <1>4, <1>8, <2>1, <2>4 DEF x
    <3>3. At(s, g, k + d + 1) # y
      BY <1>2, <1>4, <1>8, <2>1, <2>4 DEF y
    <3>4. At(s, g, k + d) \in Nodes /\ At(s, g, k + d + 1) \in Nodes /\ k + d \in 0..n
      BY <1>2, <1>4, <2>1
    <3> QED
      BY <1>6, <1>10, <3>1, <3>2, <3>3, <3>4
  <2> QED
    BY <1>4, <2>1, <2>2, <2>3, <2>4
<1>12. ASSUME NEW h \in ListHeads, h # g, ls[h] # NULL
       PROVE  Linked(c, h, ls[h])
  <2> SUFFICES ASSUME NEW k \in 0..Len(ls[h])
               PROVE  /\ c.next[At(ls[h], h, k)] = At(ls[h], h, k + 1)
                      /\ c.prev[At(ls[h], h, k + 1)] = At(ls[h], h, k)
    BY DEF Linked
  <2>1. /\ m.next[At(ls[h], h, k)] = At(ls[h], h, k + 1)
        /\ m.prev[At(ls[h], h, k + 1)] = At(ls[h], h, k)
    BY <1>1, <1>12 DEF Linked
  <2>2. /\ At(ls[h], h, k) \in Nodes /\ At(ls[h], h, k + 1) \in Nodes
        /\ k + 1 \in 1..(Len(ls[h]) + 1) /\ Len(ls[h]) \in Nat
    BY <1>1, <1>12, LiveType
  <2>3. At(ls[h], h, k) # x
    <3>1. i - 1 \in 0..Len(ls[g])
      BY <1>2, <1>4 DEF s, n
    <3> QED
      BY <1>1, <1>12, <3>1, AtSame DEF x, s
  <2>4. At(ls[h], h, k + 1) # y
    <3>1. j \in 1..(Len(ls[g]) + 1)
      BY <1>2, <1>4 DEF s, n
    <3> QED
      BY <1>1, <1>12, <2>2, <3>1, AtSame DEF y, s
  <2> QED
    BY <1>6, <2>1, <2>2, <2>3, <2>4
<1>13. ASSUME NEW q \in 1..Len(t)
       PROVE  \E p \in 1..n : /\ t[q] = s[p] /\ p \notin i..(j - 1)
                              /\ p = IF q < i THEN q ELSE q + d
  BY <1>2, <1>3, <1>4
<1>14. ASSUME NEW q \in 1..Len(r)
       PROVE  /\ i + q - 1 \in 1..n /\ i + q - 1 \in i..(j - 1)
              /\ r[q] = s[i + q - 1]
  BY <1>2, <1>3, <1>4
<1>15. ASSUME NEW h \in ListHeads, h # g, ls[h] # NULL, NEW p \in 1..n,
              NEW l \in 1..Len(ls[h])
       PROVE  s[p] # ls[h][l]
  BY <1>1, <1>15 DEF Apart, s, n
<1>16. \A p, q \in 1..n : s[p] = s[q] => p = q
  BY <1>1 DEF Apart, s, n
<1>17. Apart(l1)
  <2> SUFFICES ASSUME NEW f \in ListHeads, NEW h \in ListHeads, l1[f] # NULL,
                      l1[h] # NULL, NEW k \in 1..Len(l1[f]), NEW l \in 1..Len(l1[h]),
                      l1[f][k] = l1[h][l]
               PROVE  f = h /\ k = l
    BY DEF Apart
  <2>1. CASE f = g /\ h = g
    <3>1. k \in 1..Len(t) /\ l \in 1..Len(t) /\ t[k] = t[l]
      BY <1>7, <2>1
    <3>2. PICK p \in 1..n : t[k] = s[p] /\ p = IF k < i THEN k ELSE k + d
      BY <1>13, <3>1
    <3>3. PICK q \in 1..n : t[l] = s[q] /\ q = IF l < i THEN l ELSE l + d
      BY <1>13, <3>1
    <3>4. p = q
      BY <1>16, <3>1, <3>2, <3>3
    <3> QED
      BY <1>4, <2>1, <3>1, <3>2, <3>3, <3>4
  <2>2. CASE f = g /\ h # g
    <3>1. k \in 1..Len(t) /\ l \in 1..Len(ls[h]) /\ t[k] = ls[h][l] /\ ls[h] # NULL
      BY <1>7, <2>2
    <3> QED
      BY <1>13, <1>15, <2>2, <3>1
  <2>3. CASE f # g /\ h = g
    <3>1. l \in 1..Len(t) /\ k \in 1..Len(ls[f]) /\ t[l] = ls[f][k] /\ ls[f] # NULL
      BY <1>7, <2>3
    <3> QED
      BY <1>13, <1>15, <2>3, <3>1
  <2>4. CASE f # g /\ h # g
    BY <1>1, <1>7, <2>4 DEF Apart
  <2> QED
    BY <2>1, <2>2, <2>3, <2>4
<1>18. Good(c, l1)
  BY <1>6, <1>7, <1>11, <1>12, <1>17 DEF Good
<1>19. Loose(c, l1, r)
  <2>1. r \in Seq(Elems) /\ Len(r) # 0
    BY <1>3, <1>4
  <2>2. \A k, l \in 1..Len(r) : r[k] = r[l] => k = l
    <3> SUFFICES ASSUME NEW k \in 1..Len(r), NEW l \in 1..Len(r), r[k] = r[l]
                 PROVE  k = l
      OBVIOUS
    <3>1. i + k - 1 \in 1..n /\ r[k] = s[i + k - 1]
      BY <1>14
    <3>2. i + l - 1 \in 1..n /\ r[l] = s[i + l - 1]
      BY <1>14
    <3>3. i + k - 1 = i + l - 1
      BY <1>16, <3>1, <3>2
    <3> QED
      BY <1>3, <1>4, <3>3
  <2>3. ASSUME NEW k \in 1..(Len(r) - 1)
        PROVE  c.next[r[k]] = r[k + 1] /\ c.prev[r[k + 1]] = r[k]
    <3> DEFINE p == i + k - 1
    <3>6. k \in Nat /\ 1 <= k /\ k <= d - 1 /\ k \in 1..Len(r) /\ k + 1 \in 1..Len(r)
      BY <1>3, <1>4, <2>3
    <3>1. p \in 1..n /\ p + 1 \in 1..n /\ p + 1 < j /\ p >= i
      BY <1>2, <1>4, <3>6
    <3>7. r[k] = s[p]
      BY <1>14, <3>6
    <3>8. r[k + 1] = s[i + (k + 1) - 1] /\ i + (k + 1) - 1 = p + 1
      BY <1>4, <1>14, <3>6
    <3>2. r[k] = At(s, g, p) /\ r[k + 1] = At(s, g, p + 1)
      BY <1>2, <3>1, <3>7, <3>8
    <3> HIDE DEF p
    <3>3. At(s, g, p) # x
      BY <1>2, <1>4, <1>8, <3>1 DEF x
    <3>4. At(s, g, p + 1) # y
      BY <1>2, <1>4, <1>8, <3>1 DEF y
    <3>5. At(s, g, p) \in Nodes /\ At(s, g, p + 1) \in Nodes /\ p \in 0..n
      BY <1>2, <3>1
    <3> QED
      BY <1>6, <1>10, <3>2, <3>3, <3>4, <3>5
  <2>4. ASSUME NEW h \in ListHeads, l1[h] # NULL, NEW k \in 1..Len(r),
               NEW l \in 1..Len(l1[h])
        PROVE  r[k] # l1[h][l]
    <3>1. CASE h = g
      <4>1. l \in 1..Len(t) /\ l1[h][l] = t[l]
        BY <1>7, <3>1
      <4> QED
        BY <1>13, <1>14, <1>16, <4>1
    <3>2. CASE h # g
      BY <1>7, <1>14, <1>15, <2>4, <3>2
    <3> QED
      BY <3>1, <3>2
  <2> QED
    BY <2>1, <2>2, <2>3, <2>4 DEF Loose
<1> QED
  BY <1>18, <1>19 DEF c, l1, x, y, s

-----------------------------------------------------------------------------
(* Pasting *)

PasteAt(m, at, before, first, last) ==
    [m EXCEPT !.prev[first] = at, !.next[last] = before,
              !.next[at] = first, !.prev[before] = last]

\* Four pointers are written.
LEMMA PasteMemory ==
  ASSUME NEW m \in Memory, NEW at \in Nodes, NEW before \in Nodes,
         NEW first \in Nodes, NEW last \in Nodes
  PROVE  LET c == PasteAt(m, at, before, first, last) IN
         /\ c \in Memory
         /\ \A z \in Nodes :
               /\ c.next[z] = IF z = at THEN first
                              ELSE IF z = last THEN before ELSE m.next[z]
               /\ c.prev[z] = IF z = before THEN last
                              ELSE IF z = first THEN at ELSE m.prev[z]
<1> DEFINE c == PasteAt(m, at, before, first, last)
<1>1. c \in Memory
  BY DEF PasteAt, Memory, Pointer
<1>2. ASSUME NEW z \in Nodes
      PROVE  c.next[z] = IF z = at THEN first ELSE IF z = last THEN before ELSE m.next[z]
  BY DEF PasteAt, Memory
<1>3. ASSUME NEW z \in Nodes
      PROVE  c.prev[z] = IF z = before THEN last ELSE IF z = first THEN at ELSE m.prev[z]
  BY DEF PasteAt, Memory
<1> QED
  BY <1>1, <1>2, <1>3

\* t is base with the elements of r before the k-th.
IsPaste(t, base, r, k) ==
    /\ t \in Seq(Elems) /\ Len(t) = Len(base) + Len(r)
    /\ \A q \in 1..Len(t) :
           t[q] = IF q < k THEN base[q]
                  ELSE IF q < k + Len(r) THEN r[q - k + 1] ELSE base[q - Len(r)]

\* A loose run that is pasted into a ring makes it a longer one.
LEMMA PasteGood ==
  ASSUME NEW m, NEW ls, NEW r, Good(m, ls), Loose(m, ls, r),
         NEW h \in ListHeads, ls[h] # NULL, NEW k \in 1..(Len(ls[h]) + 1),
         NEW t, IsPaste(t, ls[h], r, k)
  PROVE  Good(PasteAt(m, At(ls[h], h, k - 1), At(ls[h], h, k), r[1], r[Len(r)]),
              [ls EXCEPT ![h] = t])
<1> DEFINE s == ls[h]
           x == At(s, h, k - 1)
           y == At(s, h, k)
           n == Len(s)
           w == Len(r)
           first == r[1]
           last == r[w]
           c == PasteAt(m, x, y, first, last)
           l1 == [ls EXCEPT ![h] = t]
<1>1. /\ m \in Memory /\ ls \in [ListHeads -> Seq(Elems) \cup {NULL}] /\ Apart(ls)
      /\ \A g \in ListHeads : ls[g] # NULL => Linked(m, g, ls[g])
  BY DEF Good
<1>2. /\ s \in Seq(Elems) /\ n \in Nat /\ \A q \in Int : At(s, h, q) \in Nodes
      /\ \A q \in 1..n : At(s, h, q) = s[q] /\ s[q] \in Elems
      /\ At(s, h, 0) = h /\ At(s, h, n + 1) = h
  BY <1>1, LiveType
<1>3. /\ t \in Seq(Elems) /\ Len(t) = n + w
      /\ \A q \in 1..(n + w) : t[q] = IF q < k THEN s[q]
                                      ELSE IF q < k + w THEN r[q - k + 1] ELSE s[q - w]
  BY DEF IsPaste
<1>4. /\ r \in Seq(Elems) /\ w # 0
      /\ \A p, l \in 1..w : r[p] = r[l] => p = l
      /\ \A p \in 1..(w - 1) : m.next[r[p]] = r[p + 1] /\ m.prev[r[p + 1]] = r[p]
      /\ \A g \in ListHeads : ls[g] # NULL =>
             \A p \in 1..w, l \in 1..Len(ls[g]) : r[p] # ls[g][l]
  BY DEF Loose
<1>5. w \in Nat /\ k \in Nat /\ 1 <= w /\ 1 <= k /\ k <= n + 1
  BY <1>2, <1>4, LenProperties
<1>6. \A p \in 1..w : r[p] \in Elems /\ r[p] \in Nodes /\ r[p] \notin ListHeads
  BY <1>4, ListConstants, ElementOfSeq DEF Nodes
<1>7. x \in Nodes /\ y \in Nodes /\ first \in Nodes /\ last \in Nodes
  BY <1>2, <1>5, <1>6
<1>8. /\ c \in Memory
      /\ \A z \in Nodes :
            /\ c.next[z] = IF z = x THEN first ELSE IF z = last THEN y ELSE m.next[z]
            /\ c.prev[z] = IF z = y THEN last ELSE IF z = first THEN x ELSE m.prev[z]
  <2> HIDE DEF x, y, first, last
  <2> QED
    BY <1>1, <1>7, PasteMemory
<1>9. l1 \in [ListHeads -> Seq(Elems) \cup {NULL}] /\ l1[h] = t
      /\ \A g \in ListHeads : g # h => l1[g] = ls[g]
  BY <1>1, <1>3
<1>10. /\ \A q, l \in 0..n : At(s, h, q) = At(s, h, l) => q = l
       /\ \A q, l \in 1..(n + 1) : At(s, h, q) = At(s, h, l) => q = l
  BY <1>1, AtSame
<1> HIDE DEF s, x, y, c, l1, n, w, first, last
<1>11. ASSUME NEW g \in ListHeads, ls[g] # NULL, NEW q \in 0..(Len(ls[g]) + 1),
              NEW p \in 1..w
       PROVE  At(ls[g], g, q) # r[p]
  BY <1>4, <1>6, <1>11 DEF At
<1>12. \A q \in 0..(n + w + 1) :
           At(t, h, q) = IF q < k THEN At(s, h, q)
                         ELSE IF q < k + w THEN r[q - k + 1] ELSE At(s, h, q - w)
  BY <1>2, <1>3, <1>5 DEF At, n
<1>13. \A q \in 0..n : m.next[At(s, h, q)] = At(s, h, q + 1)
                       /\ m.prev[At(s, h, q + 1)] = At(s, h, q)
  BY <1>1 DEF Linked, s, n
<1>14. \A q \in 0..(n + 1), p \in 1..w : At(s, h, q) # r[p]
  BY <1>11 DEF s, n
<1>15. \A p \in 1..w : (r[p] = first <=> p = 1) /\ (r[p] = last <=> p = w)
  BY <1>4, <1>5 DEF first, last
<1>16. ASSUME NEW q \in 0..n, q # k - 1
       PROVE  /\ c.next[At(s, h, q)] = At(s, h, q + 1)
              /\ c.prev[At(s, h, q + 1)] = At(s, h, q)
  <2>1. At(s, h, q) \in Nodes /\ At(s, h, q + 1) \in Nodes
    BY <1>2
  <2>2. At(s, h, q) # x
    BY <1>2, <1>5, <1>10, <1>16 DEF x
  <2>3. At(s, h, q + 1) # y
    BY <1>2, <1>5, <1>10, <1>16 DEF y
  <2>4. At(s, h, q) # last
    BY <1>2, <1>5, <1>14 DEF last
  <2>5. At(s, h, q + 1) # first
    BY <1>2, <1>5, <1>14 DEF first
  <2> QED
    BY <1>8, <1>13, <2>1, <2>2, <2>3, <2>4, <2>5
<1>17. x # last /\ x # first /\ y # first /\ y # last
  BY <1>2, <1>5, <1>14 DEF x, y, first, last
<1>18. c.next[x] = first /\ c.prev[first] = x /\ c.next[last] = y /\ c.prev[y] = last
  BY <1>7, <1>8, <1>17
<1>19. ASSUME NEW p \in 1..(w - 1)
       PROVE  c.next[r[p]] = r[p + 1] /\ c.prev[r[p + 1]] = r[p]
  <2>1. p \in 1..w /\ p + 1 \in 1..w /\ p # w /\ p + 1 # 1
    BY <1>5
  <2>2. r[p] \in Nodes /\ r[p + 1] \in Nodes /\ r[p] # last /\ r[p + 1] # first
    BY <1>6, <1>15, <2>1
  <2>3. r[p] # x /\ r[p + 1] # y
    BY <1>2, <1>5, <1>14, <2>1 DEF x, y
  <2> QED
    BY <1>4, <1>8, <2>2, <2>3
<1>20. Linked(c, h, t)
  <2> SUFFICES ASSUME NEW q \in 0..Len(t)
               PROVE  /\ c.next[At(t, h, q)] = At(t, h, q + 1)
                      /\ c.prev[At(t, h, q + 1)] = At(t, h, q)
    BY DEF Linked
  <2>1. /\ q \in Nat /\ q <= n + w
        /\ q \in 0..(n + w + 1) /\ q + 1 \in 0..(n + w + 1)
    BY <1>2, <1>3, <1>5
  <2>2. CASE q < k - 1
    <3>1. At(t, h, q) = At(s, h, q)
      BY <1>5, <1>12, <2>1, <2>2
    <3>2. At(t, h, q + 1) = At(s, h, q + 1)
      BY <1>5, <1>12, <2>1, <2>2
    <3>3. q \in 0..n /\ q # k - 1
      BY <1>2, <1>5, <2>1, <2>2
    <3> QED
      BY <1>16, <3>1, <3>2, <3>3
  <2>3. CASE q = k - 1
    <3>1. At(t, h, q) = x
      BY <1>5, <1>12, <2>1, <2>3 DEF x
    <3>2. At(t, h, q + 1) = r[(q + 1) - k + 1] /\ (q + 1) - k + 1 = 1
      BY <1>5, <1>12, <2>1, <2>3
    <3> QED
      BY <1>18, <3>1, <3>2 DEF first
  <2>4. CASE k - 1 < q /\ q < k + w - 1
    <3>1. At(t, h, q) = r[q - k + 1]
      BY <1>5, <1>12, <2>1, <2>4
    <3>2. At(t, h, q + 1) = r[(q + 1) - k + 1] /\ (q + 1) - k + 1 = (q - k + 1) + 1
      BY <1>5, <1>12, <2>1, <2>4
    <3>3. q - k + 1 \in 1..(w - 1)
      BY <1>5, <2>1, <2>4
    <3> QED
      BY <1>19, <3>1, <3>2, <3>3
  <2>5. CASE q = k + w - 1
    <3>1. At(t, h, q) = r[q - k + 1] /\ q - k + 1 = w
      BY <1>5, <1>12, <2>1, <2>5
    <3>2. At(t, h, q + 1) = At(s, h, (q + 1) - w) /\ (q + 1) - w = k
      BY <1>5, <1>12, <2>1, <2>5
    <3> QED
      BY <1>18, <3>1, <3>2 DEF last, y
  <2>6. CASE q > k + w - 1
    <3>1. At(t, h, q) = At(s, h, q - w)
      BY <1>5, <1>12, <2>1, <2>6
    <3>2. At(t, h, q + 1) = At(s, h, (q + 1) - w) /\ (q + 1) - w = (q - w) + 1
      BY <1>5, <1>12, <2>1, <2>6
    <3>3. q - w \in 0..n /\ q - w # k - 1
      BY <1>2, <1>5, <2>1, <2>6
    <3> QED
      BY <1>16, <3>1, <3>2, <3>3
  <2> QED
    BY <1>5, <2>1, <2>2, <2>3, <2>4, <2>5, <2>6
<1>21. ASSUME NEW g \in ListHeads, g # h, ls[g] # NULL
       PROVE  Linked(c, g, ls[g])
  <2> SUFFICES ASSUME NEW q \in 0..Len(ls[g])
               PROVE  /\ c.next[At(ls[g], g, q)] = At(ls[g], g, q + 1)
                      /\ c.prev[At(ls[g], g, q + 1)] = At(ls[g], g, q)
    BY DEF Linked
  <2>1. /\ m.next[At(ls[g], g, q)] = At(ls[g], g, q + 1)
        /\ m.prev[At(ls[g], g, q + 1)] = At(ls[g], g, q)
    BY <1>1, <1>21 DEF Linked
  <2>2. /\ At(ls[g], g, q) \in Nodes /\ At(ls[g], g, q + 1) \in Nodes
        /\ q + 1 \in 1..(Len(ls[g]) + 1) /\ Len(ls[g]) \in Nat
    BY <1>1, <1>21, LiveType
  <2>3. At(ls[g], g, q) # x
    <3>1. k - 1 \in 0..Len(ls[h])
      BY <1>2, <1>5 DEF s, n
    <3> QED
      BY <1>1, <1>21, <3>1, AtSame DEF x, s
  <2>4. At(ls[g], g, q + 1) # y
    BY <1>1, <1>21, <2>2, AtSame DEF y, s
  <2>5. At(ls[g], g, q) # last /\ At(ls[g], g, q + 1) # first
    BY <1>5, <1>11, <1>21, <2>2 DEF first, last
  <2> QED
    BY <1>8, <2>1, <2>2, <2>3, <2>4, <2>5
<1>22. ASSUME NEW q \in 1..Len(t)
       PROVE  \/ \E p \in 1..n : \/ t[q] = s[p] /\ q < k /\ p = q
                                 \/ t[q] = s[p] /\ p >= k /\ p = q - w
              \/ q - k + 1 \in 1..w /\ t[q] = r[q - k + 1]
  <2>1. q \in Nat /\ q \in 1..(n + w)
    BY <1>3
  <2>2. CASE q < k
    <3>1. q \in 1..n /\ t[q] = s[q]
      BY <1>2, <1>3, <1>5, <2>1, <2>2
    <3> QED
      BY <2>2, <3>1
  <2>3. CASE k <= q /\ q < k + w
    BY <1>3, <1>5, <2>1, <2>3
  <2>4. CASE k + w <= q
    <3>1. q - w \in 1..n /\ q - w >= k /\ t[q] = s[q - w]
      BY <1>2, <1>3, <1>5, <2>1, <2>4
    <3> QED
      BY <3>1
  <2> QED
    BY <1>5, <2>1, <2>2, <2>3, <2>4
<1>23. Apart(l1)
  <2> SUFFICES ASSUME NEW f \in ListHeads, NEW g \in ListHeads, l1[f] # NULL,
                      l1[g] # NULL, NEW p \in 1..Len(l1[f]), NEW l \in 1..Len(l1[g]),
                      l1[f][p] = l1[g][l]
               PROVE  f = g /\ p = l
    BY DEF Apart
  <2>10. ASSUME NEW g0 \in ListHeads, g0 # h, ls[g0] # NULL, NEW p0 \in 1..Len(t),
                NEW l0 \in 1..Len(ls[g0])
         PROVE  t[p0] # ls[g0][l0]
    <3>1. \A q \in 1..n : s[q] # ls[g0][l0]
      BY <1>1, <2>10 DEF Apart, s, n
    <3>2. \A q \in 1..w : r[q] # ls[g0][l0]
      BY <1>4, <2>10
    <3> QED
      BY <1>22, <3>1, <3>2
  <2>1. CASE f = h /\ g = h
    <3>1. p \in 1..Len(t) /\ l \in 1..Len(t) /\ t[p] = t[l]
      BY <1>9, <2>1
    <3>2. \A u, v \in 1..n : s[u] = s[v] => u = v
      BY <1>1 DEF Apart, s, n
    <3>3. \A u \in 1..n, v \in 1..w : s[u] # r[v]
      BY <1>4 DEF s, n
    <3>4. p \in Nat /\ l \in Nat
      BY <3>1
    <3>5. CASE /\ p - k + 1 \in 1..w /\ t[p] = r[p - k + 1]
               /\ l - k + 1 \in 1..w /\ t[l] = r[l - k + 1]
      <4>1. p - k + 1 = l - k + 1
        BY <1>4, <3>1, <3>5
      <4> QED
        BY <1>5, <2>1, <3>4, <4>1
    <3>6. CASE /\ \E u \in 1..n : \/ t[p] = s[u] /\ p < k /\ u = p
                                  \/ t[p] = s[u] /\ u >= k /\ u = p - w
               /\ \E v \in 1..n : \/ t[l] = s[v] /\ l < k /\ v = l
                                  \/ t[l] = s[v] /\ v >= k /\ v = l - w
      <4>1. PICK u \in 1..n : \/ t[p] = s[u] /\ p < k /\ u = p
                              \/ t[p] = s[u] /\ u >= k /\ u = p - w
        BY <3>6
      <4>2. PICK v \in 1..n : \/ t[l] = s[v] /\ l < k /\ v = l
                              \/ t[l] = s[v] /\ v >= k /\ v = l - w
        BY <3>6
      <4>3. u = v
        BY <3>1, <3>2, <4>1, <4>2
      <4>4. p = l
        BY <1>5, <3>4, <4>1, <4>2, <4>3
      <4> QED
        BY <2>1, <4>4
    <3> QED
      BY <1>22, <3>1, <3>3, <3>5, <3>6
  <2>2. CASE f = h /\ g # h
    BY <1>9, <2>2, <2>10
  <2>3. CASE f # h /\ g = h
    BY <1>9, <2>3, <2>10
  <2>4. CASE f # h /\ g # h
    BY <1>1, <1>9, <2>4 DEF Apart
  <2> QED
    BY <2>1, <2>2, <2>3, <2>4
<1>24. Good(c, l1)
  BY <1>8, <1>9, <1>20, <1>21, <1>23 DEF Good
<1> QED
  BY <1>24 DEF c, l1, x, y, s, first, last, w

-----------------------------------------------------------------------------
(* Heads, and nodes that are in no ring *)

\* z is in no ring.
Away(ls, z) ==
    /\ z \in ListHeads => ls[z] = NULL
    /\ \A h \in ListHeads : ls[h] # NULL => \A k \in 1..Len(ls[h]) : ls[h][k] # z

\* What is written into a node that is in no ring does not matter.
LEMMA WriteGood ==
  ASSUME NEW m, NEW ls, Good(m, ls), NEW z \in Nodes, Away(ls, z), NEW c \in Memory,
         \A y \in Nodes : y # z => c.next[y] = m.next[y] /\ c.prev[y] = m.prev[y]
  PROVE  Good(c, ls)
<1>1. /\ m \in Memory /\ ls \in [ListHeads -> Seq(Elems) \cup {NULL}] /\ Apart(ls)
      /\ \A h \in ListHeads : ls[h] # NULL => Linked(m, h, ls[h])
  BY DEF Good
<1>2. ASSUME NEW h \in ListHeads, ls[h] # NULL
      PROVE  Linked(c, h, ls[h])
  <2> SUFFICES ASSUME NEW k \in 0..Len(ls[h])
               PROVE  /\ c.next[At(ls[h], h, k)] = At(ls[h], h, k + 1)
                      /\ c.prev[At(ls[h], h, k + 1)] = At(ls[h], h, k)
    BY DEF Linked
  <2>1. /\ m.next[At(ls[h], h, k)] = At(ls[h], h, k + 1)
        /\ m.prev[At(ls[h], h, k + 1)] = At(ls[h], h, k)
    BY <1>1, <1>2 DEF Linked
  <2>2. Len(ls[h]) \in Nat /\ At(ls[h], h, k) \in Nodes /\ At(ls[h], h, k + 1) \in Nodes
    BY <1>1, <1>2, LiveType
  <2>3. At(ls[h], h, k) # z /\ At(ls[h], h, k + 1) # z
    BY <1>2, <2>2 DEF Away, At
  <2> QED
    BY <2>1, <2>2, <2>3
<1> QED
  BY <1>1, <1>2 DEF Good

\* A list with its ring comes into use.
LEMMA StartGood ==
  ASSUME NEW m, NEW ls, Good(m, ls), NEW h \in ListHeads, ls[h] = NULL, Linked(m, h, <<>>)
  PROVE  Good(m, [ls EXCEPT ![h] = <<>>])
<1> DEFINE l1 == [ls EXCEPT ![h] = <<>>]
<1>1. /\ m \in Memory /\ ls \in [ListHeads -> Seq(Elems) \cup {NULL}] /\ Apart(ls)
      /\ \A g \in ListHeads : ls[g] # NULL => Linked(m, g, ls[g])
  BY DEF Good
<1>2. /\ l1 \in [ListHeads -> Seq(Elems) \cup {NULL}] /\ l1[h] = <<>>
      /\ \A g \in ListHeads : g # h => l1[g] = ls[g]
  BY <1>1
<1> HIDE DEF l1
<1>3. Apart(l1)
  <2> SUFFICES ASSUME NEW f \in ListHeads, NEW g \in ListHeads, l1[f] # NULL,
                      l1[g] # NULL, NEW k \in 1..Len(l1[f]), NEW l \in 1..Len(l1[g]),
                      l1[f][k] = l1[g][l]
               PROVE  f = g /\ k = l
    BY DEF Apart
  <2>1. f # h /\ g # h
    BY <1>2
  <2> QED
    BY <1>1, <1>2, <2>1 DEF Apart
<1>4. ASSUME NEW g \in ListHeads, l1[g] # NULL
      PROVE  Linked(m, g, l1[g])
  BY <1>1, <1>2, <1>4
<1>5. Good(m, l1)
  BY <1>1, <1>2, <1>3, <1>4 DEF Good
<1> QED
  BY <1>5 DEF l1

\* A head goes out of use.
LEMMA DropGood ==
  ASSUME NEW m, NEW ls, Good(m, ls), NEW h \in ListHeads
  PROVE  Good(m, [ls EXCEPT ![h] = NULL])
<1> DEFINE l1 == [ls EXCEPT ![h] = NULL]
<1>1. /\ m \in Memory /\ ls \in [ListHeads -> Seq(Elems) \cup {NULL}] /\ Apart(ls)
      /\ \A g \in ListHeads : ls[g] # NULL => Linked(m, g, ls[g])
  BY DEF Good
<1>2. /\ l1 \in [ListHeads -> Seq(Elems) \cup {NULL}] /\ l1[h] = NULL
      /\ \A g \in ListHeads : g # h => l1[g] = ls[g]
  BY <1>1
<1> HIDE DEF l1
<1>3. \A g \in ListHeads : l1[g] # NULL => l1[g] = ls[g]
  BY <1>2
<1>4. Apart(l1)
  BY <1>1, <1>3 DEF Apart
<1>5. Good(m, l1)
  BY <1>1, <1>2, <1>3, <1>4 DEF Good
<1> QED
  BY <1>5 DEF l1

\* Memories with the same pointers are the same.
LEMMA SameMemory ==
  ASSUME NEW c \in Memory, NEW m \in Memory,
         \A z \in Nodes : c.next[z] = m.next[z] /\ c.prev[z] = m.prev[z]
  PROVE  c = m
<1>1. c.next = m.next /\ c.prev = m.prev
  BY DEF Memory
<1> QED
  BY <1>1 DEF Memory

-----------------------------------------------------------------------------
(* The functions of list.h *)

\* An element is away from the lists if it is a loose run of its own.
LEMMA LooseOne ==
  ASSUME NEW m, NEW ls, NEW e \in Elems, Away(ls, e)
  PROVE  Loose(m, ls, <<e>>)
BY DEF Loose, Away

\* An element of a loose run is away from the lists.
LEMMA LooseAway ==
  ASSUME NEW m, NEW ls, NEW r, Loose(m, ls, r), NEW k \in 1..Len(r)
  PROVE  Away(ls, r[k]) /\ r[k] \in Nodes
<1>1. r[k] \in Elems
  BY ElementOfSeq DEF Loose
<1> QED
  BY <1>1, ListConstants DEF Loose, Away, Nodes

\* list_poison() writes into its node alone.
LEMMA PoisonGood ==
  ASSUME NEW m, NEW ls, Good(m, ls), NEW z \in Nodes, Away(ls, z)
  PROVE  Good(List!list_poison(m, z), ls)
<1>1. m \in Memory
  BY DEF Good
<1>2. List!list_poison(m, z) \in Memory
  BY <1>1 DEF List!list_poison, Memory, Pointer
<1>3. \A y \in Nodes : y # z => /\ List!list_poison(m, z).next[y] = m.next[y]
                                /\ List!list_poison(m, z).prev[y] = m.prev[y]
  BY <1>1 DEF List!list_poison, Memory
<1> QED
  BY <1>2, <1>3, WriteGood

\* list_init() makes an empty ring.
LEMMA InitGood ==
  ASSUME NEW m, NEW ls, Good(m, ls), NEW h \in ListHeads, ls[h] = NULL
  PROVE  Good(List!list_init(m, h), [ls EXCEPT ![h] = <<>>])
<1> DEFINE c == List!list_init(m, h)
<1>1. m \in Memory /\ ls \in [ListHeads -> Seq(Elems) \cup {NULL}] /\ h \in Nodes
  BY DEF Good, Nodes
<1>2. Away(ls, h)
  <2>1. ASSUME NEW g \in ListHeads, ls[g] # NULL, NEW k \in 1..Len(ls[g])
        PROVE  ls[g][k] # h
    <3>1. ls[g][k] \in Elems
      BY <1>1, <2>1, LiveType
    <3> QED
      BY <3>1, ListConstants
  <2> QED
    BY <2>1 DEF Away
<1>3. c = CutAt(m, h, h)
  BY DEF List!list_init, CutAt
<1>4. /\ c \in Memory
      /\ \A z \in Nodes : /\ c.next[z] = IF z = h THEN h ELSE m.next[z]
                          /\ c.prev[z] = IF z = h THEN h ELSE m.prev[z]
  BY <1>1, <1>3, CutMemory
<1> HIDE DEF c
<1>5. Good(c, ls)
  BY <1>1, <1>2, <1>4, WriteGood
<1>6. Linked(c, h, <<>>)
  <2>1. \A k \in 0..Len(<<>>) : At(<<>>, h, k) = h /\ At(<<>>, h, k + 1) = h
    BY DEF At
  <2> QED
    BY <1>1, <1>4, <2>1 DEF Linked
<1>7. Good(c, [ls EXCEPT ![h] = <<>>])
  BY <1>5, <1>6, StartGood
<1> QED
  BY <1>7 DEF c

\* The pointers of the nodes of a ring.
LEMMA RingPointers ==
  ASSUME NEW m, NEW ls, Good(m, ls), NEW h \in ListHeads, ls[h] # NULL
  PROVE  /\ ls[h] \in Seq(Elems) /\ Len(ls[h]) \in Nat
         /\ \A k \in 0..Len(ls[h]) : m.next[At(ls[h], h, k)] = At(ls[h], h, k + 1)
         /\ \A k \in 1..(Len(ls[h]) + 1) : m.prev[At(ls[h], h, k)] = At(ls[h], h, k - 1)
<1>1. ls[h] \in Seq(Elems) /\ Len(ls[h]) \in Nat /\ Linked(m, h, ls[h])
  BY LiveType DEF Good
<1>2. ASSUME NEW k \in 1..(Len(ls[h]) + 1)
      PROVE  m.prev[At(ls[h], h, k)] = At(ls[h], h, k - 1)
  <2>1. k - 1 \in 0..Len(ls[h]) /\ (k - 1) + 1 = k
    BY <1>1
  <2> QED
    BY <1>1, <2>1 DEF Linked
<1> QED
  BY <1>1, <1>2 DEF Linked

\* list_insert() pastes one element.
LEMMA InsertGood ==
  ASSUME NEW m, NEW ls, Good(m, ls), NEW e \in Elems, Away(ls, e),
         NEW h \in ListHeads, ls[h] # NULL, NEW k \in 1..(Len(ls[h]) + 1),
         NEW t, IsPaste(t, ls[h], <<e>>, k)
  PROVE  Good(List!list_insert(m, At(ls[h], h, k), e), [ls EXCEPT ![h] = t])
<1> DEFINE y == At(ls[h], h, k)
           x == At(ls[h], h, k - 1)
<1>1. m.prev[y] = x
  BY RingPointers
<1>2. List!list_insert(m, y, e) = PasteAt(m, x, y, e, e)
  BY <1>1 DEF List!list_insert, PasteAt
<1>3. Loose(m, ls, <<e>>)
  BY LooseOne
<1>4. Good(PasteAt(m, x, y, <<e>>[1], <<e>>[Len(<<e>>)]), [ls EXCEPT ![h] = t])
  BY <1>3, PasteGood
<1> QED
  BY <1>2, <1>4

\* list_remove() cuts one element.
LEMMA RemoveGood ==
  ASSUME NEW m, NEW ls, Good(m, ls), NEW h \in ListHeads, ls[h] # NULL,
         NEW i \in 1..Len(ls[h]), NEW t, IsCut(t, <<ls[h][i]>>, ls[h], i, i + 1)
  PROVE  Good(List!list_poison(List!list_remove(m, ls[h][i]), ls[h][i]),
              [ls EXCEPT ![h] = t])
<1> DEFINE e == ls[h][i]
           x == At(ls[h], h, i - 1)
           y == At(ls[h], h, i + 1)
           c == List!list_remove(m, e)
           l1 == [ls EXCEPT ![h] = t]
<1>1. Len(ls[h]) \in Nat /\ e = At(ls[h], h, i) /\ i \in 0..Len(ls[h])
      /\ i \in 1..(Len(ls[h]) + 1) /\ i + 1 \in (i + 1)..(Len(ls[h]) + 1)
  BY RingPointers DEF At
<1>2. m.prev[e] = x /\ m.next[e] = y
  BY <1>1, RingPointers
<1>3. c = CutAt(m, x, y)
  BY <1>2 DEF List!list_remove, CutAt
<1>4. Good(c, l1) /\ Loose(c, l1, <<e>>)
  <2>1. i + 1 \in (i + 1)..(Len(ls[h]) + 1)
    BY <1>1
  <2>2. Good(CutAt(m, x, y), l1) /\ Loose(CutAt(m, x, y), l1, <<e>>)
    BY ONLY Good(m, ls), h \in ListHeads, ls[h] # NULL, i \in 1..Len(ls[h]), <2>1,
            IsCut(t, <<e>>, ls[h], i, i + 1), CutGood
  <2> QED
    BY <1>3, <2>2
<1>5. Away(l1, e) /\ e \in Nodes
  <2>1. 1 \in 1..Len(<<e>>) /\ <<e>>[1] = e
    OBVIOUS
  <2> HIDE DEF l1, e, c
  <2> QED
    BY <1>4, <2>1, LooseAway
<1>6. Good(List!list_poison(c, e), l1)
  BY <1>4, <1>5, PoisonGood
<1> QED
  BY <1>6

\* list_replace() writes what a cut of the old element and a paste of the new one write.
LEMMA ReplaceIsCutAndPaste ==
  ASSUME NEW m \in Memory, NEW e \in Nodes, NEW o \in Nodes,
         NEW x \in Nodes, NEW y \in Nodes,
         m.prev[o] = x, m.next[o] = y, e # x, e # y
  PROVE  List!list_replace(m, e, o) = PasteAt(CutAt(m, x, y), x, y, e, e)
<1> DEFINE p == PasteAt(CutAt(m, x, y), x, y, e, e)
           w == List!list_replace(m, e, o)
<1>1. w \in Memory /\ p \in Memory
  BY DEF List!list_replace, PasteAt, CutAt, Memory, Pointer
<1>2. \A n \in Nodes : w.next[n] = p.next[n]
  BY DEF List!list_replace, PasteAt, CutAt, Memory
<1>3. \A n \in Nodes : w.prev[n] = p.prev[n]
  BY DEF List!list_replace, PasteAt, CutAt, Memory
<1> HIDE DEF p, w
<1>4. w.next = p.next /\ w.prev = p.prev
  BY <1>1, <1>2, <1>3 DEF Memory
<1> QED
  BY <1>1, <1>4 DEF p, w, Memory

\* list_replace() cuts one element and pastes another at its place.
LEMMA ReplaceGood ==
  ASSUME NEW m, NEW ls, Good(m, ls), NEW h \in ListHeads, ls[h] # NULL,
         NEW i \in 1..Len(ls[h]), NEW e \in Elems, Away(ls, e),
         NEW t, IsCut(t, <<ls[h][i]>>, ls[h], i, i + 1),
         NEW u, IsPaste(u, t, <<e>>, i)
  PROVE  Good(List!list_poison(List!list_replace(m, e, ls[h][i]), ls[h][i]),
              [ls EXCEPT ![h] = u])
<1> DEFINE s == ls[h]
           o == s[i]
           x == At(s, h, i - 1)
           y == At(s, h, i + 1)
           c == CutAt(m, x, y)
           l1 == [ls EXCEPT ![h] = t]
           p == PasteAt(c, x, y, e, e)
           l2 == [l1 EXCEPT ![h] = u]
<1>1. /\ Len(s) \in Nat /\ o = At(s, h, i) /\ i \in 0..Len(s)
      /\ i \in 1..(Len(s) + 1) /\ i + 1 \in (i + 1)..(Len(s) + 1) /\ o \in Elems
      /\ m \in Memory /\ s \in Seq(Elems) /\ ls \in [ListHeads -> Seq(Elems) \cup {NULL}]
  BY LiveType DEF Good, At
<1>2. m.prev[o] = x /\ m.next[o] = y
  BY <1>1, RingPointers
<1>3. x \in Nodes /\ y \in Nodes /\ e \in Nodes /\ o \in Nodes
  BY <1>1, LiveType DEF Nodes
<1>4. Good(c, l1) /\ Loose(c, l1, <<o>>)
  BY <1>1, CutGood
<1>5. e # x /\ e # y /\ e # o
  BY <1>1, ListConstants DEF Away, At
<1>6. /\ l1[h] = t /\ l1[h] # NULL /\ t \in Seq(Elems) /\ Len(t) = Len(s) - 1
      /\ At(t, h, i - 1) = x /\ At(t, h, i) = y /\ i \in 1..(Len(t) + 1)
  <2>1. t \in Seq(Elems) /\ Len(t) = Len(s) - ((i + 1) - i)
    BY DEF IsCut
  <2>2. \A q \in 1..Len(t) : t[q] = IF q < i THEN s[q] ELSE s[q + ((i + 1) - i)]
    BY DEF IsCut
  <2>3. Len(t) = Len(s) - 1 /\ i \in 1..(Len(t) + 1)
    BY <1>1, <2>1
  <2>4. l1[h] = t /\ l1[h] # NULL
    BY <1>1, <2>1, ListConstants
  <2>5. At(t, h, i - 1) = x /\ At(t, h, i) = y
    BY <1>1, <2>2, <2>3 DEF At
  <2> QED
    BY <2>1, <2>3, <2>4, <2>5
<1>7. Away(l1, e)
  <2>1. e \notin ListHeads
    BY ListConstants
  <2>2. \A q \in 1..Len(t) : \E l \in 1..Len(s) : t[q] = s[l]
    BY <1>1, <1>6 DEF IsCut
  <2>3. \A q \in 1..Len(t) : t[q] # e
    BY <2>2 DEF Away
  <2>4. \A g \in ListHeads : g # h => l1[g] = ls[g]
    BY <1>1
  <2> QED
    BY <1>6, <2>1, <2>3, <2>4 DEF Away
<1>8. Good(p, l2)
  <2>1. Loose(c, l1, <<e>>)
    BY <1>7, LooseOne
  <2>2. Good(PasteAt(c, At(l1[h], h, i - 1), At(l1[h], h, i), <<e>>[1],
                     <<e>>[Len(<<e>>)]), l2)
    BY <1>4, <1>6, <2>1, PasteGood
  <2> QED
    BY <1>6, <2>2
<1>9. Away(l2, o) /\ l2 = [ls EXCEPT ![h] = u]
  <2>1. /\ l2 = [ls EXCEPT ![h] = u] /\ l2[h] = u
        /\ \A f \in ListHeads : f # h => l2[f] = l1[f]
    BY <1>1
  <2>2. o \notin ListHeads
    BY <1>1, ListConstants
  <2>3. \A f \in ListHeads : l1[f] # NULL => \A q \in 1..Len(l1[f]) : l1[f][q] # o
    BY <1>4 DEF Loose
  <2>4. \A q \in 1..Len(t) : t[q] # o
    BY <1>6, <2>3
  <2>5. \A q \in 1..Len(u) : u[q] = e \/ \E l \in 1..Len(t) : u[q] = t[l]
    <3>1. /\ Len(u) = Len(t) + 1
          /\ \A q \in 1..Len(u) : u[q] = IF q < i THEN t[q]
                                       ELSE IF q < i + 1 THEN <<e>>[q - i + 1] ELSE t[q - 1]
      BY DEF IsPaste
    <3> SUFFICES ASSUME NEW q \in 1..Len(u)
                 PROVE  u[q] = e \/ \E l \in 1..Len(t) : u[q] = t[l]
      OBVIOUS
    <3>2. CASE q < i
      BY <1>1, <1>6, <3>1, <3>2
    <3>3. CASE q = i
      <4>1. q - i + 1 = 1
        BY <1>1, <3>3
      <4>2. u[q] = <<e>>[1]
        BY <1>1, <3>1, <3>3, <4>1
      <4> QED
        BY <4>2
    <3>4. CASE q > i
      <4>1. q - 1 \in 1..Len(t) /\ ~(q < i) /\ ~(q < i + 1)
        BY <1>1, <1>6, <3>1, <3>4
      <4>2. u[q] = t[q - 1]
        BY <3>1, <4>1
      <4> QED
        BY <4>1, <4>2
    <3> QED
      BY <1>1, <3>2, <3>3, <3>4
  <2>6. e # o
    BY <1>5
  <2> HIDE DEF l1, l2, o, s
  <2>7. \A q \in 1..Len(u) : u[q] # o
    BY <2>4, <2>5, <2>6, Zenon
  <2>8. \A f \in ListHeads : l2[f] # NULL => \A q \in 1..Len(l2[f]) : l2[f][q] # o
    <3> SUFFICES ASSUME NEW f \in ListHeads, l2[f] # NULL
                 PROVE  \A q \in 1..Len(l2[f]) : l2[f][q] # o
      OBVIOUS
    <3>1. CASE f = h
      BY <2>1, <2>7, <3>1, Zenon
    <3>2. CASE f # h
      BY <2>1, <2>3, <3>2, Zenon
    <3> QED
      BY <3>1, <3>2
  <2>9. Away(l2, o)
    BY <2>2, <2>8, Zenon DEF Away
  <2> QED
    BY <2>1, <2>9
<1>10. List!list_replace(m, e, o) = p
  <2>1. m \in Memory /\ e # x /\ e # y
    BY <1>1, <1>5
  <2> HIDE DEF x, y, o, l1, l2
  <2> QED
    BY <1>2, <1>3, <2>1, ReplaceIsCutAndPaste
<1>11. Good(List!list_poison(p, o), l2)
  BY <1>3, <1>8, <1>9, PoisonGood
<1> QED
  BY <1>9, <1>10, <1>11

\* list_splice() cuts a run out of one ring and pastes it into another or the same.
LEMMA SpliceGood ==
  ASSUME NEW m, NEW ls, Good(m, ls), NEW g \in ListHeads, ls[g] # NULL,
         NEW i \in 1..Len(ls[g]), NEW j \in (i + 1)..(Len(ls[g]) + 1),
         NEW rest, NEW r, IsCut(rest, r, ls[g], i, j),
         NEW l1, l1 = [ls EXCEPT ![g] = rest],
         NEW h \in ListHeads, ls[h] # NULL, NEW k \in 1..(Len(l1[h]) + 1),
         NEW t, IsPaste(t, l1[h], r, k)
  PROVE  Good(List!list_splice(m, At(l1[h], h, k), At(ls[g], g, i), At(ls[g], g, j)),
              [l1 EXCEPT ![h] = t])
<1> DEFINE s == ls[g]
           x == At(s, g, i - 1)
           y == At(s, g, j)
           first == At(s, g, i)
           end == At(s, g, j - 1)
           before == At(l1[h], h, k)
           at == At(l1[h], h, k - 1)
           c == CutAt(m, x, y)
<1>1. /\ s \in Seq(Elems) /\ Len(s) \in Nat /\ Apart(ls)
      /\ ls \in [ListHeads -> Seq(Elems) \cup {NULL}]
  BY LiveType DEF Good
<1>2. /\ i \in 0..Len(s) /\ i \in 1..(Len(s) + 1) /\ j \in 1..(Len(s) + 1)
      /\ j - 1 \in 1..Len(s) /\ j - 1 \in 0..Len(s) /\ (j - 1) + 1 = j /\ i # j
  BY <1>1
<1>3. m.prev[first] = x /\ m.prev[y] = end /\ m.next[end] = y
  <2>1. m.prev[first] = x
    BY <1>2, RingPointers
  <2>2. m.prev[y] = end
    BY <1>2, RingPointers
  <2>3. m.next[end] = At(s, g, (j - 1) + 1)
    BY <1>2, RingPointers
  <2> QED
    BY <1>2, <2>1, <2>2, <2>3
<1>4. first # y
  BY <1>1, <1>2, AtSame
<1>5. Good(c, l1) /\ Loose(c, l1, r)
  BY CutGood
<1>6. l1[h] # NULL
  <2>1. rest # NULL
    BY ListConstants DEF IsCut
  <2> QED
    BY <1>1, <2>1
<1>7. c.prev[before] = at
  <2> HIDE DEF c
  <2>1. \A q \in 1..(Len(l1[h]) + 1) : c.prev[At(l1[h], h, q)] = At(l1[h], h, q - 1)
    BY ONLY <1>5, <1>6, h \in ListHeads, RingPointers
  <2> QED
    BY <2>1
<1>8. r[1] = first /\ r[Len(r)] = end
  <2>1. /\ Len(r) = j - i
        /\ \A q \in 1..Len(r) : r[q] = s[i + q - 1]
    BY DEF IsCut
  <2>2. r[1] = s[i] /\ r[Len(r)] = s[j - 1]
    BY <1>1, <2>1
  <2> QED
    BY <1>1, <1>2, <2>2 DEF At
<1>9. List!list_splice(m, before, first, y) = PasteAt(c, at, before, first, end)
  BY <1>3, <1>4, <1>7 DEF List!list_splice, CutAt, PasteAt
<1>10. Good(PasteAt(c, at, before, r[1], r[Len(r)]), [l1 EXCEPT ![h] = t])
  BY <1>5, <1>6, PasteGood
<1> QED
  BY <1>8, <1>9, <1>10

\* list_move() cuts all elements out of the ring of one head and pastes them into that of
\* the other.
LEMMA MoveGood ==
  ASSUME NEW m, NEW ls, Good(m, ls), NEW src \in ListHeads, ls[src] # NULL,
         NEW dst \in ListHeads, ls[dst] = NULL
  PROVE  Good(List!list_poison(List!list_move(m, dst, src), src),
              [ls EXCEPT ![dst] = ls[src], ![src] = NULL])
<1> DEFINE s == ls[src]
           n == Len(s)
           a == List!list_init(m, dst)
           l0 == [ls EXCEPT ![dst] = <<>>]
           c == CutAt(a, src, src)
           l1 == [l0 EXCEPT ![src] = <<>>]
           p == PasteAt(c, dst, dst, s[1], s[n])
           l2 == [l1 EXCEPT ![dst] = s]
           l3 == [l2 EXCEPT ![src] = NULL]
           z == List!list_poison(List!list_move(m, dst, src), src)
<1>1. /\ s \in Seq(Elems) /\ n \in Nat /\ m \in Memory /\ src # dst
      /\ ls \in [ListHeads -> Seq(Elems) \cup {NULL}]
  BY LiveType DEF Good
<1>2. Good(a, l0)
  BY InitGood
<1>3. l3 = [ls EXCEPT ![dst] = ls[src], ![src] = NULL]
  BY <1>1
<1>4. src \in Nodes /\ dst \in Nodes
  BY DEF Nodes
<1>5. m.next[src] = At(s, src, 1) /\ m.prev[src] = At(s, src, n)
  <2>1. 0 \in 0..n /\ At(s, src, 0) = src
    BY <1>1 DEF At
  <2>2. n + 1 \in 1..(n + 1) /\ At(s, src, n + 1) = src /\ (n + 1) - 1 = n
    BY <1>1 DEF At
  <2>3. m.next[At(s, src, 0)] = At(s, src, 0 + 1)
    BY <2>1, RingPointers
  <2>4. m.prev[At(s, src, n + 1)] = At(s, src, (n + 1) - 1)
    BY <2>2, RingPointers
  <2> QED
    BY <2>1, <2>2, <2>3, <2>4
<1>6. Away(l3, src)
  <2>1. \A h \in ListHeads : l3[h] # NULL => l3[h] \in Seq(Elems)
    BY <1>1
  <2>2. ASSUME NEW h \in ListHeads, l3[h] # NULL, NEW k \in 1..Len(l3[h])
        PROVE  l3[h][k] # src
    <3>1. l3[h][k] \in Elems
      BY <2>1, <2>2, ElementOfSeq
    <3> QED
      BY <3>1, ListConstants
  <2>3. l3[src] = NULL
    BY <1>1
  <2> QED
    BY <2>2, <2>3 DEF Away
<1>7. CASE n = 0
  <2>1. m.next[src] = src
    BY <1>5, <1>7 DEF At
  <2>2. s = <<>>
    BY <1>1, <1>7, EmptySeq
  <2>3. List!list_move(m, dst, src)
            = List!list_init([m EXCEPT !.next[dst] = m.next[src],
                                       !.prev[dst] = m.prev[src]], dst)
    BY <1>1, <1>4, <2>1 DEF List!list_move, List!list_moved, Memory
  <2>4. List!list_move(m, dst, src) = a
    BY <2>3 DEF List!list_init
  <2>5. l3 = [l0 EXCEPT ![src] = NULL]
    BY <1>1, <2>2
  <2>6. Good(a, l3)
    BY <1>2, <2>5, DropGood
  <2> QED
    BY <1>3, <1>4, <1>6, <2>4, <2>6, PoisonGood
<1>8. CASE n # 0
  <2>1. /\ m.next[src] = s[1] /\ m.prev[src] = s[n]
        /\ s[1] \in Elems /\ s[n] \in Elems
    BY <1>1, <1>5, <1>8, ElementOfSeq DEF At
  <2>2. s[1] \in Nodes /\ s[n] \in Nodes /\ s[1] \notin {src, dst} /\ s[n] \notin {src, dst}
    BY <2>1, ListConstants DEF Nodes
  <2>3. l0[src] = s /\ l0[dst] = <<>> /\ l0[src] # NULL
    BY <1>1
  <2>4. IsCut(<<>>, s, s, 1, n + 1)
    BY <1>1 DEF IsCut
  <2>5. Good(c, l1) /\ Loose(c, l1, s)
    <3>1. 1 \in 1..n /\ n + 1 \in (1 + 1)..(n + 1)
      BY <1>1, <1>8
    <3>2. At(s, src, 1 - 1) = src /\ At(s, src, n + 1) = src
      BY <1>1 DEF At
    <3>3. LET cc == CutAt(a, At(l0[src], src, 1 - 1), At(l0[src], src, n + 1)) IN
          Good(cc, l1) /\ Loose(cc, l1, s)
      BY <1>2, <2>3, <2>4, <3>1, CutGood
    <3> QED
      BY <2>3, <3>2, <3>3
  <2>6. l1[dst] = <<>> /\ l1[dst] # NULL
    <3>1. <<>> \in Seq(Elems) /\ <<>> # NULL
      BY EmptySeq, ListConstants
    <3> QED
      BY <1>1, <3>1
  <2>7. IsPaste(s, <<>>, s, 1)
    BY <1>1 DEF IsPaste
  <2>8. Good(p, l2)
    <3>1. /\ 1 \in 1..(Len(l1[dst]) + 1)
          /\ At(<<>>, dst, 1 - 1) = dst /\ At(<<>>, dst, 1) = dst
      BY <2>6 DEF At
    <3>2. Good(PasteAt(c, At(l1[dst], dst, 1 - 1), At(l1[dst], dst, 1), s[1], s[n]), l2)
      BY <2>5, <2>6, <2>7, <3>1, PasteGood
    <3> QED
      BY <2>6, <3>1, <3>2
  <2>9. Good(p, l3)
    BY <2>8, DropGood
  <2>10. Good(List!list_poison(p, src), l3)
    BY <1>4, <1>6, <2>9, PoisonGood
  <2>11. z = List!list_poison(p, src)
    <3> DEFINE b == [m EXCEPT !.next[dst] = s[1], !.prev[dst] = s[n]]
               v == [b EXCEPT !.prev[s[1]] = dst, !.next[s[n]] = dst]
    <3>1. List!list_move(m, dst, src) = v
      <4>1. /\ [m EXCEPT !.next[dst] = m.next[src], !.prev[dst] = m.prev[src]] = b
            /\ b.next[dst] = s[1] /\ b.prev[dst] = s[n] /\ s[1] # src
        BY <1>1, <1>4, <2>1, <2>2 DEF Memory
      <4> HIDE DEF b
      <4> QED
        BY <4>1 DEF List!list_move, List!list_moved
    <3>2. v \in Memory
      BY <1>1, <1>4, <2>2 DEF Memory, Pointer
    <3>3. z \in Memory
      BY <3>1, <3>2, <1>4 DEF List!list_poison, Memory, Pointer
    <3>4. c \in Memory /\ p \in Memory
      BY <2>5, <2>8 DEF Good
    <3>5. List!list_poison(p, src) \in Memory
      BY <3>4 DEF List!list_poison, Memory, Pointer
    <3>6. ASSUME NEW u \in Nodes
          PROVE  /\ v.next[u] = IF u = s[n] THEN dst
                                ELSE IF u = dst THEN s[1] ELSE m.next[u]
                 /\ v.prev[u] = IF u = s[1] THEN dst
                                ELSE IF u = dst THEN s[n] ELSE m.prev[u]
      BY <1>1, <1>4, <2>2 DEF Memory
    <3>7. ASSUME NEW u \in Nodes
          PROVE  /\ a.next[u] = IF u = dst THEN dst ELSE m.next[u]
                 /\ a.prev[u] = IF u = dst THEN dst ELSE m.prev[u]
      BY <1>1 DEF List!list_init, Memory
    <3>8. a \in Memory
      BY <1>2 DEF Good
    <3> HIDE DEF v, a, z
    <3>9. ASSUME NEW u \in Nodes
          PROVE  /\ c.next[u] = IF u = src THEN src ELSE a.next[u]
                 /\ c.prev[u] = IF u = src THEN src ELSE a.prev[u]
      BY <1>4, <3>8, CutMemory
    <3> HIDE DEF c
    <3>10. ASSUME NEW u \in Nodes
           PROVE  /\ p.next[u] = IF u = dst THEN s[1]
                                 ELSE IF u = s[n] THEN dst ELSE c.next[u]
                  /\ p.prev[u] = IF u = dst THEN s[n]
                                 ELSE IF u = s[1] THEN dst ELSE c.prev[u]
      BY <1>1, <1>4, <2>2, <3>4 DEF PasteAt, Memory
    <3> HIDE DEF p
    <3>11. ASSUME NEW u \in Nodes
           PROVE  /\ z.next[u] = IF u = src THEN POISON ELSE v.next[u]
                  /\ z.prev[u] = IF u = src THEN POISON ELSE v.prev[u]
      BY <3>1, <3>2 DEF z, List!list_poison, Memory
    <3>12. ASSUME NEW u \in Nodes
           PROVE  LET q == List!list_poison(p, src) IN
                  /\ q.next[u] = IF u = src THEN POISON ELSE p.next[u]
                  /\ q.prev[u] = IF u = src THEN POISON ELSE p.prev[u]
      BY <3>4 DEF List!list_poison, Memory
    <3>13. ASSUME NEW u \in Nodes
           PROVE  /\ z.next[u] = List!list_poison(p, src).next[u]
                  /\ z.prev[u] = List!list_poison(p, src).prev[u]
      BY <2>2, <3>6, <3>7, <3>9, <3>10, <3>11, <3>12
    <3> QED
      BY <3>3, <3>5, <3>13, SameMemory
  <2> QED
    BY <1>3, <2>10, <2>11
<1> QED
  BY <1>1, <1>7, <1>8

-----------------------------------------------------------------------------
(* The lists that the calls promise *)

\* Parts of a sequence.
LEMMA PartType ==
  ASSUME NEW s \in Seq(Elems), NEW a \in Nat, NEW b \in Nat, 1 <= a, b <= Len(s), a <= b + 1
  PROVE  /\ SubSeq(s, a, b) \in Seq(Elems) /\ Len(SubSeq(s, a, b)) = b - a + 1
         /\ \A q \in 1..(b - a + 1) : SubSeq(s, a, b)[q] = s[a + q - 1]
<1>1. \A q \in a..b : s[q] \in Elems
  BY ElementOfSeq
<1>2. /\ SubSeq(s, a, b) \in Seq(Elems)
      /\ Len(SubSeq(s, a, b)) = IF a <= b THEN b - a + 1 ELSE 0
      /\ \A q \in 1..(b - a + 1) : SubSeq(s, a, b)[q] = s[a + q - 1]
  BY <1>1, SubSeqProperties
<1> QED
  BY <1>2

\* What is left of a sequence, and what is cut out of it.
LEMMA CutPromise ==
  ASSUME NEW s \in Seq(Elems), NEW i \in 1..Len(s), NEW j \in i..(Len(s) + 1)
  PROVE  IsCut(SubSeq(s, 1, i - 1) \o SubSeq(s, j, Len(s)), SubSeq(s, i, j - 1), s, i, j)
<1> DEFINE a == SubSeq(s, 1, i - 1)
           b == SubSeq(s, j, Len(s))
           r == SubSeq(s, i, j - 1)
           n == Len(s)
<1>1. n \in Nat /\ i \in Nat /\ j \in Nat /\ 1 <= i /\ i <= n /\ i <= j /\ j <= n + 1
  OBVIOUS
<1>2. /\ a \in Seq(Elems) /\ Len(a) = (i - 1) - 1 + 1
      /\ \A q \in 1..((i - 1) - 1 + 1) : a[q] = s[1 + q - 1]
  BY <1>1, PartType
<1>3. /\ b \in Seq(Elems) /\ Len(b) = n - j + 1
      /\ \A q \in 1..(n - j + 1) : b[q] = s[j + q - 1]
  BY <1>1, PartType
<1>4. /\ r \in Seq(Elems) /\ Len(r) = (j - 1) - i + 1
      /\ \A q \in 1..((j - 1) - i + 1) : r[q] = s[i + q - 1]
  BY <1>1, PartType
<1>5. /\ a \o b \in Seq(Elems) /\ Len(a \o b) = Len(a) + Len(b)
      /\ \A q \in 1..(Len(a) + Len(b)) :
             (a \o b)[q] = IF q <= Len(a) THEN a[q] ELSE b[q - Len(a)]
  BY <1>2, <1>3, ConcatProperties
<1> HIDE DEF a, b, r, n
<1>6. Len(a) = i - 1 /\ Len(r) = j - i /\ Len(a \o b) = n - (j - i)
  BY <1>1, <1>2, <1>3, <1>4, <1>5
<1>7. ASSUME NEW q \in 1..Len(a \o b)
      PROVE  (a \o b)[q] = IF q < i THEN s[q] ELSE s[q + (j - i)]
  <2>1. q \in Nat /\ 1 <= q /\ q <= n - (j - i) /\ q \in 1..(Len(a) + Len(b))
    BY <1>1, <1>5, <1>6
  <2>2. CASE q < i
    BY <1>1, <1>2, <1>5, <1>6, <2>1, <2>2
  <2>3. CASE i <= q
    <3> DEFINE l == q - (i - 1)
    <3>1. l \in 1..(n - j + 1) /\ j + l - 1 = q + (j - i) /\ q - Len(a) = l
      BY <1>1, <1>6, <2>1, <2>3
    <3> HIDE DEF l
    <3>2. (a \o b)[q] = b[q - Len(a)]
      <4>1. ~(q <= Len(a))
        BY <1>1, <1>6, <2>1, <2>3
      <4> QED
        BY <1>5, <2>1, <4>1
    <3>3. b[l] = s[j + l - 1]
      BY <1>3, <3>1
    <3>4. ~(q < i)
      BY <1>1, <2>1, <2>3
    <3> QED
      BY <3>1, <3>2, <3>3, <3>4
  <2> QED
    BY <1>1, <2>1, <2>2, <2>3
<1>8. \A q \in 1..Len(r) : r[q] = s[i + q - 1]
  BY <1>4
<1>9. IsCut(a \o b, r, s, i, j)
  BY <1>4, <1>5, <1>6, <1>7, <1>8 DEF IsCut, n
<1> QED
  BY <1>9 DEF a, b, r, n

\* A run put into a sequence.
LEMMA PastePromise ==
  ASSUME NEW s \in Seq(Elems), NEW r \in Seq(Elems), NEW k \in 1..(Len(s) + 1)
  PROVE  IsPaste(SubSeq(s, 1, k - 1) \o r \o SubSeq(s, k, Len(s)), s, r, k)
<1> DEFINE a == SubSeq(s, 1, k - 1)
           b == SubSeq(s, k, Len(s))
           n == Len(s)
           w == Len(r)
           t == a \o r
           u == t \o b
<1>1. n \in Nat /\ w \in Nat /\ k \in Nat /\ 1 <= k /\ k <= n + 1
  OBVIOUS
<1>2. /\ a \in Seq(Elems) /\ Len(a) = (k - 1) - 1 + 1
      /\ \A q \in 1..((k - 1) - 1 + 1) : a[q] = s[1 + q - 1]
  BY <1>1, PartType
<1>3. /\ b \in Seq(Elems) /\ Len(b) = n - k + 1
      /\ \A q \in 1..(n - k + 1) : b[q] = s[k + q - 1]
  BY <1>1, PartType
<1>4. /\ t \in Seq(Elems) /\ Len(t) = Len(a) + Len(r)
      /\ \A q \in 1..(Len(a) + Len(r)) :
             t[q] = IF q <= Len(a) THEN a[q] ELSE r[q - Len(a)]
  BY <1>2, ConcatProperties
<1> HIDE DEF a, b, t
<1>5. /\ u \in Seq(Elems) /\ Len(u) = Len(t) + Len(b)
      /\ \A q \in 1..(Len(t) + Len(b)) :
             u[q] = IF q <= Len(t) THEN t[q] ELSE b[q - Len(t)]
  <2>1. t \in Seq(Elems) /\ b \in Seq(Elems)
    BY <1>3, <1>4
  <2> QED
    BY ONLY <2>1, ConcatProperties
<1> HIDE DEF n, w, u
<1>6. Len(a) = k - 1 /\ Len(t) = k - 1 + w /\ Len(u) = n + w
  BY <1>1, <1>2, <1>3, <1>4, <1>5 DEF w
<1>7. ASSUME NEW q \in 1..Len(u)
      PROVE  u[q] = IF q < k THEN s[q] ELSE IF q < k + w THEN r[q - k + 1] ELSE s[q - w]
  <2>1. q \in Nat /\ 1 <= q /\ q <= n + w /\ q \in 1..(Len(t) + Len(b))
    BY <1>1, <1>5, <1>6
  <2>2. CASE q < k
    <3>1. u[q] = t[q]
      <4>1. q <= Len(t)
        BY <1>1, <1>6, <2>1, <2>2
      <4> QED
        BY <1>5, <2>1, <4>1
    <3>2. t[q] = a[q]
      <4>1. q \in 1..(Len(a) + Len(r)) /\ q <= Len(a)
        BY <1>1, <1>6, <2>1, <2>2 DEF w
      <4> QED
        BY <1>4, <4>1
    <3>3. a[q] = s[q]
      <4>1. q \in 1..((k - 1) - 1 + 1) /\ 1 + q - 1 = q
        BY <1>1, <2>1, <2>2
      <4> QED
        BY <1>2, <4>1
    <3> QED
      BY <2>2, <3>1, <3>2, <3>3
  <2>3. CASE k <= q /\ q < k + w
    <3>1. u[q] = t[q]
      <4>1. q <= Len(t)
        BY <1>1, <1>6, <2>1, <2>3
      <4> QED
        BY <1>5, <2>1, <4>1
    <3>2. t[q] = r[q - (k - 1)] /\ q - (k - 1) = q - k + 1
      <4>1. /\ q \in 1..(Len(a) + Len(r)) /\ ~(q <= Len(a)) /\ q - Len(a) = q - (k - 1)
            /\ q - (k - 1) = q - k + 1
        BY <1>1, <1>6, <2>1, <2>3 DEF w
      <4>2. t[q] = r[q - Len(a)]
        BY <1>4, <4>1
      <4> QED
        BY <4>1, <4>2
    <3> QED
      BY <1>1, <2>1, <2>3, <3>1, <3>2
  <2>4. CASE k + w <= q
    <3> DEFINE l == q - (k - 1 + w)
    <3>1. l \in 1..(n - k + 1) /\ k + l - 1 = q - w /\ q - Len(t) = l
      BY <1>1, <1>6, <2>1, <2>4
    <3> HIDE DEF l
    <3>2. u[q] = b[q - Len(t)]
      <4>1. ~(q <= Len(t))
        BY <1>1, <1>6, <2>1, <2>4
      <4> QED
        BY <1>5, <2>1, <4>1
    <3>3. b[l] = s[k + l - 1]
      BY <1>3, <3>1
    <3>4. ~(q < k) /\ ~(q < k + w)
      BY <1>1, <2>1, <2>4
    <3> QED
      BY <3>1, <3>2, <3>3, <3>4
  <2> QED
    BY <1>1, <2>1, <2>2, <2>3, <2>4
<1>8. IsPaste(u, s, r, k)
  BY <1>5, <1>6, <1>7 DEF IsPaste, n, w
<1> QED
  BY <1>8 DEF a, b, n, t, u

\* The lists with one element more.
LEMMA OneMore ==
  ASSUME NEW s \in Seq(Elems), NEW e \in Elems
  PROVE  /\ IsPaste(<<e>> \o s, s, <<e>>, 1)
         /\ IsPaste(Append(s, e), s, <<e>>, Len(s) + 1)
         /\ \A k \in 1..(Len(s) + 1) : IsPaste(List!InsertAt(s, k, e), s, <<e>>, k)
<1>1. <<e>> \in Seq(Elems) /\ Len(<<e>>) = 1 /\ <<e>>[1] = e /\ Len(s) \in Nat
  OBVIOUS
<1>2. IsPaste(<<e>> \o s, s, <<e>>, 1)
  <2> DEFINE r == <<e>>
             t == r \o s
  <2>1. r \in Seq(Elems) /\ Len(r) = 1
    BY <1>1
  <2> HIDE DEF r
  <2>2. /\ t \in Seq(Elems) /\ Len(t) = Len(r) + Len(s)
        /\ \A q \in 1..(Len(r) + Len(s)) :
               t[q] = IF q <= Len(r) THEN r[q] ELSE s[q - Len(r)]
    BY <2>1, ConcatProperties
  <2> HIDE DEF t
  <2>3. IsPaste(t, s, r, 1)
    BY <1>1, <2>1, <2>2 DEF IsPaste
  <2> QED
    BY <2>3 DEF t, r
<1>3. IsPaste(Append(s, e), s, <<e>>, Len(s) + 1)
  BY <1>1, AppendProperties DEF IsPaste
<1>4. ASSUME NEW k \in 1..(Len(s) + 1)
      PROVE  IsPaste(List!InsertAt(s, k, e), s, <<e>>, k)
  BY <1>1, PastePromise DEF List!InsertAt
<1> QED
  BY <1>2, <1>3, <1>4

\* The lists with one element less.
LEMMA OneLess ==
  ASSUME NEW s \in Seq(Elems), NEW i \in 1..Len(s)
  PROVE  /\ IsCut(List!RemoveAt(s, i), <<s[i]>>, s, i, i + 1)
         /\ i = 1 => IsCut(Tail(s), <<s[i]>>, s, i, i + 1)
         /\ i = Len(s) => IsCut(List!Front(s), <<s[i]>>, s, i, i + 1)
<1>1. /\ Len(s) \in Nat /\ i \in Nat /\ 1 <= i /\ i <= Len(s) /\ s[i] \in Elems
      /\ i + 1 \in i..(Len(s) + 1) /\ (i + 1) - 1 = i /\ s # <<>>
  BY ElementOfSeq
<1>2. SubSeq(s, i, (i + 1) - 1) = <<s[i]>>
  <2>1. /\ SubSeq(s, i, i) \in Seq(Elems) /\ Len(SubSeq(s, i, i)) = 1
        /\ SubSeq(s, i, i)[1] = s[i]
    <3>1. /\ SubSeq(s, i, i) \in Seq(Elems) /\ Len(SubSeq(s, i, i)) = i - i + 1
          /\ \A q \in 1..(i - i + 1) : SubSeq(s, i, i)[q] = s[i + q - 1]
      BY <1>1, PartType
    <3> QED
      BY <1>1, <3>1
  <2>2. SubSeq(s, i, i) = <<s[i]>>
    <3> DEFINE a == SubSeq(s, i, i)
               b == <<s[i]>>
    <3>1. b \in Seq(Elems) /\ Len(b) = 1 /\ b[1] = s[i]
      BY <1>1
    <3>2. a \in Seq(Elems) /\ Len(a) = 1 /\ a[1] = s[i]
      BY <2>1
    <3> HIDE DEF a, b
    <3>3. \A k \in 1..Len(a) : a[k] = b[k]
      BY <3>1, <3>2
    <3>4. a = b
      BY ONLY <3>1, <3>2, <3>3, SeqEqual
    <3> QED
      BY <3>4 DEF a, b
  <2> QED
    BY <1>1, <2>2
<1>3. IsCut(List!RemoveAt(s, i), <<s[i]>>, s, i, i + 1)
  BY <1>1, <1>2, CutPromise DEF List!RemoveAt
<1>4. ASSUME i = 1
      PROVE  IsCut(Tail(s), <<s[i]>>, s, i, i + 1)
  BY <1>1, <1>4, HeadTailProperties DEF IsCut
<1>5. ASSUME i = Len(s)
      PROVE  IsCut(List!Front(s), <<s[i]>>, s, i, i + 1)
  <2> DEFINE n == Len(s)
             f == SubSeq(s, 1, n - 1)
  <2>1. /\ f \in Seq(Elems) /\ Len(f) = (n - 1) - 1 + 1
        /\ \A q \in 1..((n - 1) - 1 + 1) : f[q] = s[1 + q - 1]
    BY <1>1, <1>5, PartType
  <2> HIDE DEF f
  <2>2. IsCut(f, <<s[i]>>, s, i, i + 1)
    BY <1>1, <1>5, <2>1 DEF IsCut
  <2> QED
    BY <2>2 DEF f, List!Front
<1> QED
  BY <1>3, <1>4, <1>5

\* An element that is once in a list is the one that RemoveFirst removes.
LEMMA FirstPlace ==
  ASSUME NEW s \in Seq(Elems), NEW i \in 1..Len(s),
         \A k \in 1..Len(s) : s[k] = s[i] => k = i
  PROVE  List!RemoveFirst(s, s[i]) = List!RemoveAt(s, i)
<1>1. {k \in 1..Len(s) : s[k] = s[i]} = {i}
  OBVIOUS
<1>2. List!SelectInSeq(s, LAMBDA v : v = s[i]) = i
  BY <1>1 DEF List!SelectInSeq, List!Min
<1> QED
  BY <1>2 DEF List!RemoveFirst

-----------------------------------------------------------------------------
(* The calls *)

\* What the guards say of heads and elements.
LEMMA Guards ==
  /\ \A h \in List!Live : h \in ListHeads /\ lists[h] # NULL
  /\ \A h \in ListHeads \ List!Live : lists[h] = NULL
  /\ \A e \in Elems \ List!Listed : Away(lists, e)
<1>1. \A h \in List!Live : h \in ListHeads /\ lists[h] # NULL
  BY DEF List!Live
<1>2. ASSUME NEW e \in Elems, e \notin List!Listed
      PROVE  Away(lists, e)
  <2>1. ASSUME NEW h \in ListHeads, lists[h] # NULL, NEW k \in 1..Len(lists[h]),
               lists[h][k] = e
        PROVE  FALSE
    <3>1. h \in List!Live /\ e \in List!ToSet(lists[h])
      BY <2>1 DEF List!Live, List!ToSet
    <3> QED
      BY <1>2, <3>1 DEF List!Listed
  <2> QED
    BY <2>1, ListConstants DEF Away
<1> QED
  BY <1>1, <1>2 DEF List!Live

\* A list that is given twice.
LEMMA GivenTwice ==
  ASSUME NEW ls \in [ListHeads -> Seq(Elems) \cup {NULL}], NEW h \in ListHeads, NEW t
  PROVE  [ls EXCEPT ![h] = t, ![h] = t] = [ls EXCEPT ![h] = t]
OBVIOUS

\* list_init() on a head that is not in use.
LEMMA ListInitKeeps ==
  ASSUME Good(mem, lists), NEW h \in ListHeads, List!ListInit(h)
  PROVE  Good(mem', lists')
<1>1. /\ lists[h] = NULL /\ mem' = List!list_init(mem, h)
      /\ lists' = [lists EXCEPT ![h] = <<>>]
  BY Guards DEF List!ListInit, List!Promise, Good
<1> QED
  BY <1>1, InitGood

\* list_insert() before an element.
LEMMA InsertKeeps ==
  ASSUME Good(mem, lists), NEW h \in ListHeads, NEW k, NEW e \in Elems,
         List!Insert(h, k, e)
  PROVE  Good(mem', lists')
<1> DEFINE t == List!InsertAt(lists[h], k, e)
<1>1. /\ lists[h] # NULL /\ Away(lists, e) /\ mem' = List!list_insert(mem, lists[h][k], e)
      /\ lists[h] \in Seq(Elems) /\ Len(lists[h]) \in Nat /\ k \in DOMAIN lists[h]
      /\ lists \in [ListHeads -> Seq(Elems) \cup {NULL}]
      /\ lists' = [lists EXCEPT ![h] = t, ![h] = t]
  BY Guards, RingPointers DEF List!Insert, List!Promise, Good
<1> HIDE DEF t
<1>2. k \in 1..Len(lists[h]) /\ k \in 1..(Len(lists[h]) + 1)
  BY <1>1
<1>3. lists[h][k] = At(lists[h], h, k)
  BY <1>2 DEF At
<1>4. IsPaste(t, lists[h], <<e>>, k)
  BY <1>1, <1>2, OneMore DEF t
<1>5. Good(List!list_insert(mem, At(lists[h], h, k), e), [lists EXCEPT ![h] = t])
  BY <1>1, <1>2, <1>4, InsertGood
<1> QED
  BY <1>1, <1>3, <1>5, GivenTwice

\* list_push_front()
LEMMA PushFrontKeeps ==
  ASSUME Good(mem, lists), NEW h \in ListHeads, NEW e \in Elems, List!PushFront(h, e)
  PROVE  Good(mem', lists')
<1> DEFINE t == <<e>> \o lists[h]
<1>1. /\ lists[h] # NULL /\ Away(lists, e)
      /\ mem' = List!list_insert(mem, mem.next[h], e)
      /\ lists[h] \in Seq(Elems) /\ Len(lists[h]) \in Nat
      /\ lists \in [ListHeads -> Seq(Elems) \cup {NULL}]
      /\ lists' = [lists EXCEPT ![h] = t, ![h] = t]
  BY Guards, RingPointers DEF List!PushFront, List!list_push_front, List!Promise, Good
<1> HIDE DEF t
<1>2. mem.next[h] = At(lists[h], h, 1)
  <2>1. mem.next[At(lists[h], h, 0)] = At(lists[h], h, 0 + 1)
    BY <1>1, RingPointers
  <2>2. At(lists[h], h, 0) = h
    BY <1>1 DEF At
  <2> QED
    BY <2>1, <2>2
<1>3. IsPaste(t, lists[h], <<e>>, 1) /\ 1 \in 1..(Len(lists[h]) + 1)
  BY <1>1, OneMore DEF t
<1>4. Good(List!list_insert(mem, At(lists[h], h, 1), e), [lists EXCEPT ![h] = t])
  BY <1>1, <1>3, InsertGood
<1> QED
  BY <1>1, <1>2, <1>4, GivenTwice

\* list_push_back()
LEMMA PushBackKeeps ==
  ASSUME Good(mem, lists), NEW h \in ListHeads, NEW e \in Elems, List!PushBack(h, e)
  PROVE  Good(mem', lists')
<1> DEFINE t == Append(lists[h], e)
           k == Len(lists[h]) + 1
<1>1. /\ lists[h] # NULL /\ Away(lists, e) /\ mem' = List!list_insert(mem, h, e)
      /\ lists[h] \in Seq(Elems) /\ Len(lists[h]) \in Nat
      /\ lists \in [ListHeads -> Seq(Elems) \cup {NULL}]
      /\ lists' = [lists EXCEPT ![h] = t, ![h] = t]
  BY Guards, RingPointers DEF List!PushBack, List!list_push_back, List!Promise, Good
<1> HIDE DEF t
<1>2. At(lists[h], h, k) = h
  BY <1>1 DEF At
<1>3. IsPaste(t, lists[h], <<e>>, k) /\ k \in 1..(Len(lists[h]) + 1)
  BY <1>1, OneMore DEF t
<1>4. Good(List!list_insert(mem, At(lists[h], h, k), e), [lists EXCEPT ![h] = t])
  BY <1>1, <1>3, InsertGood
<1> QED
  BY <1>1, <1>2, <1>4, GivenTwice

\* list_remove()
LEMMA UnlinkKeeps ==
  ASSUME Good(mem, lists), NEW h \in ListHeads, NEW e \in Elems, List!Unlink(h, e)
  PROVE  Good(mem', lists')
<1> DEFINE s == lists[h]
           t == List!RemoveFirst(s, e)
<1>1. /\ s # NULL /\ e \in List!ToSet(s)
      /\ mem' = List!list_poison(List!list_remove(mem, e), e)
      /\ s \in Seq(Elems) /\ Len(s) \in Nat
      /\ lists \in [ListHeads -> Seq(Elems) \cup {NULL}]
      /\ lists' = [lists EXCEPT ![h] = t, ![h] = t]
  BY Guards, RingPointers DEF List!Unlink, List!Promise, Good
<1>2. PICK i \in 1..Len(s) : s[i] = e
  BY <1>1 DEF List!ToSet
<1>3. \A k \in 1..Len(s) : s[k] = s[i] => k = i
  BY <1>1 DEF Good, Apart
<1>4. t = List!RemoveAt(s, i)
  BY <1>1, <1>2, <1>3, FirstPlace
<1>5. IsCut(t, <<s[i]>>, s, i, i + 1)
  BY <1>1, <1>4, OneLess
<1> HIDE DEF t
<1>6. Good(List!list_poison(List!list_remove(mem, s[i]), s[i]), [lists EXCEPT ![h] = t])
  BY <1>1, <1>5, RemoveGood
<1> QED
  BY <1>1, <1>2, <1>6, GivenTwice

\* list_pop_front() of a list that is not empty.
LEMMA PopFrontKeeps ==
  ASSUME Good(mem, lists), NEW h \in ListHeads, List!PopFront(h)
  PROVE  Good(mem', lists')
<1> DEFINE s == lists[h]
           t == Tail(s)
<1>1. /\ s # NULL /\ mem.next[h] # h
      /\ mem' = List!list_poison(List!list_remove(mem, mem.next[h]), mem.next[h])
      /\ s \in Seq(Elems) /\ Len(s) \in Nat
      /\ lists \in [ListHeads -> Seq(Elems) \cup {NULL}]
      /\ lists' = [lists EXCEPT ![h] = t, ![h] = t]
  BY Guards, RingPointers DEF List!PopFront, List!list_is_empty, List!Promise, Good
<1>2. mem.next[h] = At(s, h, 1)
  <2>1. mem.next[At(s, h, 0)] = At(s, h, 0 + 1)
    BY <1>1, RingPointers
  <2>2. At(s, h, 0) = h
    BY <1>1 DEF At
  <2> QED
    BY <2>1, <2>2
<1>3. 1 \in 1..Len(s) /\ mem.next[h] = s[1]
  BY <1>1, <1>2 DEF At
<1>4. IsCut(t, <<s[1]>>, s, 1, 1 + 1)
  BY <1>1, <1>3, OneLess
<1> HIDE DEF t
<1>5. Good(List!list_poison(List!list_remove(mem, s[1]), s[1]), [lists EXCEPT ![h] = t])
  BY <1>1, <1>3, <1>4, RemoveGood
<1> QED
  BY <1>1, <1>3, <1>5, GivenTwice

\* list_pop_back() of a list that is not empty.
LEMMA PopBackKeeps ==
  ASSUME Good(mem, lists), NEW h \in ListHeads, List!PopBack(h)
  PROVE  Good(mem', lists')
<1> DEFINE s == lists[h]
           n == Len(s)
           t == List!Front(s)
<1>1. /\ s # NULL /\ mem.next[h] # h
      /\ mem' = List!list_poison(List!list_remove(mem, mem.prev[h]), mem.prev[h])
      /\ s \in Seq(Elems) /\ n \in Nat
      /\ lists \in [ListHeads -> Seq(Elems) \cup {NULL}]
      /\ lists' = [lists EXCEPT ![h] = t, ![h] = t]
  BY Guards, RingPointers DEF List!PopBack, List!list_is_empty, List!Promise, Good
<1>2. mem.next[h] = At(s, h, 1)
  <2>1. mem.next[At(s, h, 0)] = At(s, h, 0 + 1)
    BY <1>1, RingPointers
  <2>2. At(s, h, 0) = h
    BY <1>1 DEF At
  <2> QED
    BY <2>1, <2>2
<1>3. n \in 1..n
  BY <1>1, <1>2 DEF At
<1>4. mem.prev[h] = s[n]
  <2>1. n + 1 \in 1..(n + 1) /\ At(s, h, n + 1) = h /\ At(s, h, (n + 1) - 1) = s[n]
    BY <1>1, <1>3 DEF At
  <2>2. mem.prev[At(s, h, n + 1)] = At(s, h, (n + 1) - 1)
    BY <1>1, <2>1, RingPointers
  <2> QED
    BY <2>1, <2>2
<1>5. IsCut(t, <<s[n]>>, s, n, n + 1)
  BY <1>1, <1>3, OneLess
<1> HIDE DEF t
<1>6. Good(List!list_poison(List!list_remove(mem, s[n]), s[n]), [lists EXCEPT ![h] = t])
  BY <1>1, <1>3, <1>5, RemoveGood
<1> QED
  BY <1>1, <1>4, <1>6, GivenTwice

\* list_replace()
LEMMA ReplaceKeeps ==
  ASSUME Good(mem, lists), NEW h \in ListHeads, NEW k, NEW e \in Elems,
         List!Replace(h, k, e)
  PROVE  Good(mem', lists')
<1> DEFINE s == lists[h]
           t == List!RemoveAt(s, k)
           u == [s EXCEPT ![k] = e]
<1>1. /\ s # NULL /\ Away(lists, e)
      /\ mem' = List!list_poison(List!list_replace(mem, e, s[k]), s[k])
      /\ s \in Seq(Elems) /\ Len(s) \in Nat /\ k \in DOMAIN s
      /\ lists \in [ListHeads -> Seq(Elems) \cup {NULL}]
      /\ lists' = [lists EXCEPT ![h] = u, ![h] = u]
  BY Guards, RingPointers DEF List!Replace, List!Promise, Good
<1>2. k \in 1..Len(s)
  BY <1>1
<1>3. IsCut(t, <<s[k]>>, s, k, k + 1)
  BY <1>1, <1>2, OneLess
<1>4. /\ u \in Seq(Elems) /\ Len(u) = Len(s)
      /\ \A q \in 1..Len(s) : u[q] = IF q = k THEN e ELSE s[q]
  BY <1>1, <1>2, ExceptSeq
<1> HIDE DEF t, u
<1>5. IsPaste(u, t, <<e>>, k)
  <2>1. /\ Len(t) = Len(s) - ((k + 1) - k)
        /\ \A q \in 1..Len(t) : t[q] = IF q < k THEN s[q] ELSE s[q + ((k + 1) - k)]
    BY <1>3 DEF IsCut
  <2>2. Len(t) = Len(s) - 1 /\ Len(<<e>>) = 1 /\ <<e>>[1] = e
    BY <1>1, <1>2, <2>1
  <2>3. ASSUME NEW q \in 1..Len(u)
        PROVE  u[q] = IF q < k THEN t[q]
                      ELSE IF q < k + Len(<<e>>) THEN <<e>>[q - k + 1]
                      ELSE t[q - Len(<<e>>)]
    <3>1. CASE q < k
      <4>1. q \in 1..Len(t) /\ q # k /\ q \in 1..Len(s)
        BY <1>1, <1>2, <1>4, <2>2, <3>1
      <4>2. u[q] = s[q] /\ t[q] = s[q]
        BY <1>4, <2>1, <3>1, <4>1
      <4> QED
        BY <3>1, <4>2
    <3>2. CASE q = k
      <4>1. q - k + 1 = 1 /\ ~(q < k) /\ q < k + Len(<<e>>)
        BY <1>2, <2>2, <3>2
      <4>2. u[q] = e
        BY <1>2, <1>4, <3>2
      <4> QED
        BY <2>2, <4>1, <4>2
    <3>3. CASE q > k
      <4>1. q - 1 \in 1..Len(t) /\ ~(q - 1 < k) /\ (q - 1) + ((k + 1) - k) = q
        BY <1>1, <1>2, <1>4, <2>2, <3>3
      <4>2. t[q - 1] = s[q]
        BY <2>1, <4>1
      <4> QED
        BY <1>1, <1>2, <1>4, <2>2, <3>3, <4>2
    <3> QED
      BY <1>2, <1>4, <3>1, <3>2, <3>3
  <2> QED
    BY <1>1, <1>4, <2>2, <2>3 DEF IsPaste
<1>6. Good(List!list_poison(List!list_replace(mem, e, s[k]), s[k]), [lists EXCEPT ![h] = u])
  BY <1>1, <1>2, <1>3, <1>5, ReplaceGood
<1> QED
  BY <1>1, <1>6, GivenTwice

\* list_move(), and the old head is poisoned.
LEMMA MoveKeeps ==
  ASSUME Good(mem, lists), NEW dst \in ListHeads, NEW src \in ListHeads,
         List!Move(dst, src)
  PROVE  Good(mem', lists')
<1>1. /\ lists[src] # NULL /\ lists[dst] = NULL
      /\ mem' = List!list_poison(List!list_move(mem, dst, src), src)
      /\ lists' = [lists EXCEPT ![dst] = lists[src], ![src] = NULL]
  BY Guards DEF List!Move, List!Promise
<1> QED
  BY <1>1, MoveGood

\* A list with its head behind it.
LEMMA RingAt ==
  ASSUME NEW s \in Seq(Elems), NEW h \in ListHeads
  PROVE  /\ Len(s \o <<h>>) = Len(s) + 1
         /\ \A k \in 1..(Len(s) + 1) : (s \o <<h>>)[k] = At(s, h, k)
<1> DEFINE r == <<h>>
           t == s \o r
<1>1. s \in Seq(Nodes) /\ r \in Seq(Nodes) /\ Len(r) = 1 /\ r[1] = h /\ Len(s) \in Nat
  BY DEF Nodes
<1> HIDE DEF r
<1>2. /\ Len(t) = Len(s) + Len(r)
      /\ \A k \in 1..(Len(s) + Len(r)) : t[k] = IF k <= Len(s) THEN s[k] ELSE r[k - Len(s)]
  BY ONLY <1>1, ConcatProperties
<1> HIDE DEF t
<1>3. ASSUME NEW k \in 1..(Len(s) + 1)
      PROVE  t[k] = At(s, h, k)
  BY <1>1, <1>2 DEF At
<1>4. Len(t) = Len(s) + 1 /\ \A k \in 1..(Len(s) + 1) : t[k] = At(s, h, k)
  BY <1>1, <1>2, <1>3
<1> QED
  BY <1>4 DEF t, r

\* list_splice() of any run, which may be empty.
LEMMA SpliceKeeps ==
  ASSUME Good(mem, lists), NEW h \in ListHeads, NEW g \in ListHeads, NEW k, NEW i, NEW j,
         List!Splice(h, k, g, i, j)
  PROVE  Good(mem', lists')
<1> DEFINE s == lists[g]
           rest == SubSeq(s, 1, i - 1) \o SubSeq(s, j, Len(s))
           r == SubSeq(s, i, j - 1)
           base == IF g = h THEN rest ELSE lists[h]
           new == SubSeq(base, 1, k - 1) \o r \o SubSeq(base, k, Len(base))
           l1 == [lists EXCEPT ![g] = rest]
<1>1. /\ lists[h] # NULL /\ s # NULL
      /\ s \in Seq(Elems) /\ Len(s) \in Nat /\ lists[h] \in Seq(Elems)
      /\ lists \in [ListHeads -> Seq(Elems) \cup {NULL}]
  <2>1. h \in List!Live /\ g \in List!Live
    BY DEF List!Splice
  <2>2. lists[h] # NULL /\ s # NULL /\ lists \in [ListHeads -> Seq(Elems) \cup {NULL}]
    BY <2>1, Guards DEF Good
  <2>3. s \in Seq(Elems) /\ Len(s) \in Nat /\ lists[h] \in Seq(Elems)
    BY <2>2, LiveType, Zenon
  <2> QED
    BY <2>2, <2>3, Zenon
<1>2. /\ i \in DOMAIN s /\ j \in i..Len(s \o <<g>>) /\ k \in 1..(Len(base) + 1)
      /\ mem' = List!list_splice(mem, (base \o <<h>>)[k], (s \o <<g>>)[i], (s \o <<g>>)[j])
      /\ lists' = [lists EXCEPT ![g] = rest, ![h] = new]
  <2>1. i \in DOMAIN s /\ j \in i..Len(s \o <<g>>) /\ k \in 1..(Len(base) + 1)
    BY ZenonT(40) DEF List!Splice
  <2>2. mem' = List!list_splice(mem, (base \o <<h>>)[k], (s \o <<g>>)[i], (s \o <<g>>)[j])
    BY ZenonT(40) DEF List!Splice
  <2>3. lists' = [lists EXCEPT ![g] = rest, ![h] = new]
    BY ZenonT(40) DEF List!Splice, List!Promise
  <2> QED
    BY <2>1, <2>2, <2>3, Zenon
<1>3. i \in 1..Len(s) /\ j \in i..(Len(s) + 1)
  <2>1. DOMAIN s = 1..Len(s)
    BY <1>1
  <2>2. Len(s \o <<g>>) = Len(s) + 1
    BY <1>1, RingAt
  <2> QED
    BY <1>2, <2>1, <2>2
<1>4. IsCut(rest, r, s, i, j)
  BY <1>1, <1>3, CutPromise
<1>5. rest \in Seq(Elems) /\ r \in Seq(Elems) /\ base \in Seq(Elems)
  BY <1>1, <1>4 DEF IsCut
<1> HIDE DEF rest, r, base
<1>6. IsPaste(new, base, r, k)
  BY <1>2, <1>5, PastePromise
<1>7. /\ (base \o <<h>>)[k] = At(base, h, k)
      /\ (s \o <<g>>)[i] = At(s, g, i) /\ (s \o <<g>>)[j] = At(s, g, j)
  BY <1>1, <1>2, <1>3, <1>5, RingAt
<1> HIDE DEF new
<1>8. CASE i = j
  <2>1. mem' = mem
    BY <1>2, <1>8 DEF List!list_splice
  <2>2. Len(rest) = Len(s) /\ Len(r) = 0 /\ \A q \in 1..Len(rest) : rest[q] = s[q]
    BY <1>1, <1>3, <1>4, <1>8 DEF IsCut
  <2>3. rest = s
    BY <1>1, <1>5, <2>2, SeqEqual
  <2>4. /\ new \in Seq(Elems) /\ Len(new) = Len(base)
        /\ \A q \in 1..Len(new) : new[q] = base[q]
    <3>1. /\ new \in Seq(Elems) /\ Len(new) = Len(base) + Len(r)
          /\ \A q \in 1..Len(new) : new[q] = IF q < k THEN base[q]
                                             ELSE IF q < k + Len(r) THEN r[q - k + 1]
                                             ELSE base[q - Len(r)]
      BY <1>6 DEF IsPaste
    <3>2. Len(base) \in Nat
      BY <1>5
    <3> QED
      BY <1>2, <2>2, <3>1, <3>2
  <2>5. new = base
    BY <1>5, <2>4, SeqEqual
  <2>6. base = lists[h]
    BY <2>3 DEF base
  <2>7. lists' = lists
    BY <1>1, <1>2, <2>3, <2>5, <2>6
  <2> QED
    BY <2>1, <2>7
<1>9. CASE i # j
  <2>1. j \in (i + 1)..(Len(s) + 1)
    BY <1>1, <1>3, <1>9
  <2>2. l1[h] = base
    BY <1>1 DEF base
  <2>3. l1 = [lists EXCEPT ![g] = rest] /\ lists' = [l1 EXCEPT ![h] = new]
    BY <1>2
  <2> HIDE DEF l1
  <2>4. Good(List!list_splice(mem, At(l1[h], h, k), At(s, g, i), At(s, g, j)),
             [l1 EXCEPT ![h] = new])
    BY <1>1, <1>2, <1>3, <1>4, <1>6, <2>1, <2>2, <2>3, SpliceGood
  <2> QED
    BY <1>2, <1>7, <2>2, <2>3, <2>4
<1> QED
  BY <1>8, <1>9

\* list_push_back_all() splices the whole list.
LEMMA PushBackAllKeeps ==
  ASSUME Good(mem, lists), NEW h \in ListHeads, NEW g \in ListHeads,
         List!PushBackAll(h, g)
  PROVE  Good(mem', lists')
<1> DEFINE s == lists[g]
           n == Len(s)
           base == lists[h]
           k == Len(base) + 1
           t == base \o s
           l1 == [lists EXCEPT ![g] = <<>>]
<1>1. /\ base # NULL /\ s # NULL /\ h # g /\ s \in Seq(Elems) /\ n \in Nat
      /\ base \in Seq(Elems) /\ lists \in [ListHeads -> Seq(Elems) \cup {NULL}]
      /\ mem' = List!list_splice(mem, h, mem.next[g], g)
      /\ lists' = [lists EXCEPT ![h] = t, ![g] = <<>>]
  BY Guards, RingPointers
     DEF List!PushBackAll, List!list_push_back_all, List!Promise, Good
<1>2. mem.next[g] = At(s, g, 1)
  <2>1. mem.next[At(s, g, 0)] = At(s, g, 0 + 1)
    BY <1>1, RingPointers
  <2>2. At(s, g, 0) = g
    BY <1>1 DEF At
  <2> QED
    BY <2>1, <2>2
<1>3. CASE n = 0
  <2>1. s = <<>>
    BY <1>1, <1>3, EmptySeq
  <2>2. mem' = mem
    BY <1>1, <1>2, <1>3 DEF At, List!list_splice
  <2>3. t = base
    BY <1>1, <2>1, ConcatEmptySeq
  <2>4. lists' = lists
    BY <1>1, <2>1, <2>3
  <2> QED
    BY <2>2, <2>4
<1>4. CASE n # 0
  <2>1. IsCut(<<>>, s, s, 1, n + 1)
    BY <1>1 DEF IsCut
  <2>2. IsPaste(t, base, s, k)
    <3>1. /\ t \in Seq(Elems) /\ Len(t) = Len(base) + n
          /\ \A q \in 1..(Len(base) + n) :
                 t[q] = IF q <= Len(base) THEN base[q] ELSE s[q - Len(base)]
      BY <1>1, ConcatProperties
    <3>2. Len(base) \in Nat
      BY <1>1
    <3> HIDE DEF t, s, base
    <3> QED
      BY <1>1, <3>1, <3>2 DEF IsPaste
  <2>3. /\ 1 \in 1..n /\ n + 1 \in (1 + 1)..(n + 1) /\ k \in 1..(Len(base) + 1)
        /\ At(base, h, k) = h /\ At(s, g, n + 1) = g
    BY <1>1, <1>4 DEF At
  <2>4. l1[h] = base /\ [l1 EXCEPT ![h] = t] = lists'
    <3> HIDE DEF t
    <3> QED
      BY <1>1
  <2> HIDE DEF t
  <2>5. l1 = [lists EXCEPT ![g] = <<>>]
    OBVIOUS
  <2> HIDE DEF l1
  <2>6. Good(List!list_splice(mem, At(l1[h], h, k), At(s, g, 1), At(s, g, n + 1)),
             [l1 EXCEPT ![h] = t])
    <3> DEFINE i == 1
               j == n + 1
    <3>1. i \in 1..Len(lists[g]) /\ j \in (i + 1)..(Len(lists[g]) + 1)
      BY <2>3
    <3>2. /\ IsCut(<<>>, s, lists[g], i, j) /\ IsPaste(t, l1[h], s, k)
          /\ k \in 1..(Len(l1[h]) + 1)
      BY <2>1, <2>2, <2>3, <2>4
    <3> HIDE DEF i, j, k
    <3>3. Good(List!list_splice(mem, At(l1[h], h, k), At(lists[g], g, i),
                                At(lists[g], g, j)),
               [l1 EXCEPT ![h] = t])
      BY <1>1, <2>5, <3>1, <3>2, SpliceGood
    <3> QED
      BY <3>3 DEF i, j
  <2> QED
    BY <1>1, <1>2, <2>3, <2>4, <2>6
<1> QED
  BY <1>3, <1>4

-----------------------------------------------------------------------------
(* list_size() *)

\* A list has no more elements than there are nodes.
LEMMA ListBound ==
  ASSUME NEW m, NEW ls, Good(m, ls), NEW h \in ListHeads, ls[h] # NULL
  PROVE  List!Cardinality(List!Nodes) \in Nat /\ Len(ls[h]) <= List!Cardinality(List!Nodes)
<1>1. List!Cardinality(List!Nodes) = Cardinality(Nodes)
  <2>1. List!Nodes = Nodes
    BY DEF List!Nodes, Nodes
  <2>2. \A S : List!Cardinality(S) = Cardinality(S)
    BY DEF List!Cardinality, Cardinality
  <2> QED
    BY <2>1, <2>2
<1>2. IsFiniteSet(Nodes) /\ Cardinality(Nodes) \in Nat
  BY ListConstants, FS_Union, FS_CardinalityType DEF Nodes
<1>3. ls[h] \in Seq(Elems) /\ Len(ls[h]) \in Nat /\ Apart(ls)
  BY RingPointers DEF Good
<1> DEFINE f == ls[h]
           n == Len(f)
<1>4. f \in Injection(1..n, Nodes)
  <2>1. f \in [1..n -> Nodes]
    BY <1>3 DEF Nodes
  <2>2. \A k, l \in 1..n : f[k] = f[l] => k = l
    BY <1>3 DEF Apart
  <2> QED
    BY <2>1, <2>2 DEF Injection, IsInjective
<1>5. Cardinality(1..n) = n
  BY <1>3, FS_Interval
<1>6. Cardinality(1..n) <= Cardinality(Nodes)
  BY <1>2, <1>4, FS_Injection
<1> QED
  BY <1>1, <1>2, <1>3, <1>5, <1>6

\* list_size() follows the ring from the head and counts the elements.
LEMMA ListSize ==
  ASSUME NEW m, NEW ls, Good(m, ls), NEW h \in ListHeads, ls[h] # NULL
  PROVE  List!list_size(m, h) = Len(ls[h])
<1> DEFINE s == ls[h]
           n == Len(s)
           c == List!Cardinality(List!Nodes)
           Walk(f) == [k \in 0..c |->
                           IF k = 0 THEN m.next[h]
                           ELSE IF f[k - 1] = h THEN h ELSE m.next[f[k - 1]]]
           Step == CHOOSE f : f = Walk(f)
           path == [k \in 0..c |-> At(s, h, k + 1)]
<1>1. c \in Nat /\ n \in Nat /\ n <= c /\ s \in Seq(Elems)
  BY ListBound, RingPointers
<1> HIDE DEF c
<1>2. /\ \A k \in 0..n : m.next[At(s, h, k)] = At(s, h, k + 1)
      /\ At(s, h, 0) = h /\ \A k \in 1..n : At(s, h, k) # h
      /\ \A k \in Nat : k > n => At(s, h, k) = h
  <2>1. \A k \in 1..n : s[k] \in Elems
    BY <1>1, ElementOfSeq
  <2> QED
    BY <1>1, <2>1, RingPointers, ListConstants DEF At
<1>3. m.next[h] = At(s, h, 1)
  BY <1>1, <1>2
<1>4. ASSUME NEW k \in 1..c
      PROVE  (IF At(s, h, k) = h THEN h ELSE m.next[At(s, h, k)]) = At(s, h, k + 1)
  BY <1>1, <1>2
<1> HIDE DEF s, n
<1>5. path = Walk(path)
  <2>1. ASSUME NEW k \in 0..c, k # 0
        PROVE  path[k - 1] = At(s, h, k)
    BY <1>1, <2>1
  <2>2. ASSUME NEW k \in 0..c
        PROVE  path[k] = Walk(path)[k]
    <3>1. CASE k = 0
      BY <1>1, <1>3, <3>1
    <3>2. CASE k # 0
      <4>1. k \in 1..c
        BY <1>1, <3>2
      <4> QED
        BY <1>4, <2>1, <3>2, <4>1
    <3> QED
      BY <3>1, <3>2
  <2> QED
    BY <2>2
<1>6. Step = Walk(Step)
  <2> HIDE DEF Walk, path
  <2> QED
    BY <1>5
<1> HIDE DEF Step
<1>7. \A k \in 0..c : Step[k] = At(s, h, k + 1)
  <2> DEFINE S == {k \in Nat : k <= c => Step[k] = At(s, h, k + 1)}
  <2>1. \A k \in 0..c : Step[k] = IF k = 0 THEN m.next[h]
                                  ELSE IF Step[k - 1] = h THEN h ELSE m.next[Step[k - 1]]
    BY <1>6
  <2>2. 0 \in S
    BY <1>1, <1>3, <2>1
  <2>3. ASSUME NEW k \in Nat, k \in S
        PROVE  k + 1 \in S
    <3>1. SUFFICES ASSUME k + 1 <= c
                   PROVE  Step[k + 1] = At(s, h, (k + 1) + 1)
      OBVIOUS
    <3>2. Step[k] = At(s, h, k + 1) /\ k + 1 \in 1..c /\ k + 1 \in 0..c
      BY <1>1, <2>3, <3>1
    <3>3. Step[k + 1] = IF Step[k] = h THEN h ELSE m.next[Step[k]]
      <4>1. k + 1 # 0 /\ (k + 1) - 1 = k
        OBVIOUS
      <4> QED
        BY <2>1, <3>2, <4>1
    <3> QED
      BY <1>4, <3>2, <3>3
  <2> HIDE DEF S
  <2>4. Nat \subseteq S
    BY <2>2, <2>3, SetInduction
  <2> QED
    BY <1>1, <2>4 DEF S
<1>8. Step[n] = h /\ \A k \in 0..(n - 1) : Step[k] # h
  BY <1>1, <1>2, <1>7
<1>9. ASSUME NEW k \in 0..c, Step[k] = h, \A j \in 0..(k - 1) : Step[j] # h
      PROVE  k = n
  BY <1>1, <1>8, <1>9
<1>10. (CHOOSE k \in 0..c : Step[k] = h /\ \A j \in 0..(k - 1) : Step[j] # h) = n
  BY <1>1, <1>8, <1>9
<1> QED
  BY <1>10 DEF List!list_size, Step, c, n, s

-----------------------------------------------------------------------------
(* The theorem *)

\* No head is in use at first.
LEMMA ListsStart == Init => Good(mem, lists)
<1> SUFFICES ASSUME List!Init PROVE Good(mem, lists)
  BY DEF Init
<1>1. /\ mem = [prev |-> [x \in Nodes |-> POISON], next |-> [x \in Nodes |-> POISON]]
      /\ lists = [h \in ListHeads |-> NULL]
  BY DEF List!Init, List!Nodes, Nodes
<1>2. mem \in Memory
  BY <1>1 DEF Memory, Pointer
<1> QED
  BY <1>1, <1>2 DEF Good, Apart

\* Every call keeps the rings.
LEMMA ListsStep == Good(mem, lists) /\ [Next]_vars => Good(mem', lists')
<1> SUFFICES ASSUME Good(mem, lists), [Next]_vars PROVE Good(mem', lists')
  OBVIOUS
<1>1. CASE used = "list" /\ List!Next
  <2>1. ASSUME NEW h \in ListHeads, List!ListInit(h) \/ List!PopFront(h) \/ List!PopBack(h)
        PROVE  Good(mem', lists')
    BY <2>1, ListInitKeeps, PopFrontKeeps, PopBackKeeps
  <2>2. ASSUME NEW h \in ListHeads, NEW e \in Elems,
               List!PushFront(h, e) \/ List!PushBack(h, e) \/ List!Unlink(h, e)
        PROVE  Good(mem', lists')
    BY <2>2, PushFrontKeeps, PushBackKeeps, UnlinkKeeps
  <2>3. ASSUME NEW h \in ListHeads, NEW e \in Elems, NEW k \in List!Place,
               List!Insert(h, k, e) \/ List!Replace(h, k, e)
        PROVE  Good(mem', lists')
    BY <2>3, InsertKeeps, ReplaceKeeps
  <2>4. ASSUME NEW h \in ListHeads, NEW g \in ListHeads,
               List!PushBackAll(h, g) \/ List!Move(h, g)
        PROVE  Good(mem', lists')
    BY <2>4, PushBackAllKeeps, MoveKeeps
  <2>5. ASSUME NEW h \in ListHeads, NEW g \in ListHeads, NEW k \in List!Place,
               NEW i \in List!Place, NEW j \in List!Place, List!Splice(h, k, g, i, j)
        PROVE  Good(mem', lists')
    BY <2>5, SpliceKeeps
  <2> QED
    BY <1>1, <2>1, <2>2, <2>3, <2>4, <2>5 DEF List!Next
<1>2. CASE UNCHANGED listVars
  BY <1>2 DEF listVars
<1> QED
  BY <1>1, <1>2 DEF Next, vars

\* In rings with these pointers list_is_short() and list_size() tell the truth.
LEMMA RingsTell == Good(mem, lists) => RingsAreLists
<1> SUFFICES ASSUME Good(mem, lists), NEW h \in List!Live
             PROVE  LET ring == lists[h] \o <<h>> IN
                    /\ mem.next[h] = ring[1]
                    /\ \A k \in DOMAIN lists[h] : mem.next[ring[k]] = ring[k + 1]
                    /\ \A k \in DOMAIN lists[h] : mem.prev[ring[k + 1]] = ring[k]
                    /\ mem.prev[ring[1]] = h
                    /\ List!list_size(mem, h) = Len(lists[h])
                    /\ List!list_is_short(mem, h) = (Len(lists[h]) < 2)
  BY DEF RingsAreLists, List!RingsAreLists
<1> DEFINE s == lists[h]
           n == Len(s)
           ring == s \o <<h>>
<1>1. /\ h \in ListHeads /\ s # NULL /\ s \in Seq(Elems) /\ n \in Nat /\ Apart(lists)
      /\ lists \in [ListHeads -> Seq(Elems) \cup {NULL}]
  BY Guards, RingPointers DEF Good
<1>2. \A k \in 1..(n + 1) : ring[k] = At(s, h, k)
  BY <1>1, RingAt
<1>3. /\ \A k \in 0..n : mem.next[At(s, h, k)] = At(s, h, k + 1)
      /\ \A k \in 1..(n + 1) : mem.prev[At(s, h, k)] = At(s, h, k - 1)
  BY <1>1, RingPointers
<1>4. At(s, h, 0) = h /\ At(s, h, n + 1) = h /\ DOMAIN s = 1..n
  BY <1>1 DEF At
<1>5. List!list_size(mem, h) = n
  BY <1>1, ListSize
<1>6. /\ \A k, l \in 0..n : At(s, h, k) = At(s, h, l) => k = l
      /\ \A k, l \in 1..(n + 1) : At(s, h, k) = At(s, h, l) => k = l
  BY <1>1, AtSame
<1> HIDE DEF ring, s, n
<1>7. mem.next[h] = ring[1] /\ mem.prev[ring[1]] = h
  <2>1. 0 \in 0..n /\ 0 + 1 = 1 /\ 1 \in 1..(n + 1) /\ 1 - 1 = 0
    BY <1>1
  <2>2. mem.next[At(s, h, 0)] = At(s, h, 0 + 1) /\ mem.prev[At(s, h, 1)] = At(s, h, 1 - 1)
    BY <1>3, <2>1
  <2> QED
    BY <1>2, <1>4, <2>1, <2>2
<1>8. ASSUME NEW k \in 1..n
      PROVE  mem.next[ring[k]] = ring[k + 1] /\ mem.prev[ring[k + 1]] = ring[k]
  <2>1. k \in 0..n /\ k \in 1..(n + 1) /\ k + 1 \in 1..(n + 1) /\ (k + 1) - 1 = k
    BY <1>1
  <2>2. /\ mem.next[At(s, h, k)] = At(s, h, k + 1)
        /\ mem.prev[At(s, h, k + 1)] = At(s, h, (k + 1) - 1)
    BY <1>3, <2>1
  <2> QED
    BY <1>2, <2>1, <2>2
<1>9. (mem.next[h] = mem.prev[h]) <=> n < 2
  <2>1. mem.next[h] = At(s, h, 1)
    BY <1>1, <1>2, <1>7
  <2>2. mem.prev[h] = At(s, h, n)
    <3>1. n + 1 \in 1..(n + 1) /\ (n + 1) - 1 = n
      BY <1>1
    <3>2. mem.prev[At(s, h, n + 1)] = At(s, h, (n + 1) - 1)
      BY <1>3, <3>1
    <3> QED
      BY <1>4, <3>1, <3>2
  <2>3. CASE n = 0
    BY <1>4, <2>1, <2>2, <2>3
  <2>4. CASE n = 1
    BY <2>1, <2>2, <2>4
  <2>5. CASE n > 1
    <3>1. 1 \in 0..n /\ n \in 0..n /\ n # 1
      BY <1>1, <2>5
    <3>2. At(s, h, 1) # At(s, h, n)
      BY <1>6, <3>1
    <3> QED
      BY <1>1, <2>1, <2>2, <2>5, <3>2
  <2> QED
    BY <1>1, <2>3, <2>4, <2>5
<1>10. List!list_is_short(mem, h) = (n < 2)
  BY <1>9 DEF List!list_is_short
<1> QED
  BY <1>4, <1>5, <1>7, <1>8, <1>10 DEF ring, s, n

\* In every behaviour the lists stay apart, and the pointers of each ring are those of its
\* list in both directions.
THEOREM RingsInvariance == Spec => []Good(mem, lists)
<1>1. Good(mem, lists) /\ [Next]_vars => Good(mem, lists)'
  BY ListsStep
<1> QED
  BY ListsStart, <1>1, PTL DEF Spec

\* Whatever has been spliced, replaced and moved, each ring is the list that its calls have
\* promised, list_size() counts it, and list_is_short() tells if it is below two.
THEOREM RingsAreListsHolds == Spec => []RingsAreLists
BY RingsInvariance, RingsTell, PTL

-----------------------------------------------------------------------------
(* Vectors *)

Vector == [names : Seq(VecNames), allocated : Nat]

\* Vectors whose slots lie inside their memory.
Fitting == {v \in Vector : Len(v.names) <= v.allocated}

\* What the constants of Svec satisfy.
LEMMA VecConstants == VecNames \subseteq Nat /\ NULL \notin VecNames
  BY ContainersAssumption DEF ContainersAssumption, Vec!ConstantsOK

\* An expansion makes room for one more string.
LEMMA VecExpand ==
  ASSUME NEW v \in Fitting, NEW w, w = Vec!svec_expand(v)
  PROVE  w \in Fitting /\ w.names = v.names /\ Len(v.names) + 1 <= w.allocated
<1> DEFINE al == IF Len(v.names) >= v.allocated
                 THEN IF v.allocated = 0 THEN 1 ELSE 2 * v.allocated
                 ELSE v.allocated
<1>1. /\ v.names \in Seq(VecNames) /\ v.allocated \in Nat /\ Len(v.names) \in Nat
      /\ Len(v.names) <= v.allocated /\ v = [names |-> v.names, allocated |-> v.allocated]
  BY DEF Fitting, Vector
<1>2. w = [names |-> v.names, allocated |-> al]
  BY <1>1 DEF Vec!svec_expand
<1>3. al \in Nat /\ Len(v.names) + 1 <= al
  BY <1>1
<1> HIDE DEF al
<1> QED
  BY <1>1, <1>2, <1>3 DEF Fitting, Vector

\* A string is added in the slot behind the last one.
LEMMA VecAdd ==
  ASSUME NEW v \in Fitting, NEW name \in VecNames, NEW w, w = Vec!svec_add(v, name)
  PROVE  w \in Fitting /\ Len(w.names) = Len(v.names) + 1
<1> DEFINE e == Vec!svec_expand(v)
           s == Append(v.names, name)
<1>1. e \in Fitting /\ e.names = v.names /\ Len(v.names) + 1 <= e.allocated
  BY VecExpand
<1>2. v.names \in Seq(VecNames)
  BY DEF Fitting, Vector
<1>3. s \in Seq(VecNames) /\ Len(s) = Len(v.names) + 1
  BY <1>2
<1>4. w = [e EXCEPT !.names = Append(e.names, name)]
  BY DEF Vec!svec_add
<1> HIDE DEF e
<1>5. e \in Vector
  BY <1>1 DEF Fitting
<1>6. w = [e EXCEPT !.names = s]
  BY <1>1, <1>4
<1> HIDE DEF s
<1>7. w = [names |-> s, allocated |-> e.allocated] /\ e.allocated \in Nat
  BY <1>5, <1>6 DEF Vector
<1> QED
  BY <1>1, <1>3, <1>7 DEF Fitting, Vector

\* All the strings of the other vector are added.
LEMMA VecAppend ==
  ASSUME NEW v \in Fitting, NEW other \in Fitting, NEW w, w = Vec!svec_append(v, other)
  PROVE  w \in Fitting /\ Len(w.names) = Len(v.names) + Len(other.names)
<1> DEFINE n == Len(other.names)
           step == [k \in 1..n |-> [x \in Fitting |-> Vec!svec_add(x, other.names[k])]]
           Eq(t) == t = [k \in 0..n |-> IF k = 0 THEN v
                                        ELSE Vec!svec_add(t[k - 1], other.names[k])]
           added == CHOOSE t : Eq(t)
           Right(k) == added[k] \in Fitting /\ Len(added[k].names) = Len(v.names) + k
           S == {k \in Nat : k <= n => Right(k)}
<1>1. /\ n \in Nat /\ Len(v.names) \in Nat
      /\ \A k \in 1..n : other.names[k] \in VecNames
  BY DEF Fitting, Vector
<1>2. step \in [1..n -> [Fitting -> Fitting]]
  BY <1>1, VecAdd
<1>3. PICK f \in [0..n -> Fitting] : IsRun(f, n, v, step)
  <2> HIDE DEF n, step
  <2> QED
    BY <1>1, <1>2, Iteration
<1>4. Eq(f)
  <2>1. f[0] = v /\ \A k \in 1..n : f[k] = step[k][f[k - 1]]
    BY <1>3 DEF IsRun
  <2>2. ASSUME NEW k \in 0..n, k # 0
        PROVE  f[k] = Vec!svec_add(f[k - 1], other.names[k])
    <3>1. k \in 1..n /\ k - 1 \in 0..n
      BY <1>1, <2>2
    <3>2. f[k - 1] \in Fitting
      BY <3>1
    <3> QED
      BY <2>1, <3>1, <3>2
  <2> QED
    BY <2>1, <2>2
<1>5. Eq(added)
  <2> HIDE DEF Eq
  <2> QED
    BY <1>4
<1> HIDE DEF added
<1>6. 0 \in S
  BY <1>1, <1>5
<1>7. ASSUME NEW k \in Nat, k \in S PROVE k + 1 \in S
  <2> SUFFICES ASSUME k + 1 <= n PROVE Right(k + 1)
    <3> HIDE DEF Right, n
    <3> QED
      OBVIOUS
  <2>1. k + 1 \in 1..n /\ k + 1 \in 0..n /\ (k + 1) - 1 = k /\ k + 1 # 0 /\ k <= n
    BY <1>1
  <2>2. added[k + 1] = Vec!svec_add(added[k], other.names[k + 1])
    BY <1>5, <2>1
  <2>3. /\ added[k] \in Fitting /\ Len(added[k].names) = Len(v.names) + k
        /\ other.names[k + 1] \in VecNames
    BY <1>1, <1>7, <2>1
  <2> HIDE DEF n, Eq, S
  <2>4. added[k + 1] \in Fitting /\ Len(added[k + 1].names) = Len(added[k].names) + 1
    BY <2>2, <2>3, VecAdd
  <2>5. Len(v.names) + (k + 1) = (Len(v.names) + k) + 1
    <3> DEFINE l == Len(v.names)
    <3>1. l \in Nat
      BY <1>1
    <3> HIDE DEF l
    <3>2. l + (k + 1) = (l + k) + 1
      BY <3>1
    <3> QED
      BY <3>2 DEF l
  <2> QED
    BY <2>3, <2>4, <2>5
<1>8. n \in S
  <2> HIDE DEF S
  <2> QED
    BY <1>1, <1>6, <1>7, SetInduction
<1>9. w = added[n]
  BY DEF Vec!svec_append, added
<1>10. Right(n)
  <2> HIDE DEF Right, n
  <2> QED
    BY <1>1, <1>8
<1> QED
  BY <1>9, <1>10

\* An empty vector has no memory yet.
LEMMA VecEmpty == Vec!svec_init \in Fitting /\ Len(Vec!svec_init.names) = 0
  BY DEF Vec!svec_init, Fitting, Vector

\* What svec_unique() builds is a vector of these strings.
LEMMA VecUnique ==
  ASSUME NEW v \in Fitting, NEW w, w = Vec!svec_unique(v)
  PROVE  w \in Fitting /\ (Len(v.names) <= 1 => w = v)
<1> DEFINE n == Len(v.names)
           First(k) == k = 1 \/ v.names[k - 1] # v.names[k]
           Next1(x, k) == IF First(k) THEN Vec!svec_add(x, v.names[k]) ELSE x
           step == [k \in 1..n |-> [x \in Fitting |-> Next1(x, k)]]
           base == Vec!svec_init
           Eq(t) == t = [k \in 0..n |-> IF k = 0 THEN base
                                        ELSE IF First(k)
                                             THEN Vec!svec_add(t[k - 1], v.names[k])
                                             ELSE t[k - 1]]
           tmp == CHOOSE t : Eq(t)
           S == {k \in Nat : k <= n => tmp[k] \in Fitting}
<1>1. n \in Nat /\ \A k \in 1..n : v.names[k] \in VecNames
  BY DEF Fitting, Vector
<1>2. base \in Fitting
  BY VecEmpty
<1> HIDE DEF base
<1>3. ASSUME NEW k \in 1..n, NEW x \in Fitting PROVE Next1(x, k) \in Fitting
  <2>1. Vec!svec_add(x, v.names[k]) \in Fitting
    BY <1>1, VecAdd
  <2> QED
    BY <2>1
<1>4. PICK f \in [0..n -> Fitting] : IsRun(f, n, base, step)
  <2>1. step \in [1..n -> [Fitting -> Fitting]]
    <3> HIDE DEF n, Next1
    <3> QED
      BY <1>3
  <2> HIDE DEF n, step
  <2> QED
    BY <1>1, <1>2, <2>1, Iteration
<1>5. Eq(f)
  <2>1. f[0] = base /\ \A k \in 1..n : f[k] = step[k][f[k - 1]]
    BY <1>4 DEF IsRun
  <2>2. ASSUME NEW k \in 0..n, k # 0
        PROVE  f[k] = Next1(f[k - 1], k)
    <3>1. k \in 1..n /\ k - 1 \in 0..n
      BY <1>1, <2>2
    <3>2. f[k - 1] \in Fitting
      BY <3>1
    <3> HIDE DEF Next1
    <3> QED
      BY <2>1, <3>1, <3>2
  <2> HIDE DEF First
  <2> QED
    BY <2>1, <2>2
<1>6. Eq(tmp)
  <2> HIDE DEF Eq
  <2> QED
    BY <1>5
<1> HIDE DEF tmp
<1>7. 0 \in S
  BY <1>1, <1>2, <1>6
<1>8. ASSUME NEW k \in Nat, k \in S PROVE k + 1 \in S
  <2> SUFFICES ASSUME k + 1 <= n PROVE tmp[k + 1] \in Fitting
    OBVIOUS
  <2>1. k + 1 \in 1..n /\ k + 1 \in 0..n /\ (k + 1) - 1 = k /\ k + 1 # 0 /\ k <= n
    BY <1>1
  <2>2. tmp[k + 1] = Next1(tmp[k], k + 1)
    <3> HIDE DEF First
    <3> QED
      BY <1>6, <2>1
  <2>3. tmp[k] \in Fitting
    BY <1>8, <2>1
  <2> HIDE DEF Next1, n
  <2> QED
    BY <1>3, <2>1, <2>2, <2>3
<1>9. tmp[n] \in Fitting
  <2>1. n \in S
    <3> HIDE DEF S
    <3> QED
      BY <1>1, <1>7, <1>8, SetInduction
  <2> HIDE DEF n
  <2> QED
    BY <1>1, <2>1
<1>10. w = IF n <= 1 THEN v ELSE tmp[n]
  BY DEF Vec!svec_unique, tmp, base
<1> HIDE DEF n
<1> QED
  BY <1>9, <1>10 DEF n

\* svec_compact() drops as many slots as are null.
LEMMA VecCompact ==
  ASSUME NEW s \in Seq(VecNames \cup {NULL}), NEW al \in Nat, Len(s) <= al,
         NEW K, K = {k \in 1..Len(s) : s[k] = NULL},
         NEW w, w = Vec!svec_compact([names |-> s, allocated |-> al])
  PROVE  w \in Fitting /\ Len(w.names) = Len(s) - Cardinality(K)
<1> DEFINE n == Len(s)
           V == Seq(VecNames)
           Next1(x, k) == IF s[k] # NULL THEN Append(x, s[k]) ELSE x
           step == [k \in 1..n |-> [x \in V |-> Next1(x, k)]]
           Eq(t) == t = [k \in 0..n |-> IF k = 0 THEN <<>>
                                        ELSE IF s[k] # NULL THEN Append(t[k - 1], s[k])
                                        ELSE t[k - 1]]
           kept == CHOOSE t : Eq(t)
           Gone(k) == {j \in 1..k : s[j] = NULL}
           Right(k) == /\ kept[k] \in V
                       /\ IsFiniteSet(Gone(k)) /\ Cardinality(Gone(k)) \in Nat
                       /\ Len(kept[k]) + Cardinality(Gone(k)) = k
           S == {k \in Nat : k <= n => Right(k)}
<1>1. n \in Nat /\ <<>> \in V /\ \A k \in 1..n : s[k] \in VecNames \cup {NULL}
  OBVIOUS
<1>2. ASSUME NEW k \in 1..n, NEW x \in V PROVE Next1(x, k) \in V
  <2>1. s[k] # NULL => s[k] \in VecNames
    BY <1>1
  <2> QED
    BY <2>1
<1>3. PICK f \in [0..n -> V] : IsRun(f, n, <<>>, step)
  <2>1. step \in [1..n -> [V -> V]]
    <3> HIDE DEF n, Next1, V
    <3> QED
      BY <1>2
  <2> HIDE DEF n, step, V
  <2> QED
    BY <1>1, <2>1, Iteration
<1>4. Eq(f)
  <2>1. f[0] = <<>> /\ \A k \in 1..n : f[k] = step[k][f[k - 1]]
    BY <1>3 DEF IsRun
  <2>2. ASSUME NEW k \in 0..n, k # 0
        PROVE  f[k] = Next1(f[k - 1], k)
    <3>1. k \in 1..n /\ k - 1 \in 0..n
      BY <1>1, <2>2
    <3>2. f[k - 1] \in V
      BY <3>1
    <3> HIDE DEF Next1, V
    <3> QED
      BY <2>1, <3>1, <3>2
  <2> HIDE DEF V
  <2> QED
    BY <2>1, <2>2
<1>5. Eq(kept)
  <2> HIDE DEF Eq
  <2> QED
    BY <1>4
<1> HIDE DEF kept
<1>6. 0 \in S
  <2>1. kept[0] = <<>>
    BY <1>1, <1>5
  <2>2. Gone(0) = {}
    OBVIOUS
  <2>3. IsFiniteSet(Gone(0)) /\ Cardinality(Gone(0)) = 0
    BY <2>2, FS_EmptySet
  <2>4. Len(kept[0]) = 0 /\ kept[0] \in V
    BY <1>1, <2>1
  <2> HIDE DEF Gone, V
  <2>5. Right(0)
    BY <2>3, <2>4
  <2> HIDE DEF Right, n
  <2> QED
    BY <1>1, <2>5
<1>7. ASSUME NEW k \in Nat, k \in S PROVE k + 1 \in S
  <2> SUFFICES ASSUME k + 1 <= n PROVE Right(k + 1)
    <3> HIDE DEF Right, n
    <3> QED
      OBVIOUS
  <2>1. k + 1 \in 1..n /\ k + 1 \in 0..n /\ (k + 1) - 1 = k /\ k + 1 # 0 /\ k <= n
    BY <1>1
  <2>2. kept[k + 1] = Next1(kept[k], k + 1)
    BY <1>5, <2>1
  <2>3. Right(k)
    <3> HIDE DEF Right, n
    <3> QED
      BY <1>7, <2>1
  <2>4. kept[k + 1] \in V
    <3> HIDE DEF Next1, V, n, Gone
    <3> QED
      BY <1>2, <2>1, <2>2, <2>3
  <2>5. CASE s[k + 1] = NULL
    <3>1. kept[k + 1] = kept[k]
      BY <2>2, <2>5
    <3>2. Gone(k + 1) = Gone(k) \cup {k + 1} /\ k + 1 \notin Gone(k)
      BY <2>1, <2>5
    <3> HIDE DEF Gone
    <3>3. /\ IsFiniteSet(Gone(k + 1))
          /\ Cardinality(Gone(k + 1)) = Cardinality(Gone(k)) + 1
      BY <2>3, <3>2, FS_AddElement
    <3>4. Len(kept[k]) \in Nat
      BY <2>3
    <3> HIDE DEF n, V
    <3>5. Cardinality(Gone(k)) \in Nat /\ Len(kept[k]) + Cardinality(Gone(k)) = k
      BY <2>3
    <3>6. /\ Cardinality(Gone(k + 1)) \in Nat
          /\ Len(kept[k + 1]) + Cardinality(Gone(k + 1)) = k + 1
      BY <3>1, <3>3, <3>4, <3>5
    <3> QED
      BY <2>4, <3>3, <3>6
  <2>6. CASE s[k + 1] # NULL
    <3>1. kept[k + 1] = Append(kept[k], s[k + 1])
      BY <2>2, <2>6
    <3>2. Gone(k + 1) = Gone(k)
      BY <2>1, <2>6
    <3>3. kept[k] \in V /\ Len(kept[k]) \in Nat
      BY <2>3
    <3>4. Len(kept[k + 1]) = Len(kept[k]) + 1
      BY <3>1, <3>3
    <3> HIDE DEF Gone, n, V
    <3>5. Cardinality(Gone(k)) \in Nat /\ Len(kept[k]) + Cardinality(Gone(k)) = k
      BY <2>3
    <3>6. /\ Cardinality(Gone(k + 1)) \in Nat
          /\ Len(kept[k + 1]) + Cardinality(Gone(k + 1)) = k + 1
      BY <3>2, <3>3, <3>4, <3>5
    <3> QED
      BY <2>3, <2>4, <3>2, <3>6
  <2> QED
    BY <2>5, <2>6
<1>8. Right(n)
  <2>1. n \in S
    <3> HIDE DEF S
    <3> QED
      BY <1>1, <1>6, <1>7, SetInduction
  <2> HIDE DEF n, Right
  <2> QED
    BY <1>1, <2>1
<1>9. w = [names |-> kept[n], allocated |-> al]
  BY DEF Vec!svec_compact, kept
<1>10. K = Gone(n)
  OBVIOUS
<1>11. /\ kept[n] \in V /\ Len(kept[n]) \in Nat /\ Cardinality(K) \in Nat
       /\ Len(kept[n]) + Cardinality(K) = n
  <2>1. kept[n] \in V => Len(kept[n]) \in Nat
    OBVIOUS
  <2> HIDE DEF Gone, n, V
  <2> QED
    BY <1>8, <1>10, <2>1
<1> HIDE DEF V, n
<1>12. Len(kept[n]) <= al /\ Len(kept[n]) = n - Cardinality(K)
  <2>1. n <= al
    BY DEF n
  <2> QED
    BY <1>1, <1>11, <2>1
<1>13. w.names = kept[n] /\ w.allocated = al
  BY <1>9
<1>14. w \in [names : V, allocated : Nat]
  BY <1>9, <1>11
<1>15. w \in Fitting
  BY <1>12, <1>13, <1>14 DEF Fitting, Vector, V
<1> QED
  BY <1>12, <1>13, <1>15 DEF n

Merging ==
    [i : Nat \ {0}, j : Nat \ {0}, a_only : Fitting, both : Fitting, b_only : Fitting]

\* A round of the merge adds to one of the three vectors.
LEMMA VecMerge ==
  ASSUME NEW v \in Fitting, NEW w \in Fitting, NEW s \in Merging
  PROVE  Vec!Merge(v, w, s) \in Merging
<1> DEFINE inV == s.i <= Len(v.names)
           inW == s.j <= Len(w.names)
           x == Vec!svec_add(s.both, v.names[s.i])
           y == Vec!svec_add(s.a_only, v.names[s.i])
           z == Vec!svec_add(s.b_only, w.names[s.j])
           i1 == s.i + 1
           j1 == s.j + 1
<1>1. /\ v.names \in Seq(VecNames) /\ w.names \in Seq(VecNames)
      /\ Len(v.names) \in Nat /\ Len(w.names) \in Nat
  BY DEF Fitting, Vector
<1>2. /\ s.i \in Nat \ {0} /\ s.j \in Nat \ {0} /\ i1 \in Nat \ {0} /\ j1 \in Nat \ {0}
      /\ s.both \in Fitting /\ s.a_only \in Fitting /\ s.b_only \in Fitting
      /\ s = [i |-> s.i, j |-> s.j,
              a_only |-> s.a_only, both |-> s.both, b_only |-> s.b_only]
  BY DEF Merging
<1>3. (inV => v.names[s.i] \in VecNames) /\ (inW => w.names[s.j] \in VecNames)
  BY <1>1, <1>2
<1>4. (inV => x \in Fitting /\ y \in Fitting) /\ (inW => z \in Fitting)
  <2> HIDE DEF inV, inW
  <2> QED
    BY <1>2, <1>3, VecAdd
<1>5. \/ inV /\ inW /\ Vec!Merge(v, w, s) = [s EXCEPT !.both = x, !.i = i1, !.j = j1]
      \/ inV /\ Vec!Merge(v, w, s) = [s EXCEPT !.a_only = y, !.i = i1]
      \/ inW /\ Vec!Merge(v, w, s) = [s EXCEPT !.b_only = z, !.j = j1]
      \/ Vec!Merge(v, w, s) = s
  BY DEF Vec!Merge
<1> HIDE DEF inV, inW, x, y, z, i1, j1
<1> QED
  BY <1>2, <1>4, <1>5 DEF Merging

\* Each of the three results of svec_diff() is a vector.
LEMMA VecDiff ==
  ASSUME NEW v \in Fitting, NEW w \in Fitting, NEW d, d = Vec!svec_diff(v, w)
  PROVE  d.a_only \in Fitting /\ d.both \in Fitting /\ d.b_only \in Fitting
<1> DEFINE n == Len(v.names) + Len(w.names)
           one == [x \in Merging |-> Vec!Merge(v, w, x)]
           step == [k \in 1..n |-> one]
           base == Vec!MergeStart
           Eq(t) == t = [k \in 0..n |-> IF k = 0 THEN base ELSE Vec!Merge(v, w, t[k - 1])]
           merged == CHOOSE t : Eq(t)
           S == {k \in Nat : k <= n => merged[k] \in Merging}
<1>1. n \in Nat
  BY DEF Fitting, Vector
<1>2. base \in Merging
  BY VecEmpty DEF Vec!MergeStart, Merging
<1> HIDE DEF base, n
<1>3. PICK f \in [0..n -> Merging] : IsRun(f, n, base, step)
  <2>1. step \in [1..n -> [Merging -> Merging]]
    BY VecMerge
  <2> HIDE DEF step
  <2> QED
    BY <1>1, <1>2, <2>1, Iteration
<1>4. Eq(f)
  <2>1. f[0] = base /\ \A k \in 1..n : f[k] = step[k][f[k - 1]]
    BY <1>3 DEF IsRun
  <2>2. ASSUME NEW k \in 0..n, k # 0
        PROVE  f[k] = Vec!Merge(v, w, f[k - 1])
    <3>1. k \in 1..n /\ k - 1 \in 0..n
      BY <1>1, <2>2
    <3>2. f[k - 1] \in Merging
      BY <3>1
    <3> QED
      BY <2>1, <3>1, <3>2
  <2> QED
    BY <2>1, <2>2
<1>5. Eq(merged)
  <2> HIDE DEF Eq
  <2> QED
    BY <1>4
<1> HIDE DEF merged
<1>6. 0 \in S
  BY <1>1, <1>2, <1>5
<1>7. ASSUME NEW k \in Nat, k \in S PROVE k + 1 \in S
  <2> SUFFICES ASSUME k + 1 <= n PROVE merged[k + 1] \in Merging
    OBVIOUS
  <2>1. k + 1 \in 0..n /\ (k + 1) - 1 = k /\ k + 1 # 0 /\ k <= n
    BY <1>1
  <2>2. merged[k + 1] = Vec!Merge(v, w, merged[k])
    BY <1>5, <2>1
  <2>3. merged[k] \in Merging
    BY <1>7, <2>1
  <2> QED
    BY <2>2, <2>3, VecMerge
<1>8. merged[n] \in Merging
  <2>1. n \in S
    <3> HIDE DEF S
    <3> QED
      BY <1>1, <1>6, <1>7, SetInduction
  <2> QED
    BY <1>1, <2>1
<1>9. d = merged[n]
  BY DEF Vec!svec_diff, merged, base, n
<1> QED
  BY <1>8, <1>9 DEF Merging

\* Sorting moves the pointers.
LEMMA VecSort ==
  ASSUME NEW v \in Fitting, NEW w \in Vec!svec_sort(v)
  PROVE  w \in Fitting /\ Len(w.names) = Len(v.names)
<1> DEFINE s == v.names
           n == Len(s)
<1>1. /\ s \in Seq(VecNames) /\ n \in Nat /\ DOMAIN s = 1..n
      /\ v.allocated \in Nat /\ n <= v.allocated
      /\ v = [names |-> s, allocated |-> v.allocated]
  BY DEF Fitting, Vector
<1>2. PICK p \in Vec!Bijection(1..n, 1..n) :
         w = [v EXCEPT !.names = [k \in 1..n |-> s[p[k]]]]
  BY <1>1 DEF Vec!svec_sort
<1>3. p \in [1..n -> 1..n]
  BY <1>2 DEF Vec!Bijection, Vec!Injection, Vec!Surjection
<1> DEFINE t == [k \in 1..n |-> s[p[k]]]
<1>4. t \in [1..n -> VecNames]
  <2>1. \A k \in 1..n : s[p[k]] \in VecNames
    BY <1>1, <1>3
  <2> HIDE DEF n, s
  <2> QED
    BY <2>1
<1>5. t \in Seq(VecNames) /\ Len(t) = n
  <2> HIDE DEF t, n, s
  <2> QED
    BY <1>1, <1>4
<1>6. w = [names |-> t, allocated |-> v.allocated]
  BY <1>1, <1>2
<1> HIDE DEF t
<1> QED
  BY <1>1, <1>5, <1>6 DEF Fitting, Vector

\* The last slot is given up, or the one in the middle over which memmove() moves.
LEMMA VecCut ==
  ASSUME NEW v \in Fitting, NEW k \in 1..Len(v.names),
         NEW w, \/ w = Vec!DelAt(v, k)
                \/ k = Len(v.names) /\ w = [v EXCEPT !.names = Vec!Front(@)]
  PROVE  w \in Fitting /\ Len(w.names) = Len(v.names) - 1
<1> DEFINE s == v.names
           n == Len(s)
           x == SubSeq(s, 1, k - 1)
           y == SubSeq(s, k + 1, n)
           z == SubSeq(s, 1, n - 1)
<1>1. s \in Seq(VecNames) /\ n \in Nat /\ v.allocated \in Nat /\ n <= v.allocated
      /\ v = [names |-> s, allocated |-> v.allocated]
  BY DEF Fitting, Vector
<1>2. x \in Seq(VecNames) /\ Len(x) = k - 1
  BY <1>1
<1>3. y \in Seq(VecNames) /\ Len(y) = n - k
  BY <1>1
<1>4. z \in Seq(VecNames) /\ Len(z) = n - 1
  <2>1. n - 1 \in Nat /\ n - 1 <= n /\ 1 <= n
    BY <1>1
  <2>2. SubSeq(s, 1, n - 1) \in Seq(VecNames)
    BY <1>1, <2>1
  <2>3. Len(SubSeq(s, 1, n - 1)) = n - 1
    <3>1. 1 \in 1..(n + 1) /\ n - 1 \in 0..n
      BY <1>1, <2>1
    <3>2. Len(SubSeq(s, 1, n - 1)) = IF 1 <= n - 1 THEN (n - 1) - 1 + 1 ELSE 0
      BY <1>1, <3>1, SubSeqProperties
    <3> HIDE DEF n
    <3> QED
      BY <2>1, <3>2
  <2> QED
    BY <2>2, <2>3
<1>5. x \o y \in Seq(VecNames) /\ Len(x \o y) = n - 1
  <2> HIDE DEF x, y
  <2> QED
    BY <1>1, <1>2, <1>3
<1>6. w = [v EXCEPT !.names = x \o y] \/ w = [v EXCEPT !.names = z]
  BY DEF Vec!DelAt, Vec!RemoveAt, Vec!Front
<1> HIDE DEF x, y, z
<1>7. PICK t \in {x \o y, z} : w = [names |-> t, allocated |-> v.allocated]
  BY <1>1, <1>6
<1>8. t \in Seq(VecNames) /\ Len(t) = n - 1
  BY <1>4, <1>5
<1>9. n - 1 <= v.allocated
  BY <1>1
<1> HIDE DEF n
<1> QED
  BY <1>1, <1>7, <1>8, <1>9 DEF Fitting, Vector, n

\* The vectors fit, and there are as many strings as slots.
VecGood(v, w, strings) ==
    v \in Fitting /\ w \in Fitting /\ strings = Len(v.names) + Len(w.names)

\* Initially there is no string.
LEMMA VecsStart == Init => VecGood(vecA, vecB, heap)
<1>1. Init => vecA = Vec!svec_init /\ vecB = Vec!svec_init /\ heap = 0
  <2>1. Init => Vec!Init
    BY DEF Init
  <2> QED
    BY <2>1, Zenon DEF Vec!Init
<1>2. VecGood(Vec!svec_init, Vec!svec_init, 0)
  BY VecEmpty DEF VecGood
<1> QED
  BY <1>1, <1>2

\* What is taken away and put in the place of a part of a sum.
LEMMA Balance ==
  ASSUME NEW l \in Nat, NEW m \in Nat, NEW o \in Nat
  PROVE  (l + m) - l + o = o + m
  OBVIOUS

\* The calls that change the length of the first vector alone account for it.
LEMMA VecAccount ==
  ASSUME VecGood(vecA, vecB, heap), vecB' = vecB, vecA' \in Fitting,
         heap' = heap - Len(vecA.names) + Len(vecA'.names)
  PROVE  VecGood(vecA', vecB', heap')
<1>1. Len(vecA.names) \in Nat /\ Len(vecB.names) \in Nat /\ Len(vecA'.names) \in Nat
  BY DEF VecGood, Fitting, Vector
<1>2. heap = Len(vecA.names) + Len(vecB.names)
  BY DEF VecGood
<1>3. heap' = Len(vecA'.names) + Len(vecB.names)
  BY <1>1, <1>2, Balance
<1> QED
  BY <1>3 DEF VecGood

\* Every call keeps the account.
LEMMA VecsStep == VecGood(vecA, vecB, heap) /\ [Next]_vars => VecGood(vecA', vecB', heap')
<1> SUFFICES ASSUME VecGood(vecA, vecB, heap), [Next]_vars
             PROVE  VecGood(vecA', vecB', heap')
  OBVIOUS
<1> DEFINE la == Len(vecA.names)
           lb == Len(vecB.names)
           Account == vecB' = vecB /\ vecA' \in Fitting
                      /\ heap' = heap - la + Len(vecA'.names)
<1>1. /\ vecA \in Fitting /\ vecB \in Fitting /\ heap = la + lb
      /\ la \in Nat /\ lb \in Nat
      /\ Vec!Owned(vecA) = la /\ Vec!Owned(vecB) = lb
  BY DEF VecGood, Fitting, Vector, Vec!Owned
<1>2. Account => VecGood(vecA', vecB', heap')
  BY VecAccount
<1>3. CASE UNCHANGED <<vecA, vecB, heap>>
  BY <1>3 DEF VecGood
<1>4. ASSUME used = "svec", Vec!Next PROVE VecGood(vecA', vecB', heap')
  <2>1. ASSUME NEW n \in VecNames, Vec!Add(n) PROVE Account
    <3>1. vecA' = Vec!svec_add(vecA, n) /\ heap' = heap + 1 /\ vecB' = vecB
      BY <2>1 DEF Vec!Add
    <3>2. vecA' \in Fitting /\ Len(vecA'.names) = la + 1
      BY <1>1, <3>1, VecAdd
    <3>3. heap' = heap - la + (la + 1)
      <4> HIDE DEF la, lb
      <4> QED
        BY <1>1, <3>1
    <3> HIDE DEF la, lb
    <3> QED
      BY <3>1, <3>2, <3>3
  <2>2. ASSUME NEW n \in VecNames, Vec!Del(n) PROVE VecGood(vecA', vecB', heap')
    <3>1. CASE UNCHANGED <<vecA, heap>>
      BY <1>3, <2>2, <3>1 DEF Vec!Del
    <3>2. CASE ~UNCHANGED <<vecA, heap>>
      <4>1. PICK k \in Vec!svec_find(vecA, n) :
               vecA' = Vec!DelAt(vecA, k) /\ heap' = heap - 1
        BY <2>2, <3>2 DEF Vec!Del
      <4>2. k \in 1..la
        BY <1>1, <4>1 DEF Vec!svec_find, Fitting, Vector
      <4>3. vecA' \in Fitting /\ Len(vecA'.names) = la - 1
        BY <1>1, <4>1, <4>2, VecCut
      <4>4. vecB' = vecB
        BY <2>2 DEF Vec!Del
      <4> HIDE DEF la, lb
      <4>5. Account
        BY <1>1, <4>1, <4>3, <4>4
      <4> QED
        BY <1>2, <4>5
    <3> QED
      BY <3>1, <3>2
  <2>3. ASSUME Vec!PopBack PROVE Account
    <3>1. /\ vecA.names # <<>> /\ vecA' = [vecA EXCEPT !.names = Vec!Front(@)]
          /\ heap' = heap - 1 /\ vecB' = vecB
      BY <2>3 DEF Vec!PopBack
    <3>2. la \in 1..la
      BY <1>1, <3>1 DEF Fitting, Vector
    <3>3. vecA' \in Fitting /\ Len(vecA'.names) = la - 1
      BY <1>1, <3>1, <3>2, VecCut
    <3> HIDE DEF la, lb
    <3> QED
      BY <1>1, <3>1, <3>3
  <2>4. ASSUME Vec!Clear PROVE Account
    <3>1. vecA' = [vecA EXCEPT !.names = <<>>] /\ heap' = heap - la /\ vecB' = vecB
      BY <1>1, <2>4 DEF Vec!Clear
    <3>2. vecA' \in Fitting /\ Len(vecA'.names) = 0
      <4>1. vecA' = [names |-> <<>>, allocated |-> vecA.allocated] /\ vecA.allocated \in Nat
        BY <1>1, <3>1 DEF Fitting, Vector
      <4> QED
        BY <4>1 DEF Fitting, Vector
    <3> HIDE DEF la, lb
    <3> QED
      BY <1>1, <3>1, <3>2
  <2>5. ASSUME Vec!Terminate PROVE Account
    <3>1. vecA' = Vec!svec_expand(vecA) /\ heap' = heap /\ vecB' = vecB
      BY <2>5 DEF Vec!Terminate
    <3>2. vecA' \in Fitting /\ Len(vecA'.names) = la
      BY <1>1, <3>1, VecExpand
    <3> HIDE DEF la, lb
    <3> QED
      BY <1>1, <3>1, <3>2
  <2>6. ASSUME Vec!AppendAll PROVE Account
    <3>1. vecA' = Vec!svec_append(vecA, vecB) /\ heap' = heap + lb /\ vecB' = vecB
      BY <1>1, <2>6 DEF Vec!AppendAll
    <3>2. vecA' \in Fitting /\ Len(vecA'.names) = la + lb
      BY <1>1, <3>1, VecAppend
    <3> HIDE DEF la, lb
    <3> QED
      BY <1>1, <3>1, <3>2
  <2>7. ASSUME Vec!Clone PROVE Account
    <3>1. /\ vecA' = Vec!svec_append(Vec!svec_init, vecB)
          /\ heap' = heap - la + lb /\ vecB' = vecB
      BY <1>1, <2>7 DEF Vec!Clone, Vec!svec_clone
    <3>2. vecA' \in Fitting /\ Len(vecA'.names) = 0 + lb
      BY <1>1, <3>1, VecAppend, VecEmpty
    <3> HIDE DEF la, lb
    <3> QED
      BY <1>1, <3>1, <3>2
  <2>8. ASSUME Vec!Swap PROVE VecGood(vecA', vecB', heap')
    <3>1. vecA' = vecB /\ vecB' = vecA /\ heap' = heap
      BY <2>8 DEF Vec!Swap
    <3>2. la + lb = lb + la
      <4> HIDE DEF la, lb
      <4> QED
        BY <1>1
    <3> QED
      BY <1>1, <3>1, <3>2 DEF VecGood
  <2>9. ASSUME Vec!Sort PROVE Account
    <3>1. vecA' \in Vec!svec_sort(vecA) /\ heap' = heap /\ vecB' = vecB
      BY <2>9 DEF Vec!Sort
    <3>2. vecA' \in Fitting /\ Len(vecA'.names) = la
      BY <1>1, <3>1, VecSort
    <3> HIDE DEF la, lb
    <3> QED
      BY <1>1, <3>1, <3>2
  <2>10. ASSUME Vec!Unique PROVE Account
    <3> DEFINE u == Vec!svec_unique(vecA)
    <3>1. /\ vecA' = u /\ vecB' = vecB
          /\ heap' = heap + IF la > 1 THEN Len(u.names) - la ELSE 0
      BY <1>1, <2>10 DEF Vec!Unique, Vec!Owned
    <3>2. u \in Fitting /\ (la <= 1 => u = vecA)
      BY <1>1, VecUnique
    <3>3. Len(u.names) \in Nat
      BY <3>2 DEF Fitting, Vector
    <3>4. la <= 1 => Len(u.names) = la
      BY <3>2
    <3> DEFINE lu == Len(u.names)
    <3>5. heap' = heap - la + lu
      <4>1. heap' = heap + IF la > 1 THEN lu - la ELSE 0
        BY <3>1
      <4>2. lu \in Nat /\ (la <= 1 => lu = la) /\ la \in Nat
        BY <1>1, <3>3, <3>4
      <4> HIDE DEF la, lb, lu
      <4>3. heap \in Nat
        BY <1>1
      <4>4. CASE la > 1
        BY <4>1, <4>2, <4>3, <4>4
      <4>5. CASE la <= 1
        BY <4>1, <4>2, <4>3, <4>5
      <4> QED
        BY <4>2, <4>4, <4>5
    <3> HIDE DEF u
    <3> QED
      BY <3>1, <3>2, <3>5
  <2>11. ASSUME NEW K \in SUBSET DOMAIN vecA.names, Vec!Compact(K) PROVE Account
    <3> DEFINE s == [k \in DOMAIN vecA.names |-> IF k \in K THEN NULL ELSE vecA.names[k]]
               w == Vec!svec_compact([names |-> s, allocated |-> vecA.allocated])
    <3>1. /\ vecA.names \in Seq(VecNames) /\ vecA.allocated \in Nat /\ la <= vecA.allocated
          /\ vecA = [names |-> vecA.names, allocated |-> vecA.allocated]
          /\ DOMAIN vecA.names = 1..la
      BY <1>1 DEF Fitting, Vector
    <3>2. s \in [1..la -> VecNames \cup {NULL}]
      <4>1. \A k \in 1..la : vecA.names[k] \in VecNames
        BY <3>1
      <4> HIDE DEF la
      <4> QED
        BY <3>1, <4>1
    <3>3. s \in Seq(VecNames \cup {NULL}) /\ Len(s) = la
      <4> HIDE DEF s, la
      <4> QED
        BY <1>1, <3>2
    <3>4. K = {k \in 1..Len(s) : s[k] = NULL}
      <4>1. \A k \in 1..la : s[k] = NULL <=> k \in K
        <5>1. \A k \in 1..la : vecA.names[k] \in VecNames
          BY <3>1
        <5> HIDE DEF la
        <5> QED
          BY <3>1, <5>1, VecConstants
      <4>2. K \subseteq 1..la
        BY <3>1
      <4> HIDE DEF s, la
      <4> QED
        BY <3>3, <4>1, <4>2
    <3>5. vecA' = w /\ heap' = heap - Cardinality(K) /\ vecB' = vecB
      <4>1. /\ vecA' = Vec!svec_compact([vecA EXCEPT !.names = s])
            /\ heap' = heap - Vec!Cardinality(K) /\ vecB' = vecB
        BY <2>11 DEF Vec!Compact
      <4>2. [vecA EXCEPT !.names = s] = [names |-> s, allocated |-> vecA.allocated]
        <5> HIDE DEF s
        <5> QED
          BY <3>1
      <4>3. Vec!Cardinality(K) = Cardinality(K)
        BY DEF Vec!Cardinality, Cardinality
      <4> QED
        BY <4>1, <4>2, <4>3
    <3>6. w \in Fitting /\ Len(w.names) = Len(s) - Cardinality(K)
      <4> HIDE DEF s
      <4> QED
        BY <3>1, <3>3, <3>4, VecCompact
    <3>7. Cardinality(K) \in Nat
      <4> HIDE DEF la
      <4>1. IsFiniteSet(1..la)
        BY <1>1, FS_Interval
      <4>2. K \subseteq 1..la
        BY <3>1
      <4> QED
        BY <4>1, <4>2, FS_Subset, FS_CardinalityType
    <3> HIDE DEF s, w, la, lb
    <3> QED
      BY <1>1, <3>3, <3>5, <3>6, <3>7
  <2>12. ASSUME NEW part \in {"a_only", "both", "b_only"}, Vec!Diff(part) PROVE Account
    <3> DEFINE d == Vec!svec_diff(vecA, vecB)
    <3>1. /\ vecA' = d[part] /\ vecB' = vecB
          /\ heap' = heap - la + Len(vecA'.names)
      BY <1>1, <2>12 DEF Vec!Diff, Vec!Owned
    <3>2. d.a_only \in Fitting /\ d.both \in Fitting /\ d.b_only \in Fitting
      BY <1>1, VecDiff
    <3> HIDE DEF d
    <3>3. vecA' \in Fitting
      BY <3>1, <3>2
    <3> QED
      BY <3>1, <3>3
  <2>13. ASSUME NEW n \in VecNames, Vec!AskName(n) PROVE UNCHANGED <<vecA, vecB, heap>>
    BY <2>13 DEF Vec!AskName
  <2>14. Vec!AskUnique \/ Vec!AskEqual \/ Vec!AskSorted => UNCHANGED <<vecA, vecB, heap>>
    BY DEF Vec!AskUnique, Vec!AskEqual, Vec!AskSorted
  <2> HIDE DEF Account
  <2> QED
    BY <1>2, <1>3, <1>4, <2>1, <2>2, <2>3, <2>4, <2>5, <2>6, <2>7, <2>8, <2>9, <2>10, <2>11,
       <2>12, <2>13, <2>14 DEF Vec!Next
<1> QED
  BY <1>3, <1>4 DEF Next, vars, vecVars

\* Whatever is appended, cut out, merged and swapped, each string is owned by one slot of
\* one vector, and each slot lies inside the memory of its vector.
THEOREM VectorsOwnStringsHolds == Spec => []VectorsOwnStrings
<1>1. VecGood(vecA, vecB, heap) /\ [Next]_vars => VecGood(vecA, vecB, heap)'
  BY VecsStep
<1>2. VecGood(vecA, vecB, heap) => VectorsOwnStrings
  BY DEF VecGood, Fitting, VectorsOwnStrings, Vec!VectorsOwnStrings, Vec!Owned
<1> QED
  BY VecsStart, <1>1, <1>2, PTL DEF Spec

-----------------------------------------------------------------------------
(* Dynamic strings *)

Text == Seq(Chars)

\* Strings whose bytes lie inside their memory, which they have unless they are new.
Sound ==
    {d \in [string : Text, null : BOOLEAN, nul : BOOLEAN, allocated : Nat] :
        IF d.null THEN d.string = <<>> /\ d.allocated = 0 ELSE Len(d.string) <= d.allocated}

\* A call has written s behind what was there.
Wrote(d, w, s) == w \in Sound /\ w.string = d.string \o s

\* What the constants of DynString satisfy.
LEMMA TextConstants ==
  /\ NUL \in Chars /\ \A c \in DOMAIN Octal : Octal[c] \in Text
  /\ \A s \in Pieces : s \in Text
  /\ \A file \in Files :
        /\ file \in Seq(Text)
        /\ \A k \in 1..Len(file) : \A l \in 1..Len(file[k]) : file[k][l] # NUL
<1>1. /\ NUL \in Chars /\ Pieces \subseteq Seq(Chars) /\ Files \subseteq Seq(Seq(Chars))
      /\ \A c \in DOMAIN Octal : Octal[c] \in Seq(Chars)
      /\ \A s \in UNION {Str!ToSet(file) : file \in Files} : NUL \notin Str!ToSet(s)
  BY ContainersAssumption DEF ContainersAssumption, Str!ConstantsOK
<1>2. ASSUME NEW file \in Files
      PROVE  \A k \in 1..Len(file) : \A l \in 1..Len(file[k]) : file[k][l] # NUL
  <2> SUFFICES ASSUME NEW k \in 1..Len(file), NEW l \in 1..Len(file[k])
               PROVE  file[k][l] # NUL
    OBVIOUS
  <2>1. file \in Seq(Seq(Chars)) /\ file[k] \in Seq(Chars)
    BY <1>1
  <2>2. file[k] \in Str!ToSet(file)
    BY <2>1 DEF Str!ToSet
  <2>3. file[k][l] \in Str!ToSet(file[k])
    BY <2>1 DEF Str!ToSet
  <2> QED
    BY <1>1, <2>2, <2>3
<1> QED
  BY <1>1, <1>2 DEF Text

\* What is known of a sound string.
LEMMA SoundFacts ==
  ASSUME NEW d \in Sound
  PROVE  /\ d.string \in Text /\ d.null \in BOOLEAN /\ d.nul \in BOOLEAN
         /\ d.allocated \in Nat /\ Len(d.string) \in Nat /\ Len(d.string) <= d.allocated
         /\ d.null => d.string = <<>> /\ d.allocated = 0
         /\ d = [string |-> d.string, null |-> d.null, nul |-> d.nul,
                 allocated |-> d.allocated]
         /\ Str!Length(d) = Len(d.string)
<1>1. /\ d.string \in Text /\ d.null \in BOOLEAN /\ d.nul \in BOOLEAN /\ d.allocated \in Nat
      /\ d = [string |-> d.string, null |-> d.null, nul |-> d.nul,
              allocated |-> d.allocated]
  BY DEF Sound
<1>2. IF d.null THEN d.string = <<>> /\ d.allocated = 0 ELSE Len(d.string) <= d.allocated
  BY DEF Sound
<1>3. Len(d.string) \in Nat /\ Len(<<>>) = 0
  BY <1>1 DEF Text
<1> QED
  BY <1>1, <1>2, <1>3 DEF Str!Length

\* A string with memory enough is sound.
LEMMA SoundIs ==
  ASSUME NEW s \in Text, NEW nul \in BOOLEAN, NEW al \in Nat, Len(s) <= al
  PROVE  [string |-> s, null |-> FALSE, nul |-> nul, allocated |-> al] \in Sound
  BY DEF Sound

\* Concatenation of texts.
LEMMA TextConcat ==
  ASSUME NEW s \in Text, NEW t \in Text
  PROVE  /\ s \o t \in Text /\ Len(s \o t) = Len(s) + Len(t)
         /\ Len(s) \in Nat /\ Len(t) \in Nat
<1> USE DEF Text
<1>1. s \o t \in Seq(Chars) /\ Len(s \o t) = Len(s) + Len(t)
  BY ConcatProperties
<1>2. Len(s) \in Nat /\ Len(t) \in Nat
  OBVIOUS
<1> QED
  BY <1>1, <1>2

\* It is associative.
LEMMA TextAssociative ==
  ASSUME NEW r \in Text, NEW s \in Text, NEW t \in Text
  PROVE  (r \o s) \o t = r \o (s \o t)
<1>1. r \in Seq(Chars) /\ s \in Seq(Chars) /\ t \in Seq(Chars)
  BY DEF Text
<1> QED
  BY <1>1, ConcatAssociative

\* ds_reserve() gets memory, at least as much as is asked for, and leaves the bytes.
LEMMA TextReserve ==
  ASSUME NEW d \in Sound, NEW min \in Nat, NEW w, w = Str!ds_reserve(d, min)
  PROVE  /\ w \in Sound /\ w.string = d.string /\ w.null = FALSE /\ w.nul = d.nul
         /\ min <= w.allocated /\ d.allocated <= w.allocated
<1> DEFINE al == Str!Larger(8, d.allocated + Str!Larger(min, d.allocated))
<1>1. /\ d.string \in Text /\ d.null \in BOOLEAN /\ d.nul \in BOOLEAN /\ d.allocated \in Nat
      /\ Len(d.string) \in Nat /\ Len(d.string) <= d.allocated
      /\ d = [string |-> d.string, null |-> d.null, nul |-> d.nul,
              allocated |-> d.allocated]
  BY SoundFacts
<1>2. al \in Nat /\ min <= al /\ d.allocated <= al
  BY <1>1 DEF Str!Larger
<1>3. w = IF min > d.allocated \/ d.null
          THEN [d EXCEPT !.allocated = al, !.null = FALSE] ELSE d
  BY DEF Str!ds_reserve
<1> HIDE DEF al
<1>4. CASE min > d.allocated \/ d.null
  <2>1. w = [string |-> d.string, null |-> FALSE, nul |-> d.nul, allocated |-> al]
    BY <1>1, <1>3, <1>4
  <2>2. Len(d.string) <= al
    BY <1>1, <1>2
  <2>3. w \in Sound
    BY <1>1, <1>2, <2>1, <2>2, SoundIs
  <2> QED
    BY <1>2, <2>1, <2>3
<1>5. CASE ~(min > d.allocated \/ d.null)
  <2>1. w = d /\ d.null = FALSE /\ min <= d.allocated
    BY <1>1, <1>3, <1>5
  <2> QED
    BY <1>1, <2>1
<1> QED
  BY <1>4, <1>5

\* Bytes for which there is memory are written behind the others.
LEMMA TextWritten ==
  ASSUME NEW d \in Sound, NEW s \in Text,
         d.null = FALSE, Len(d.string) + Len(s) <= d.allocated,
         NEW w, w = Str!Written(d, s)
  PROVE  Wrote(d, w, s) /\ w.nul = TRUE /\ w.null = FALSE
<1>1. /\ d.string \in Text /\ d.allocated \in Nat
      /\ d = [string |-> d.string, null |-> d.null, nul |-> d.nul,
              allocated |-> d.allocated]
  BY SoundFacts
<1> DEFINE t == d.string \o s
<1>2. t \in Text /\ Len(t) <= d.allocated
  BY <1>1, TextConcat
<1>3. w = [d EXCEPT !.string = t, !.nul = TRUE]
  BY DEF Str!Written
<1>4. t = d.string \o s
  OBVIOUS
<1> HIDE DEF t
<1>5. w = [string |-> t, null |-> FALSE, nul |-> TRUE, allocated |-> d.allocated]
  BY <1>1, <1>3
<1>6. w \in Sound
  BY <1>1, <1>2, <1>5, SoundIs
<1> QED
  BY <1>4, <1>5, <1>6 DEF Wrote

\* ds_put_uninit() makes room before.
LEMMA TextPut ==
  ASSUME NEW d \in Sound, NEW s \in Text, NEW w, w = Str!Put(d, s)
  PROVE  Wrote(d, w, s) /\ w.nul = TRUE
<1> DEFINE need == Str!Length(d) + Len(s)
           r == Str!ds_reserve(d, need)
<1>1. Str!Length(d) = Len(d.string) /\ Len(d.string) \in Nat /\ Len(s) \in Nat
  BY SoundFacts DEF Text
<1>2. /\ r \in Sound /\ r.string = d.string /\ r.null = FALSE
      /\ Len(d.string) + Len(s) <= r.allocated
  <2>1. need \in Nat /\ need = Len(d.string) + Len(s)
    BY <1>1
  <2> HIDE DEF need
  <2> QED
    BY <2>1, TextReserve
<1>3. w = Str!Written(r, s)
  BY DEF Str!Put
<1> HIDE DEF r
<1>4. Wrote(r, w, s) /\ w.nul = TRUE
  BY <1>2, <1>3, TextWritten
<1> QED
  BY <1>2, <1>4 DEF Wrote

\* ds_put_char() has room for one more byte, or makes it.
LEMMA TextPutChar ==
  ASSUME NEW d \in Sound, NEW c \in Chars, NEW w, w = Str!ds_put_char(d, c)
  PROVE  Wrote(d, w, <<c>>)
<1>1. /\ Str!Length(d) = Len(d.string) /\ Len(d.string) \in Nat /\ d.null \in BOOLEAN
      /\ d.null => d.allocated = 0
      /\ d.allocated \in Nat
  BY SoundFacts
<1>2. <<c>> \in Text /\ Len(<<c>>) = 1
  BY DEF Text
<1>3. CASE Str!Length(d) < d.allocated
  <2>1. /\ w = Str!Written(d, <<c>>)
        /\ d.null = FALSE /\ Len(d.string) + Len(<<c>>) <= d.allocated
    BY <1>1, <1>2, <1>3 DEF Str!ds_put_char
  <2> QED
    BY <1>2, <2>1, TextWritten
<1>4. CASE ~(Str!Length(d) < d.allocated)
  <2>1. w = Str!Put(d, <<c>>)
    BY <1>4 DEF Str!ds_put_char
  <2> QED
    BY <1>2, <2>1, TextPut
<1> QED
  BY <1>3, <1>4

\* ds_put_format() tries in place first; the second try has room enough.
LEMMA TextPutFormat ==
  ASSUME NEW d \in Sound, NEW s \in Text, NEW w, w = Str!ds_put_format(d, s)
  PROVE  Wrote(d, w, s) /\ Str!FormatAsserts(d, s)
<1> DEFINE need == Str!Length(d) + Len(s)
           r == Str!ds_reserve(d, need)
<1>1. /\ Str!Length(d) = Len(d.string) /\ Len(d.string) \in Nat /\ Len(s) \in Nat
      /\ d.null \in BOOLEAN /\ d.allocated \in Nat
      /\ Str!Available(d) = d.allocated - Len(d.string) + 1
  BY SoundFacts DEF Text, Str!Available
<1>2. /\ r \in Sound /\ r.string = d.string /\ r.null = FALSE
      /\ Len(d.string) + Len(s) <= r.allocated
  <2>1. need \in Nat /\ need = Len(d.string) + Len(s)
    BY <1>1
  <2> HIDE DEF need
  <2> QED
    BY <2>1, TextReserve
<1>3. /\ w = IF ~d.null /\ Len(s) < Str!Available(d) THEN Str!Written(d, s)
             ELSE Str!Written(r, s)
      /\ Len(s) < Str!Available(r) => Str!FormatAsserts(d, s)
  BY DEF Str!ds_put_format, Str!FormatAsserts
<1> HIDE DEF r
<1>4. Str!Available(r) = r.allocated - Len(d.string) + 1 /\ r.allocated \in Nat
  BY <1>2, SoundFacts DEF Str!Available
<1>5. Str!FormatAsserts(d, s)
  BY <1>1, <1>2, <1>3, <1>4
<1>6. CASE ~d.null /\ Len(s) < Str!Available(d)
  <2>1. w = Str!Written(d, s) /\ d.null = FALSE /\ Len(d.string) + Len(s) <= d.allocated
    BY <1>1, <1>3, <1>6
  <2> QED
    BY <1>5, <2>1, TextWritten
<1>7. CASE ~(~d.null /\ Len(s) < Str!Available(d))
  <2>1. w = Str!Written(r, s)
    BY <1>3, <1>7
  <2>2. Wrote(r, w, s)
    BY <1>2, <2>1, TextWritten
  <2> QED
    BY <1>2, <1>5, <2>2 DEF Wrote
<1> QED
  BY <1>6, <1>7

\* What ds_put_printable() puts for a character.
Quoted(c) == IF c \in DOMAIN Octal THEN Octal[c] ELSE <<c>>

\* It is a text.
LEMMA QuotedText ==
  ASSUME NEW c \in Chars
  PROVE  Quoted(c) \in Text /\ Len(Quoted(c)) \in Nat
<1>1. <<c>> \in Seq(Chars) /\ Len(<<c>>) = 1
  OBVIOUS
<1>2. c \in DOMAIN Octal => Octal[c] \in Seq(Chars) /\ Len(Octal[c]) \in Nat
  BY TextConstants DEF Text
<1> QED
  BY <1>1, <1>2 DEF Quoted, Text

\* The escaped text is put together character by character.
LEMMA EscapedIs ==
  ASSUME NEW s \in Text
  PROVE  \E e \in [0..Len(s) -> Text] :
            /\ e[0] = <<>> /\ \A k \in 1..Len(s) : e[k] = e[k - 1] \o Quoted(s[k])
            /\ Str!Abstract!Escaped(s) = e[Len(s)]
<1> DEFINE n == Len(s)
           step == [k \in 1..n |-> [x \in Text |-> x \o Quoted(s[k])]]
           body(e, k) == IF k = 0 THEN <<>> ELSE e[k - 1] \o Quoted(s[k])
           Eq(e) == e = [k \in 0..n |-> body(e, k)]
           before == CHOOSE e : Eq(e)
           S == {k \in Nat : k <= n => before[k] \in Text}
<1>1. n \in Nat /\ <<>> \in Text /\ \A k \in 1..n : s[k] \in Chars
  BY DEF Text
<1>2. ASSUME NEW k \in 1..n, NEW x \in Text PROVE x \o Quoted(s[k]) \in Text
  BY <1>1, QuotedText, TextConcat
<1>3. PICK f \in [0..n -> Text] : IsRun(f, n, <<>>, step)
  <2>1. step \in [1..n -> [Text -> Text]]
    <3> HIDE DEF n
    <3> QED
      BY <1>2
  <2> HIDE DEF n, step
  <2> QED
    BY <1>1, <2>1, Iteration
<1>4. Eq(f)
  <2>1. f[0] = <<>> /\ \A k \in 1..n : f[k] = step[k][f[k - 1]]
    BY <1>3 DEF IsRun
  <2>2. ASSUME NEW k \in 0..n PROVE f[k] = body(f, k)
    <3>1. CASE k = 0
      BY <2>1, <3>1
    <3>2. CASE k # 0
      <4>1. k \in 1..n /\ k - 1 \in 0..n
        BY <1>1, <3>2
      <4>2. f[k - 1] \in Text
        BY <4>1
      <4> QED
        BY <2>1, <3>2, <4>1, <4>2
    <3> QED
      BY <3>1, <3>2
  <2> HIDE DEF n, body
  <2> QED
    BY <2>2
<1>5. Eq(before)
  <2> HIDE DEF Eq
  <2> QED
    BY <1>4
<1> HIDE DEF before
<1>6. /\ before[0] = <<>> /\ \A k \in 1..n : before[k] = before[k - 1] \o Quoted(s[k])
      /\ before = [k \in 0..n |-> before[k]]
  <2>1. \A k \in 0..n : before[k] = body(before, k)
    <3> HIDE DEF n, body
    <3> QED
      BY <1>5
  <2>2. 0 \in 0..n /\ \A k \in 1..n : k \in 0..n /\ k # 0
    BY <1>1
  <2>3. before = [k \in 0..n |-> before[k]]
    <3> HIDE DEF n, body
    <3> QED
      BY <1>5
  <2> HIDE DEF n
  <2> QED
    BY <2>1, <2>2, <2>3
<1> HIDE DEF Eq
<1>7. 0 \in S
  BY <1>1, <1>6
<1>8. ASSUME NEW k \in Nat, k \in S PROVE k + 1 \in S
  <2> SUFFICES ASSUME k + 1 <= n PROVE before[k + 1] \in Text
    OBVIOUS
  <2>1. k + 1 \in 1..n /\ (k + 1) - 1 = k /\ k <= n
    BY <1>1
  <2>2. before[k + 1] = before[k] \o Quoted(s[k + 1]) /\ before[k] \in Text
    BY <1>6, <1>8, <2>1
  <2> QED
    BY <1>2, <2>1, <2>2
<1>9. \A k \in 0..n : before[k] \in Text
  <2>1. \A k \in Nat : k \in S
    <3> HIDE DEF S
    <3> QED
      BY <1>7, <1>8, SetInduction
  <2> HIDE DEF n
  <2> QED
    BY <1>1, <2>1
<1>10. before \in [0..n -> Text]
  <2> HIDE DEF n
  <2> QED
    BY <1>6, <1>9
<1>11. Str!Abstract!Escaped(s) = before[n]
  BY DEF Str!Abstract!Escaped, before, Quoted, Eq
<1> HIDE DEF n
<1> QED
  BY <1>6, <1>10, <1>11 DEF n

\* One more character of ds_put_printable().
LEMMA TextPrint ==
  ASSUME NEW d \in Sound, NEW c \in Chars,
         NEW w, w = IF c \in DOMAIN Octal THEN Str!ds_put_format(d, Octal[c])
                    ELSE Str!ds_put_char(d, c)
  PROVE  Wrote(d, w, Quoted(c))
<1>1. CASE c \in DOMAIN Octal
  <2>1. Quoted(c) = Octal[c] /\ w = Str!ds_put_format(d, Quoted(c))
    BY <1>1 DEF Quoted
  <2> QED
    BY <2>1, QuotedText, TextPutFormat
<1>2. CASE c \notin DOMAIN Octal
  BY <1>2, TextPutChar DEF Quoted
<1> QED
  BY <1>1, <1>2

\* Whatever has been reserved before, ds_put_printable() puts the escaped text.
LEMMA TextPutPrintable ==
  ASSUME NEW d \in Sound, NEW s \in Text, NEW w, w = Str!ds_put_printable(d, s)
  PROVE  Wrote(d, w, Str!Abstract!Escaped(s))
<1> DEFINE n == Len(s)
           need == Str!Length(d) + Len(s)
           r == Str!ds_reserve(d, need)
           Char(x, c) == IF c \in DOMAIN Octal THEN Str!ds_put_format(x, Octal[c])
                         ELSE Str!ds_put_char(x, c)
           step == [k \in 1..n |-> [x \in Sound |-> Char(x, s[k])]]
           body(e, k) == IF k = 0 THEN r ELSE Char(e[k - 1], s[k])
           Eq(e) == e = [k \in 0..n |-> body(e, k)]
           done == CHOOSE e : Eq(e)
<1>1. n \in Nat /\ \A k \in 1..n : s[k] \in Chars
  BY DEF Text
<1>2. r \in Sound /\ r.string = d.string
  <2>1. need \in Nat
    BY <1>1, SoundFacts
  <2> HIDE DEF need
  <2> QED
    BY <2>1, TextReserve
<1> HIDE DEF r
<1>3. ASSUME NEW k \in 1..n, NEW x \in Sound PROVE Wrote(x, Char(x, s[k]), Quoted(s[k]))
  BY <1>1, TextPrint
<1> HIDE DEF Char
<1>4. PICK f \in [0..n -> Sound] : IsRun(f, n, r, step)
  <2>1. step \in [1..n -> [Sound -> Sound]]
    <3>1. \A k \in 1..n, x \in Sound : Char(x, s[k]) \in Sound
      BY <1>3 DEF Wrote
    <3> HIDE DEF n
    <3> QED
      BY <3>1
  <2> HIDE DEF n, step
  <2> QED
    BY <1>1, <1>2, <2>1, Iteration
<1>5. Eq(f)
  <2>1. f[0] = r /\ \A k \in 1..n : f[k] = step[k][f[k - 1]]
    BY <1>4 DEF IsRun
  <2>2. ASSUME NEW k \in 0..n PROVE f[k] = body(f, k)
    <3>1. CASE k = 0
      BY <2>1, <3>1
    <3>2. CASE k # 0
      <4>1. k \in 1..n /\ k - 1 \in 0..n
        BY <1>1, <3>2
      <4>2. f[k - 1] \in Sound
        BY <4>1
      <4> QED
        BY <2>1, <3>2, <4>1, <4>2
    <3> QED
      BY <3>1, <3>2
  <2> HIDE DEF n, body
  <2> QED
    BY <2>2
<1>6. Eq(done)
  <2> HIDE DEF Eq
  <2> QED
    BY <1>5
<1> HIDE DEF done
<1>7. done[0] = r /\ \A k \in 1..n : done[k] = Char(done[k - 1], s[k])
  <2>1. \A k \in 0..n : done[k] = body(done, k)
    <3> HIDE DEF n, body
    <3> QED
      BY <1>6
  <2>2. 0 \in 0..n /\ \A k \in 1..n : k \in 0..n /\ k # 0
    BY <1>1
  <2> HIDE DEF n
  <2> QED
    BY <2>1, <2>2
<1> HIDE DEF Eq
<1>8. PICK e \in [0..n -> Text] :
         /\ e[0] = <<>> /\ \A k \in 1..n : e[k] = e[k - 1] \o Quoted(s[k])
         /\ Str!Abstract!Escaped(s) = e[n]
  BY EscapedIs
<1> DEFINE S == {k \in Nat : k <= n => Wrote(d, done[k], e[k])}
<1>9. 0 \in S
  <2>1. d.string \in Seq(Chars)
    BY SoundFacts DEF Text
  <2>2. d.string \o <<>> = d.string
    BY <2>1, ConcatEmptySeq
  <2> HIDE DEF n
  <2> QED
    BY <1>2, <1>7, <1>8, <2>2 DEF Wrote
<1>10. ASSUME NEW k \in Nat, k \in S PROVE k + 1 \in S
  <2> SUFFICES ASSUME k + 1 <= n PROVE Wrote(d, done[k + 1], e[k + 1])
    OBVIOUS
  <2>1. k + 1 \in 1..n /\ (k + 1) - 1 = k /\ k \in 0..n
    BY <1>1
  <2>2. Wrote(d, done[k], e[k])
    BY <1>10, <2>1
  <2>3. done[k + 1] = Char(done[k], s[k + 1]) /\ e[k + 1] = e[k] \o Quoted(s[k + 1])
    BY <1>7, <1>8, <2>1
  <2>4. Wrote(done[k], done[k + 1], Quoted(s[k + 1]))
    BY <1>3, <2>1, <2>2, <2>3 DEF Wrote
  <2>5. /\ d.string \in Seq(Chars) /\ e[k] \in Seq(Chars) /\ Quoted(s[k + 1]) \in Seq(Chars)
    BY <1>1, <1>8, <2>1, SoundFacts, QuotedText DEF Text
  <2>6. (d.string \o e[k]) \o Quoted(s[k + 1]) = d.string \o (e[k] \o Quoted(s[k + 1]))
    <3>1. \A t, u, v \in Seq(Chars) : (t \o u) \o v = t \o (u \o v)
      BY TextAssociative, Zenon DEF Text
    <3> QED
      BY <2>5, <3>1, Zenon
  <2> QED
    BY <2>2, <2>3, <2>4, <2>6 DEF Wrote
<1>11. Wrote(d, done[n], e[n])
  <2>1. \A k \in Nat : k \in S
    <3> HIDE DEF S
    <3> QED
      BY <1>9, <1>10, SetInduction
  <2> HIDE DEF n
  <2> QED
    BY <1>1, <2>1
<1>12. w = done[n]
  BY DEF Str!ds_put_printable, done, Eq, body, Char, r
<1> QED
  BY <1>8, <1>11, <1>12

\* ds_clear() leaves the memory; what was there without a terminator stays so.
LEMMA TextClear ==
  ASSUME NEW d \in Sound, NEW w, w = Str!ds_clear(d)
  PROVE  w \in Sound /\ w.string = <<>>
<1> DEFINE nul == d.nul /\ d.string = <<>>
<1>1. /\ d.null \in BOOLEAN /\ d.nul \in BOOLEAN /\ d.allocated \in Nat
      /\ d.null => d.allocated = 0
      /\ d = [string |-> d.string, null |-> d.null, nul |-> d.nul,
              allocated |-> d.allocated]
  BY SoundFacts
<1>2. nul \in BOOLEAN
  OBVIOUS
<1>3. w = [d EXCEPT !.string = <<>>, !.nul = nul]
  BY DEF Str!ds_clear
<1> HIDE DEF nul
<1>4. w = [string |-> <<>>, null |-> d.null, nul |-> nul, allocated |-> d.allocated]
  BY <1>1, <1>3
<1>5. <<>> \in Text /\ Len(<<>>) <= d.allocated
  BY <1>1 DEF Text
<1> QED
  BY <1>1, <1>2, <1>4, <1>5 DEF Sound

\* ds_truncate() keeps the first k bytes, if there are more.
LEMMA TextTruncate ==
  ASSUME NEW d \in Sound, NEW k \in Nat, NEW w, w = Str!ds_truncate(d, k)
  PROVE  w \in Sound /\ \E l \in 0..Len(d.string) : w.string = SubSeq(d.string, 1, l)
<1>1. /\ d.string \in Seq(Chars) /\ d.null \in BOOLEAN /\ d.allocated \in Nat
      /\ Len(d.string) \in Nat /\ Len(d.string) <= d.allocated
      /\ d.null => d.string = <<>>
      /\ d = [string |-> d.string, null |-> d.null, nul |-> d.nul,
              allocated |-> d.allocated]
      /\ Str!Length(d) = Len(d.string)
  BY SoundFacts DEF Text
<1>2. CASE Len(d.string) > k
  <2> DEFINE t == SubSeq(d.string, 1, k)
  <2>1. t \in Seq(Chars) /\ Len(t) = k
    BY <1>1, <1>2, SubSeqProperties
  <2>2. w = [d EXCEPT !.string = t, !.nul = TRUE]
    BY <1>1, <1>2 DEF Str!ds_truncate
  <2>3. d.null = FALSE
    BY <1>1, <1>2
  <2>4. k \in 0..Len(d.string) /\ t = SubSeq(d.string, 1, k)
    BY <1>1, <1>2
  <2> HIDE DEF t
  <2>5. w = [string |-> t, null |-> FALSE, nul |-> TRUE, allocated |-> d.allocated]
    BY <1>1, <2>2, <2>3
  <2>6. t \in Text /\ Len(t) <= d.allocated
    BY <1>1, <1>2, <2>1 DEF Text
  <2>7. w \in Sound
    BY <1>1, <2>5, <2>6, SoundIs
  <2>8. w.string = SubSeq(d.string, 1, k)
    BY <2>4, <2>5
  <2> QED
    BY <2>4, <2>7, <2>8, Zenon
<1>3. CASE ~(Len(d.string) > k)
  <2>1. w = d
    BY <1>1, <1>3 DEF Str!ds_truncate
  <2>2. SubSeq(d.string, 1, Len(d.string)) = d.string
    BY <1>1, SubSeqFull
  <2> QED
    BY <1>1, <2>1, <2>2
<1> QED
  BY <1>1, <1>2, <1>3

\* ds_cstr() terminates the text.
LEMMA TextCstr ==
  ASSUME NEW d \in Sound, NEW w, w = Str!ds_cstr(d)
  PROVE  w \in Sound /\ w.string = d.string /\ w.nul = TRUE
<1> DEFINE r == Str!ds_reserve(d, 0)
           m == IF d.null THEN r ELSE d
<1>1. r \in Sound /\ r.string = d.string
  BY TextReserve
<1> HIDE DEF r
<1>2. m \in Sound /\ m.string = d.string
  BY <1>1
<1>3. w = [m EXCEPT !.nul = TRUE]
  BY DEF Str!ds_cstr, r
<1> HIDE DEF m
<1>4. m = [string |-> m.string, null |-> m.null, nul |-> m.nul, allocated |-> m.allocated]
  BY <1>2, SoundFacts
<1>5. w = [string |-> m.string, null |-> m.null, nul |-> TRUE, allocated |-> m.allocated]
  BY <1>3, <1>4
<1>6. w \in Sound
  BY <1>2, <1>5 DEF Sound
<1> QED
  BY <1>2, <1>5, <1>6

\* ds_get_line() leaves the line, whatever was there before.
LEMMA TextGetLine ==
  ASSUME NEW d \in Sound, NEW line \in Text, NEW w, w = Str!ds_get_line(d, line)
  PROVE  w \in Sound /\ w.string = line
<1> DEFINE n == Len(line)
           r == Str!ds_clear(d)
           step == [k \in 1..n |-> [x \in Sound |-> Str!ds_put_char(x, line[k])]]
           body(e, k) == IF k = 0 THEN r ELSE Str!ds_put_char(e[k - 1], line[k])
           Eq(e) == e = [k \in 0..n |-> body(e, k)]
           got == CHOOSE e : Eq(e)
<1>1. n \in Nat /\ line \in Seq(Chars) /\ \A k \in 1..n : line[k] \in Chars
  BY DEF Text
<1>2. r \in Sound /\ r.string = <<>>
  BY TextClear
<1> HIDE DEF r
<1>3. ASSUME NEW k \in 1..n, NEW x \in Sound
      PROVE  Wrote(x, Str!ds_put_char(x, line[k]), <<line[k]>>)
  BY <1>1, TextPutChar
<1>4. PICK f \in [0..n -> Sound] : IsRun(f, n, r, step)
  <2>1. step \in [1..n -> [Sound -> Sound]]
    <3>1. \A k \in 1..n, x \in Sound : Str!ds_put_char(x, line[k]) \in Sound
      BY <1>3 DEF Wrote
    <3> HIDE DEF n
    <3> QED
      BY <3>1
  <2> HIDE DEF n, step
  <2> QED
    BY <1>1, <1>2, <2>1, Iteration
<1>5. Eq(f)
  <2>1. f[0] = r /\ \A k \in 1..n : f[k] = step[k][f[k - 1]]
    BY <1>4 DEF IsRun
  <2>2. ASSUME NEW k \in 0..n PROVE f[k] = body(f, k)
    <3>1. CASE k = 0
      BY <2>1, <3>1
    <3>2. CASE k # 0
      <4>1. k \in 1..n /\ k - 1 \in 0..n
        BY <1>1, <3>2
      <4>2. f[k - 1] \in Sound
        BY <4>1
      <4> QED
        BY <2>1, <3>2, <4>1, <4>2
    <3> QED
      BY <3>1, <3>2
  <2> HIDE DEF n, body
  <2> QED
    BY <2>2
<1>6. Eq(got)
  <2> HIDE DEF Eq
  <2> QED
    BY <1>5
<1> HIDE DEF got
<1>7. got[0] = r /\ \A k \in 1..n : got[k] = Str!ds_put_char(got[k - 1], line[k])
  <2>1. \A k \in 0..n : got[k] = body(got, k)
    <3> HIDE DEF n, body
    <3> QED
      BY <1>6
  <2>2. 0 \in 0..n /\ \A k \in 1..n : k \in 0..n /\ k # 0
    BY <1>1
  <2> HIDE DEF n
  <2> QED
    BY <2>1, <2>2
<1> HIDE DEF Eq
<1> DEFINE S == {k \in Nat :
                   k <= n => got[k] \in Sound /\ got[k].string = SubSeq(line, 1, k)}
<1>8. 0 \in S
  <2>1. SubSeq(line, 1, 0) = <<>>
    BY SubSeqEmpty
  <2> HIDE DEF n
  <2> QED
    BY <1>2, <1>7, <2>1
<1>9. ASSUME NEW k \in Nat, k \in S PROVE k + 1 \in S
  <2> SUFFICES ASSUME k + 1 <= n
               PROVE  got[k + 1] \in Sound /\ got[k + 1].string = SubSeq(line, 1, k + 1)
    OBVIOUS
  <2>1. k + 1 \in 1..n /\ (k + 1) - 1 = k /\ k <= n
    BY <1>1
  <2>2. got[k] \in Sound /\ got[k].string = SubSeq(line, 1, k)
    BY <1>9, <2>1
  <2>3. Wrote(got[k], got[k + 1], <<line[k + 1]>>)
    BY <1>3, <1>7, <2>1, <2>2
  <2>4. SubSeq(line, 1, k + 1) = SubSeq(line, 1, k) \o <<line[k + 1]>>
    <3>1. 1 \in 1..Len(line) /\ k + 1 \in 1..Len(line)
      BY <1>1, <2>1
    <3>2. SubSeq(line, 1, k + 1) = SubSeq(line, 1, (k + 1) - 1) \o <<line[k + 1]>>
      BY <1>1, <3>1, SubSeqRecursiveSecond
    <3> QED
      BY <2>1, <3>2
  <2> QED
    BY <2>2, <2>3, <2>4 DEF Wrote
<1>10. got[n] \in Sound /\ got[n].string = SubSeq(line, 1, n)
  <2>1. \A k \in Nat : k \in S
    <3> HIDE DEF S
    <3> QED
      BY <1>8, <1>9, SetInduction
  <2> HIDE DEF n
  <2> QED
    BY <1>1, <2>1
<1>11. w = got[n]
  BY DEF Str!ds_get_line, got, Eq, body, r
<1>12. SubSeq(line, 1, n) = line
  BY <1>1, SubSeqFull
<1> QED
  BY <1>10, <1>11, <1>12

\* Both modules find the end of a text in the same place.
LEMMA UptoAgree ==
  ASSUME NEW s \in Text, NEW c
  PROVE  Str!Upto(s, c) = Str!Abstract!UpTo(s, c)
<1> DEFINE at == {k \in DOMAIN s : s[k] = c}
<1>1. c \in Str!Abstract!ToSet(s) <=> at # {}
  BY DEF Str!Abstract!ToSet
<1>2. Str!Min(at) = Str!Abstract!Min(at)
  BY DEF Str!Min, Str!Abstract!Min
<1>3. Str!Upto(s, c) = IF at = {} THEN s ELSE SubSeq(s, 1, Str!Min(at) - 1)
  BY DEF Str!Upto
<1>4. Str!Abstract!UpTo(s, c) =
         IF c \in Str!Abstract!ToSet(s) THEN SubSeq(s, 1, Str!Abstract!Min(at) - 1) ELSE s
  BY DEF Str!Abstract!UpTo
<1> HIDE DEF at
<1> QED
  BY <1>1, <1>2, <1>3, <1>4

\* What is seen of a terminated string is its text up to the first NUL.
LEMMA TextSeen ==
  ASSUME NEW d \in Sound, d.nul = TRUE
  PROVE  Str!Seen(d) = Str!Abstract!UpTo(d.string, NUL)
<1>1. Str!Seen(d) = Str!Upto(d.string, NUL)
  BY DEF Str!Seen
<1> QED
  BY <1>1, SoundFacts, UptoAgree

\* A line whose comment is cut off with a NUL is seen without its comment.
LEMMA TextCut ==
  ASSUME NEW d \in Sound, d.nul = TRUE, NEW line \in Text, d.string = line,
         \A l \in 1..Len(line) : line[l] # NUL,
         NEW w, w = Str!Cut(d)
  PROVE  /\ w \in Sound /\ Str!Seen(w) = Str!Abstract!Uncommented(line)
         /\ Str!Abstract!UpTo(w.string, NUL) = Str!Abstract!Uncommented(line)
<1> DEFINE at == {k \in DOMAIN line : line[k] = "#"}
           m == Str!Min(at)
           t == [line EXCEPT ![m] = NUL]
<1>1. /\ line \in Seq(Chars) /\ Len(line) \in Nat /\ DOMAIN line = 1..Len(line)
      /\ d.null \in BOOLEAN /\ d.allocated \in Nat /\ Len(line) <= d.allocated
      /\ d.null => line = <<>>
      /\ d = [string |-> line, null |-> d.null, nul |-> TRUE, allocated |-> d.allocated]
  BY SoundFacts DEF Text
<1>2. w = IF at = {} THEN d ELSE [d EXCEPT !.string[m] = NUL]
  BY DEF Str!Cut
<1>3. Str!Abstract!Uncommented(line) = Str!Upto(line, "#")
  BY UptoAgree DEF Str!Abstract!Uncommented
<1>4. Str!Upto(line, "#") = IF at = {} THEN line ELSE SubSeq(line, 1, m - 1)
  BY DEF Str!Upto
<1>5. CASE at = {}
  <2>1. w = d /\ Str!Abstract!Uncommented(line) = line
    BY <1>2, <1>3, <1>4, <1>5
  <2>2. Str!Abstract!UpTo(line, NUL) = line
    <3>1. NUL \notin Str!Abstract!ToSet(line)
      BY <1>1 DEF Str!Abstract!ToSet
    <3> QED
      BY <3>1 DEF Str!Abstract!UpTo
  <2> QED
    BY <2>1, <2>2, TextSeen
<1>6. CASE at # {}
  <2>1. m \in at /\ m \in 1..Len(line) /\ m \in Nat
    <3>1. at \in SUBSET Nat
      BY <1>1
    <3>2. m = Min(at)
      BY DEF Str!Min, Min
    <3>3. Min(at) \in at
      <4> HIDE DEF at, m
      <4> QED
        BY <1>6, <3>1, MinExists
    <3> QED
      BY <1>1, <3>2, <3>3
  <2> HIDE DEF m
  <2>2. /\ t \in Seq(Chars) /\ Len(t) = Len(line) /\ t[m] = NUL
        /\ \A k \in 1..Len(line) : k # m => t[k] = line[k]
    BY <1>1, <2>1, TextConstants
  <2>3. w = [string |-> t, null |-> d.null, nul |-> TRUE, allocated |-> d.allocated]
    <3>1. w = [d EXCEPT !.string = [d.string EXCEPT ![m] = NUL]]
      BY <1>2, <1>6
    <3> QED
      BY <1>1, <3>1
  <2> HIDE DEF t
  <2>4. d.null = FALSE
    BY <1>1, <2>1
  <2>5. w \in Sound
    <3>1. t \in Text /\ Len(t) <= d.allocated
      BY <1>1, <2>2 DEF Text
    <3> QED
      BY <1>1, <2>3, <2>4, <3>1, SoundIs
  <2>6. {k \in DOMAIN t : t[k] = NUL} = {m}
    BY <1>1, <2>1, <2>2
  <2>7. Str!Upto(t, NUL) = SubSeq(t, 1, m - 1)
    <3>1. Str!Min({m}) = m
      BY <2>1 DEF Str!Min
    <3> QED
      BY <2>6, <3>1 DEF Str!Upto
  <2>8. SubSeq(t, 1, m - 1) = SubSeq(line, 1, m - 1)
    <3>1. m - 1 \in 0..Len(line) /\ m - 1 \in 0..Len(t) /\ 1..(m - 1) \subseteq 1..Len(line)
      BY <1>1, <2>1, <2>2
    <3>2. SubSeq(t, 1, m - 1) = [k \in 1..(m - 1) |-> t[k]]
      BY <2>2, <3>1, SubSeqRestrict DEF Restrict
    <3>3. SubSeq(line, 1, m - 1) = [k \in 1..(m - 1) |-> line[k]]
      BY <1>1, <3>1, SubSeqRestrict DEF Restrict
    <3>4. \A k \in 1..(m - 1) : t[k] = line[k]
      BY <1>1, <2>1, <2>2, <3>1
    <3> QED
      BY <3>2, <3>3, <3>4
  <2>9. Str!Abstract!UpTo(w.string, NUL) = SubSeq(line, 1, m - 1)
    <3>1. t \in Text
      BY <2>2 DEF Text
    <3>2. Str!Abstract!UpTo(t, NUL) = Str!Upto(t, NUL)
      BY <3>1, UptoAgree
    <3>3. w.string = t
      BY <2>3
    <3> QED
      BY <2>7, <2>8, <3>2, <3>3
  <2>10. Str!Seen(w) = Str!Abstract!UpTo(w.string, NUL)
    BY <2>3, <2>5, TextSeen
  <2> QED
    BY <1>3, <1>4, <1>6, <2>5, <2>9, <2>10
<1> QED
  BY <1>5, <1>6

\* A line that has been read and cut is blank for ds_get_preprocessed_line() when it is.
LEMMA TextLine ==
  ASSUME NEW d \in Sound, NEW line \in Text, \A l \in 1..Len(line) : line[l] # NUL,
         NEW w, w = Str!Cut(Str!ds_cstr(Str!ds_get_line(d, line)))
  PROVE  /\ w \in Sound /\ Str!IsSpace(Str!Seen(w)) = Str!Abstract!Blank(line)
         /\ Str!Abstract!UpTo(w.string, NUL) = Str!Abstract!Uncommented(line)
<1> DEFINE read == Str!ds_get_line(d, line)
           shown == Str!ds_cstr(read)
<1>1. read \in Sound /\ read.string = line
  BY TextGetLine
<1>2. shown \in Sound /\ shown.string = line /\ shown.nul = TRUE
  <2> HIDE DEF read
  <2> QED
    BY <1>1, TextCstr
<1>3. w = Str!Cut(shown)
  OBVIOUS
<1> HIDE DEF shown
<1>4. /\ w \in Sound /\ Str!Seen(w) = Str!Abstract!Uncommented(line)
      /\ Str!Abstract!UpTo(w.string, NUL) = Str!Abstract!Uncommented(line)
  BY <1>2, <1>3, TextCut
<1>5. Str!IsSpace(Str!Seen(w)) = Str!Abstract!Blank(line)
  BY <1>4 DEF Str!IsSpace, Str!Abstract!Blank, Str!ToSet, Str!Abstract!ToSet,
    Str!Space, Str!Abstract!Space
<1> QED
  BY <1>4, <1>5

\* ds_get_preprocessed_line() stops at the first line that is not blank.
LEMMA TextUsefulLine ==
  ASSUME NEW d \in Sound, NEW file \in Files,
         NEW got, got = Str!ds_get_preprocessed_line(d, file),
         NEW lines, lines = {k \in DOMAIN file : ~Str!Abstract!Blank(file[k])}
  PROVE  /\ got.d \in Sound
         /\ lines = {} => got.d.string = <<>> /\ got.rc = -1 /\ got.read = Len(file)
         /\ lines # {} => /\ Str!Abstract!UpTo(got.d.string, NUL) =
                               Str!Abstract!Uncommented(file[Str!Abstract!Min(lines)])
                          /\ got.rc = 0 /\ got.read = Str!Abstract!Min(lines)
<1> DEFINE n == Len(file)
           Read(x, line) == Str!Cut(Str!ds_cstr(Str!ds_get_line(x, line)))
           step == [k \in 1..n |-> [x \in Sound |-> Read(x, file[k])]]
           body(e, k) == IF k = 0 THEN d ELSE Read(e[k - 1], file[k])
           Eq(e) == e = [k \in 0..n |-> body(e, k)]
           After == CHOOSE e : Eq(e)
<1>1. /\ n \in Nat /\ file \in Seq(Text) /\ DOMAIN file = 1..n
      /\ \A k \in 1..n : file[k] \in Text /\ \A l \in 1..Len(file[k]) : file[k][l] # NUL
  BY TextConstants
<1>2. ASSUME NEW k \in 1..n, NEW x \in Sound
      PROVE  /\ Read(x, file[k]) \in Sound
             /\ Str!IsSpace(Str!Seen(Read(x, file[k]))) = Str!Abstract!Blank(file[k])
             /\ Str!Abstract!UpTo(Read(x, file[k]).string, NUL) =
                  Str!Abstract!Uncommented(file[k])
  <2> DEFINE line == file[k]
             w == Read(x, line)
  <2>1. line \in Text /\ \A l \in 1..Len(line) : line[l] # NUL
    BY <1>1
  <2>2. w = Str!Cut(Str!ds_cstr(Str!ds_get_line(x, line)))
    OBVIOUS
  <2> HIDE DEF line, w
  <2>3. /\ w \in Sound /\ Str!IsSpace(Str!Seen(w)) = Str!Abstract!Blank(line)
        /\ Str!Abstract!UpTo(w.string, NUL) = Str!Abstract!Uncommented(line)
    BY <2>1, <2>2, TextLine
  <2> QED
    BY <2>3 DEF line, w
<1> HIDE DEF Read
<1>3. PICK f \in [0..n -> Sound] : IsRun(f, n, d, step)
  <2>1. step \in [1..n -> [Sound -> Sound]]
    <3>1. \A k \in 1..n, x \in Sound : Read(x, file[k]) \in Sound
      BY <1>2
    <3> HIDE DEF n
    <3> QED
      BY <3>1
  <2> HIDE DEF n, step
  <2> QED
    BY <1>1, <2>1, Iteration
<1>4. Eq(f)
  <2>1. f[0] = d /\ \A k \in 1..n : f[k] = step[k][f[k - 1]]
    BY <1>3 DEF IsRun
  <2>2. ASSUME NEW k \in 0..n PROVE f[k] = body(f, k)
    <3>1. CASE k = 0
      BY <2>1, <3>1
    <3>2. CASE k # 0
      <4>1. k \in 1..n /\ k - 1 \in 0..n
        BY <1>1, <3>2
      <4>2. f[k - 1] \in Sound
        BY <4>1
      <4> QED
        BY <2>1, <3>2, <4>1, <4>2
    <3> QED
      BY <3>1, <3>2
  <2> HIDE DEF n, body
  <2> QED
    BY <2>2
<1>5. Eq(After)
  <2> HIDE DEF Eq
  <2> QED
    BY <1>4
<1> HIDE DEF After
<1>6. After[0] = d /\ \A k \in 1..n : After[k] = Read(After[k - 1], file[k])
  <2>1. \A k \in 0..n : After[k] = body(After, k)
    <3> HIDE DEF n, body
    <3> QED
      BY <1>5
  <2>2. 0 \in 0..n /\ \A k \in 1..n : k \in 0..n /\ k # 0
    BY <1>1
  <2> HIDE DEF n
  <2> QED
    BY <2>1, <2>2
<1> HIDE DEF Eq
<1> DEFINE S == {k \in Nat : k <= n => After[k] \in Sound}
<1>7. \A k \in 0..n : After[k] \in Sound
  <2>1. 0 \in S
    BY <1>6
  <2>2. ASSUME NEW k \in Nat, k \in S PROVE k + 1 \in S
    <3> SUFFICES ASSUME k + 1 <= n PROVE After[k + 1] \in Sound
      OBVIOUS
    <3>1. k + 1 \in 1..n /\ (k + 1) - 1 = k /\ After[k] \in Sound
      BY <1>1, <2>2
    <3> QED
      BY <1>2, <1>6, <3>1
  <2>3. \A k \in Nat : k \in S
    <3> HIDE DEF S
    <3> QED
      BY <2>1, <2>2, SetInduction
  <2> HIDE DEF n
  <2> QED
    BY <1>1, <2>3
<1>8. \A k \in 1..n : /\ Str!IsSpace(Str!Seen(After[k])) = Str!Abstract!Blank(file[k])
                      /\ Str!Abstract!UpTo(After[k].string, NUL) =
                           Str!Abstract!Uncommented(file[k])
  <2> SUFFICES ASSUME NEW k \in 1..n
               PROVE  /\ Str!IsSpace(Str!Seen(After[k])) = Str!Abstract!Blank(file[k])
                      /\ Str!Abstract!UpTo(After[k].string, NUL) =
                           Str!Abstract!Uncommented(file[k])
    OBVIOUS
  <2> DEFINE x == After[k - 1]
  <2>1. x \in Sound /\ After[k] = Read(x, file[k])
    BY <1>1, <1>6, <1>7
  <2> HIDE DEF x, n
  <2> QED
    BY <1>2, <2>1
<1> DEFINE useful == {k \in DOMAIN file : ~Str!IsSpace(Str!Seen(After[k]))}
           last == After[n]
           cleared == Str!ds_clear(last)
<1>9. useful = lines
  BY <1>1, <1>8
<1>10. got = IF useful = {} THEN [d |-> cleared, rc |-> -1, read |-> n]
             ELSE [d |-> After[Str!Min(useful)], rc |-> 0, read |-> Str!Min(useful)]
  BY DEF Str!ds_get_preprocessed_line, After, Eq, body, Read
<1>11. cleared \in Sound /\ cleared.string = <<>>
  <2>1. last \in Sound
    BY <1>1, <1>7
  <2> HIDE DEF last
  <2> QED
    BY <2>1, TextClear
<1>12. lines # {} => Str!Min(lines) \in 1..n
  <2>1. lines \in SUBSET Nat /\ lines \subseteq 1..n
    BY <1>1
  <2>2. Str!Min(lines) = Min(lines)
    BY DEF Str!Min, Min
  <2> HIDE DEF n
  <2> QED
    BY <2>1, <2>2, MinExists
<1>13. Str!Abstract!Min(lines) = Str!Min(lines)
  BY DEF Str!Min, Str!Abstract!Min
<1> DEFINE m == Str!Min(lines)
<1>14. got = IF lines = {} THEN [d |-> cleared, rc |-> -1, read |-> n]
             ELSE [d |-> After[m], rc |-> 0, read |-> m]
  BY <1>9, <1>10
<1> HIDE DEF useful, cleared, m
<1>15. CASE lines = {}
  BY <1>11, <1>14, <1>15
<1>16. CASE lines # {}
  <2>1. m \in 1..n /\ m \in 0..n /\ Str!Abstract!Min(lines) = m
    BY <1>1, <1>12, <1>13, <1>16 DEF m
  <2>2. got.d = After[m] /\ got.rc = 0 /\ got.read = m
    BY <1>14, <1>16
  <2> HIDE DEF n
  <2> QED
    BY <1>7, <1>8, <1>16, <2>1, <2>2
<1> QED
  BY <1>15, <1>16

\* What the steps of a string keep.
TextsGood(d, ab) == d \in Sound /\ ab \in BOOLEAN

\* A call that answers and leaves a sound string answers for the text, which is safe.
LEMMA TextAnswers ==
  ASSUME ds \in Sound, dsAborted = FALSE, ds' \in Sound, NEW answer, Str!Answers(answer)
  PROVE  TextsGood(ds', dsAborted') /\ Str!Abstract!Answers(answer)
<1>1. Str!Fits(ds) /\ Str!Fits(ds')
  BY SoundFacts DEF Str!Fits
<1>2. dsRet' = answer /\ dsAborted' = FALSE
  BY DEF Str!Answers
<1>3. (~dsAborted' /\ Str!Fits(ds')) = (~dsAborted /\ Str!Fits(ds))
  BY <1>1, <1>2
<1> QED
  BY <1>2, <1>3 DEF TextsGood, Str!Abstract!Answers, Str!Fits

\* So does one that answers with a number or nothing.
LEMMA TextReturns ==
  ASSUME ds \in Sound, dsAborted = FALSE, ds' \in Sound
  PROVE  /\ \A rc : Str!Returns(rc) =>
               TextsGood(ds', dsAborted') /\ Str!Abstract!Returns(rc)
         /\ Str!Silent => TextsGood(ds', dsAborted') /\ Str!Abstract!Silent
         /\ \A s : Str!Shows(s) =>
               TextsGood(ds', dsAborted') /\ Str!Abstract!AnswersText(s)
<1>1. \A answer : Str!Answers(answer) =>
         TextsGood(ds', dsAborted') /\ Str!Abstract!Answers(answer)
  BY TextAnswers
<1>2. Str!NoAnswer = Str!Abstract!NoAnswer
  BY DEF Str!NoAnswer, Str!Abstract!NoAnswer
<1> QED
  BY <1>1, <1>2 DEF Str!Returns, Str!Abstract!Returns, Str!Silent, Str!Abstract!Silent,
    Str!Shows, Str!Abstract!AnswersText

\* What is put is put behind the text, escaped or as it is, and no assertion fails.
LEMMA TextsPut ==
  ASSUME ds \in Sound, dsAborted = FALSE, NEW s \in Pieces, Str!PutPiece(s)
  PROVE  TextsGood(ds', dsAborted') /\ Str!Abstract!Put(s)
<1>1. s \in Text
  BY TextConstants
<1>2. Str!FormatAsserts(ds, s)
  BY <1>1, TextPutFormat
<1>3. Wrote(ds, ds', s) \/ Wrote(ds, ds', Str!Abstract!Escaped(s))
  <2>1. CASE ds' = Str!Put(ds, s)
    BY <1>1, <2>1, TextPut
  <2>2. CASE ds' = Str!ds_put_printable(ds, s)
    BY <1>1, <2>2, TextPutPrintable
  <2>3. CASE ds' = Str!ds_put_format(ds, s)
    BY <1>1, <2>3, TextPutFormat
  <2> QED
    BY <2>1, <2>2, <2>3 DEF Str!PutPiece
<1>4. Str!Silent
  <2>1. dsRet' = Str!NoAnswer /\ dsAborted' = FALSE
    BY <1>2 DEF Str!PutPiece
  <2> QED
    <3>1. [Str!NoAnswer EXCEPT !.rc = 0] = Str!NoAnswer
      BY DEF Str!NoAnswer
    <3> QED
      BY <2>1, <3>1 DEF Str!Silent, Str!Returns, Str!Answers
<1>5. TextsGood(ds', dsAborted') /\ Str!Abstract!Silent
  BY <1>3, <1>4, TextReturns DEF Wrote
<1> QED
  BY <1>3, <1>5 DEF Wrote, Str!Abstract!Put

\* So is a character.
LEMMA TextsPutChar ==
  ASSUME ds \in Sound, dsAborted = FALSE, NEW s \in Pieces, s # <<>>, Str!PutChar(Head(s))
  PROVE  TextsGood(ds', dsAborted') /\ Str!Abstract!Put(<<Head(s)>>)
<1>1. Head(s) \in Chars
  BY TextConstants, HeadTailProperties DEF Text
<1>2. ds' = Str!ds_put_char(ds, Head(s)) /\ Str!Silent
  BY DEF Str!PutChar
<1> DEFINE c == Head(s)
<1> HIDE DEF c
<1>3. Wrote(ds, ds', <<c>>)
  BY <1>1, <1>2, TextPutChar DEF c
<1>4. TextsGood(ds', dsAborted') /\ Str!Abstract!Silent
  BY <1>2, <1>3, TextReturns DEF Wrote
<1>5. Str!Abstract!Put(<<c>>)
  BY <1>3, <1>4 DEF Wrote, Str!Abstract!Put
<1> QED
  BY <1>4, <1>5 DEF c

\* Clearing and truncating cut the text off somewhere.
LEMMA TextsCut ==
  ASSUME ds \in Sound, dsAborted = FALSE,
         Str!Clear \/ \E s \in Pieces : Str!Truncate(Len(s))
  PROVE  TextsGood(ds', dsAborted') /\ Str!Abstract!Truncate
<1>1. Str!Silent
  BY DEF Str!Clear, Str!Truncate
<1>2. ds' \in Sound /\ \E k \in 0..Len(ds.string) : ds'.string = SubSeq(ds.string, 1, k)
  <2>1. CASE Str!Clear
    <3>1. ds' \in Sound /\ ds'.string = <<>>
      BY <2>1, TextClear DEF Str!Clear
    <3>2. SubSeq(ds.string, 1, 0) = <<>>
      BY SubSeqEmpty
    <3>3. 0 \in 0..Len(ds.string)
      BY SoundFacts
    <3> QED
      BY <3>1, <3>2, <3>3
  <2>2. ASSUME NEW s \in Pieces, Str!Truncate(Len(s))
        PROVE  /\ ds' \in Sound
               /\ \E k \in 0..Len(ds.string) : ds'.string = SubSeq(ds.string, 1, k)
    <3>1. Len(s) \in Nat
      BY TextConstants DEF Text
    <3>2. ds' = Str!ds_truncate(ds, Len(s))
      BY <2>2 DEF Str!Truncate
    <3> QED
      BY <3>1, <3>2, TextTruncate
  <2> QED
    BY <2>1, <2>2
<1>3. TextsGood(ds', dsAborted') /\ Str!Abstract!Silent
  BY <1>1, <1>2, TextReturns
<1> QED
  BY <1>2, <1>3 DEF Str!Abstract!Truncate

\* A line replaces the text.
LEMMA TextsGetLine ==
  ASSUME ds \in Sound, dsAborted = FALSE, NEW file \in Files, Str!GetLine(file)
  PROVE  TextsGood(ds', dsAborted') /\ Str!Abstract!GetLine(file)
<1>1. CASE file = <<>>
  <2>1. ds' \in Sound /\ ds'.string = <<>> /\ Str!Returns(-1)
    BY <1>1, TextClear DEF Str!GetLine
  <2>2. TextsGood(ds', dsAborted') /\ Str!Abstract!Returns(-1)
    BY <2>1, TextReturns
  <2> QED
    BY <1>1, <2>1, <2>2 DEF Str!Abstract!GetLine
<1>2. CASE file # <<>>
  <2> DEFINE line == file[1]
  <2>1. line \in Text
    BY <1>2, TextConstants
  <2>2. ds' = Str!ds_get_line(ds, line) /\ Str!Returns(0)
    BY <1>2 DEF Str!GetLine
  <2> HIDE DEF line
  <2>3. ds' \in Sound /\ ds'.string = line
    BY <2>1, <2>2, TextGetLine
  <2>4. TextsGood(ds', dsAborted') /\ Str!Abstract!Returns(0)
    BY <2>2, <2>3, TextReturns
  <2> QED
    BY <1>2, <2>3, <2>4 DEF Str!Abstract!GetLine, line
<1> QED
  BY <1>1, <1>2

\* Likewise the first line that is not blank.
LEMMA TextsGetUsefulLine ==
  ASSUME ds \in Sound, dsAborted = FALSE, NEW file \in Files, Str!GetUsefulLine(file)
  PROVE  TextsGood(ds', dsAborted') /\ Str!Abstract!GetUsefulLine(file)
<1> DEFINE got == Str!ds_get_preprocessed_line(ds, file)
           lines == {k \in DOMAIN file : ~Str!Abstract!Blank(file[k])}
           answer == [Str!NoAnswer EXCEPT !.rc = got.rc, !.read = got.read]
<1>1. ds' = got.d /\ Str!Answers(answer)
  BY DEF Str!GetUsefulLine
<1>2. /\ got.d \in Sound
      /\ lines = {} => got.d.string = <<>> /\ got.rc = -1 /\ got.read = Len(file)
      /\ lines # {} => /\ Str!Abstract!UpTo(got.d.string, NUL) =
                            Str!Abstract!Uncommented(file[Str!Abstract!Min(lines)])
                       /\ got.rc = 0 /\ got.read = Str!Abstract!Min(lines)
  <2> HIDE DEF got, lines
  <2> QED
    BY TextUsefulLine DEF got, lines
<1>3. /\ lines = {} =>
            answer = [Str!Abstract!NoAnswer EXCEPT !.rc = -1, !.read = Len(file)]
      /\ lines # {} =>
            answer = [Str!Abstract!NoAnswer EXCEPT !.read = Str!Abstract!Min(lines)]
  <2> DEFINE none == Str!NoAnswer
  <2>1. none = Str!Abstract!NoAnswer /\ none = [none EXCEPT !.rc = 0]
    BY DEF Str!NoAnswer, Str!Abstract!NoAnswer
  <2>2. answer = [none EXCEPT !.rc = got.rc, !.read = got.read]
    OBVIOUS
  <2> HIDE DEF got, lines, none, answer
  <2>3. CASE lines = {}
    BY <1>2, <2>1, <2>2, <2>3
  <2>4. CASE lines # {}
    BY <1>2, <2>1, <2>2, <2>4
  <2> QED
    BY <2>3, <2>4
<1> HIDE DEF got, answer
<1>4. TextsGood(ds', dsAborted') /\ Str!Abstract!Answers(answer)
  BY <1>1, <1>2, TextAnswers
<1>5. Str!Abstract!GetUsefulLine(file)
  <2>1. CASE lines = {}
    <3>1. ds'.string = <<>>
      BY <1>1, <1>2, <2>1
    <3>2. Str!Abstract!Answers([Str!Abstract!NoAnswer EXCEPT !.rc = -1, !.read = Len(file)])
      BY <1>3, <1>4, <2>1
    <3> QED
      BY <2>1, <3>1, <3>2 DEF Str!Abstract!GetUsefulLine
  <2>2. CASE lines # {}
    <3>1. Str!Abstract!UpTo(ds'.string, NUL) =
             Str!Abstract!Uncommented(file[Str!Abstract!Min(lines)])
      BY <1>1, <1>2, <2>2
    <3>2. Str!Abstract!Answers([Str!Abstract!NoAnswer EXCEPT
                                  !.read = Str!Abstract!Min(lines)])
      BY <1>3, <1>4, <2>2
    <3> QED
      BY <2>2, <3>1, <3>2 DEF Str!Abstract!GetUsefulLine
  <2> QED
    BY <2>1, <2>2
<1> QED
  BY <1>4, <1>5

\* Who asks for the text gets it, up to the first NUL; a text that is taken leaves none.
LEMMA TextsAsked ==
  ASSUME ds \in Sound, dsAborted = FALSE
  PROVE  /\ Str!Cstr => TextsGood(ds', dsAborted') /\ Str!Abstract!Cstr
         /\ Str!Steal => TextsGood(ds', dsAborted') /\ Str!Abstract!Steal
         /\ Str!AskLast => TextsGood(ds', dsAborted') /\ Str!Abstract!AskLast
<1> DEFINE shown == Str!ds_cstr(ds)
<1>1. shown \in Sound /\ shown.string = ds.string /\ shown.nul = TRUE
  BY TextCstr
<1> HIDE DEF shown
<1>2. Str!Seen(shown) = Str!Abstract!UpTo(ds.string, NUL)
  BY <1>1, TextSeen
<1> DEFINE text == Str!Abstract!UpTo(ds.string, NUL)
<1>3. ASSUME Str!Cstr PROVE TextsGood(ds', dsAborted') /\ Str!Abstract!Cstr
  <2>1. ds' = shown /\ Str!Shows(Str!Seen(ds'))
    BY <1>3 DEF Str!Cstr, shown
  <2>2. Str!Shows(text)
    BY <1>2, <2>1
  <2>3. ds' \in Sound /\ ds'.string = ds.string
    BY <1>1, <2>1
  <2> HIDE DEF text
  <2>4. TextsGood(ds', dsAborted') /\ Str!Abstract!AnswersText(text)
    BY <2>2, <2>3, TextReturns
  <2> QED
    BY <2>3, <2>4 DEF Str!Abstract!Cstr, text
<1>4. ASSUME Str!Steal PROVE TextsGood(ds', dsAborted') /\ Str!Abstract!Steal
  <2>1. ds' = Str!ds_init /\ Str!Shows(text)
    BY <1>2, <1>4 DEF Str!Steal, shown
  <2>2. ds' \in Sound /\ ds'.string = <<>>
    BY <2>1 DEF Str!ds_init, Sound, Text
  <2> HIDE DEF text
  <2>3. TextsGood(ds', dsAborted') /\ Str!Abstract!AnswersText(text)
    BY <2>1, <2>2, TextReturns
  <2> QED
    BY <2>2, <2>3 DEF Str!Abstract!Steal, text
<1>5. ASSUME Str!AskLast PROVE TextsGood(ds', dsAborted') /\ Str!Abstract!AskLast
  <2> DEFINE end == IF ds.string = <<>> THEN <<>> ELSE <<Str!Last(ds.string)>>
  <2>1. ds' = ds /\ Str!Shows(end)
    BY <1>5 DEF Str!AskLast
  <2>2. end = IF ds.string = <<>> THEN <<>> ELSE <<Str!Abstract!Last(ds.string)>>
    BY DEF Str!Last, Str!Abstract!Last
  <2> HIDE DEF end
  <2>3. TextsGood(ds', dsAborted') /\ Str!Abstract!AnswersText(end)
    BY <2>1, TextReturns
  <2> QED
    BY <2>1, <2>2, <2>3 DEF Str!Abstract!AskLast
<1> QED
  BY <1>3, <1>4, <1>5

\* ds_chomp() takes the last character away if it is the one asked for.
LEMMA TextsChomp ==
  ASSUME ds \in Sound, dsAborted = FALSE, NEW c, Str!Chomp(c)
  PROVE  TextsGood(ds', dsAborted') /\ Str!Abstract!Chomp(c)
<1>1. /\ ds.string \in Seq(Chars) /\ ds.null \in BOOLEAN /\ ds.allocated \in Nat
      /\ Len(ds.string) \in Nat /\ Len(ds.string) <= ds.allocated
      /\ ds.null => ds.string = <<>>
      /\ ds = [string |-> ds.string, null |-> ds.null, nul |-> ds.nul,
               allocated |-> ds.allocated]
  BY SoundFacts DEF Text
<1>2. Str!Last(ds.string) = Str!Abstract!Last(ds.string)
  BY DEF Str!Last, Str!Abstract!Last
<1>3. CASE ds.string # <<>> /\ Str!Last(ds.string) = c
  <2> DEFINE t == Str!Front(ds.string)
  <2>1. t = Str!Abstract!Front(ds.string) /\ t = SubSeq(ds.string, 1, Len(ds.string) - 1)
    BY DEF Str!Front, Str!Abstract!Front
  <2>2. ds' = [ds EXCEPT !.string = t, !.nul = TRUE] /\ Str!Returns(1)
    BY <1>3 DEF Str!Chomp
  <2> HIDE DEF t
  <2>3. t \in Text /\ Len(t) <= ds.allocated
    <3> DEFINE l == Len(ds.string) - 1
    <3>1. l \in Nat /\ l < Len(ds.string)
      BY <1>1, <1>3
    <3>2. \A i \in 1..l : ds.string[i] \in Chars
      BY <1>1, <3>1
    <3>3. t = SubSeq(ds.string, 1, l)
      BY <2>1
    <3> HIDE DEF l
    <3>4. t \in Seq(Chars) /\ Len(t) = IF 1 <= l THEN l - 1 + 1 ELSE 0
      BY <3>1, <3>2, <3>3, SubSeqProperties
    <3> QED
      BY <1>1, <3>1, <3>4 DEF Text
  <2>4. ds' = [string |-> t, null |-> FALSE, nul |-> TRUE, allocated |-> ds.allocated]
    <3>1. ds.null = FALSE
      BY <1>1, <1>3
    <3> QED
      BY <1>1, <2>2, <3>1
  <2>5. ds' \in Sound /\ ds'.string = t
    BY <1>1, <2>3, <2>4, SoundIs
  <2>6. TextsGood(ds', dsAborted') /\ Str!Abstract!Returns(1)
    BY <2>2, <2>5, TextReturns
  <2> QED
    BY <1>2, <1>3, <2>1, <2>5, <2>6 DEF Str!Abstract!Chomp
<1>4. CASE ~(ds.string # <<>> /\ Str!Last(ds.string) = c)
  <2>1. ds' = ds /\ Str!Returns(0)
    BY <1>4 DEF Str!Chomp
  <2>2. TextsGood(ds', dsAborted') /\ Str!Abstract!Returns(0)
    BY <2>1, TextReturns
  <2> QED
    BY <1>2, <1>4, <2>1, <2>2 DEF Str!Abstract!Chomp
<1> QED
  BY <1>3, <1>4

\* ds_clone() reads through a null pointer only when the text is empty.
LEMMA TextsClone ==
  ASSUME ds \in Sound, dsAborted = FALSE, Str!Clone
  PROVE  TextsGood(ds', dsAborted') /\ Str!Abstract!Clone
<1>1. /\ ds.string \in Text /\ ds.null \in BOOLEAN /\ ds.nul \in BOOLEAN
      /\ Len(ds.string) \in Nat /\ Str!Length(ds) = Len(ds.string)
      /\ ds.null => ds.string = <<>>
      /\ ds = [string |-> ds.string, null |-> ds.null, nul |-> ds.nul,
               allocated |-> ds.allocated]
  BY SoundFacts
<1>2. CASE ds.null
  <2>1. dsAborted' = TRUE /\ ds' = ds /\ dsRet' = dsRet
    BY <1>2 DEF Str!Clone
  <2>2. (~dsAborted' /\ Str!Fits(ds')) = FALSE /\ ds.string = <<>> /\ ds'.string = ds.string
    BY <1>1, <1>2, <2>1
  <2> QED
    BY <2>1, <2>2 DEF TextsGood, Str!Abstract!Clone
<1>3. CASE ~ds.null
  <2> DEFINE al == Len(ds.string)
  <2>1. ds' = [ds EXCEPT !.allocated = al] /\ Str!Silent
    BY <1>1, <1>3 DEF Str!Clone
  <2>2. al \in Nat /\ Len(ds.string) <= al
    BY <1>1
  <2> HIDE DEF al
  <2>3. ds' = [string |-> ds.string, null |-> FALSE, nul |-> ds.nul, allocated |-> al]
    BY <1>1, <1>3, <2>1
  <2>4. ds' \in Sound /\ ds'.string = ds.string
    BY <1>1, <2>2, <2>3, SoundIs
  <2>5. TextsGood(ds', dsAborted') /\ Str!Abstract!Silent
    BY <2>1, <2>4, TextReturns
  <2> QED
    BY <2>4, <2>5 DEF Str!Abstract!Clone
<1> QED
  BY <1>2, <1>3

\* Each call of a string does to its text what it promises.
LEMMA TextsStep ==
  ASSUME TextsGood(ds, dsAborted), Str!Next
  PROVE  TextsGood(ds', dsAborted') /\ Str!Abstract!Next
<1>1. ds \in Sound /\ dsAborted = FALSE
  <2>1. ~dsAborted
    BY DEF Str!Next
  <2> QED
    BY <2>1 DEF TextsGood
<1>2. ~dsAborted /\ Str!Fits(ds)
  BY <1>1, SoundFacts DEF Str!Fits
<1>3. ASSUME NEW s \in Pieces, Str!PutPiece(s)
      PROVE  TextsGood(ds', dsAborted') /\ Str!Abstract!Next
  <2>1. TextsGood(ds', dsAborted') /\ Str!Abstract!Put(s)
    BY <1>1, <1>3, TextsPut
  <2> QED
    BY <1>2, <2>1 DEF Str!Abstract!Next
<1>4. ASSUME NEW s \in Pieces, s # <<>>, Str!PutChar(Head(s))
      PROVE  TextsGood(ds', dsAborted') /\ Str!Abstract!Next
  <2>1. TextsGood(ds', dsAborted') /\ Str!Abstract!Put(<<Head(s)>>)
    BY <1>1, <1>4, TextsPutChar
  <2> QED
    BY <1>2, <1>4, <2>1 DEF Str!Abstract!Next
<1>5. CASE Str!Clear \/ \E s \in Pieces : Str!Truncate(Len(s))
  <2>1. TextsGood(ds', dsAborted') /\ Str!Abstract!Truncate
    BY <1>1, <1>5, TextsCut
  <2> QED
    BY <1>2, <2>1 DEF Str!Abstract!Next
<1>6. ASSUME NEW file \in Files, Str!GetLine(file)
      PROVE  TextsGood(ds', dsAborted') /\ Str!Abstract!Next
  <2>1. TextsGood(ds', dsAborted') /\ Str!Abstract!GetLine(file)
    BY <1>1, <1>6, TextsGetLine
  <2> QED
    BY <1>2, <2>1 DEF Str!Abstract!Next
<1>7. ASSUME NEW file \in Files, Str!GetUsefulLine(file)
      PROVE  TextsGood(ds', dsAborted') /\ Str!Abstract!Next
  <2>1. TextsGood(ds', dsAborted') /\ Str!Abstract!GetUsefulLine(file)
    BY <1>1, <1>7, TextsGetUsefulLine
  <2> QED
    BY <1>2, <2>1 DEF Str!Abstract!Next
<1>8. CASE Str!Cstr \/ Str!Steal \/ Str!AskLast
  <2>1. /\ TextsGood(ds', dsAborted')
        /\ Str!Abstract!Cstr \/ Str!Abstract!Steal \/ Str!Abstract!AskLast
    BY <1>1, <1>8, TextsAsked
  <2> QED
    BY <1>2, <2>1 DEF Str!Abstract!Next
<1>9. CASE Str!Chomp(Str!Space)
  <2>1. Str!Space = Str!Abstract!Space
    BY DEF Str!Space, Str!Abstract!Space
  <2>2. TextsGood(ds', dsAborted') /\ Str!Abstract!Chomp(Str!Space)
    BY <1>1, <1>9, TextsChomp
  <2> QED
    BY <1>2, <2>1, <2>2 DEF Str!Abstract!Next
<1>10. CASE Str!Clone
  <2>1. TextsGood(ds', dsAborted') /\ Str!Abstract!Clone
    BY <1>1, <1>10, TextsClone
  <2> QED
    BY <1>2, <2>1 DEF Str!Abstract!Next
<1> QED
  BY <1>3, <1>4, <1>5, <1>6, <1>7, <1>8, <1>9, <1>10 DEF Str!Next

\* The steps of the other containers leave the string alone.
LEMMA ContainersTextsStep ==
  ASSUME TextsGood(ds, dsAborted), [Next]_vars
  PROVE  TextsGood(ds', dsAborted') /\ [Str!Abstract!Next]_(Str!Abstract!vars)
<1>1. CASE Str!Next
  BY <1>1, TextsStep
<1>2. CASE UNCHANGED dsVars
  <2>1. ds' = ds /\ dsRet' = dsRet /\ dsAborted' = dsAborted
    BY <1>2 DEF dsVars
  <2>2. (~dsAborted' /\ Str!Fits(ds')) = (~dsAborted /\ Str!Fits(ds))
    BY <2>1
  <2> QED
    BY <2>1, <2>2 DEF Str!Abstract!vars, Str!Fits
<1> QED
  BY <1>1, <1>2 DEF Next, vars

\* A dynamic string is the text that was put, terminated, inside its memory.
THEOREM StringsImplementTexts == Spec => ImplementsTexts
<1>1. Init => TextsGood(ds, dsAborted) /\ Str!Abstract!Init
  <2> SUFFICES ASSUME Init PROVE TextsGood(ds, dsAborted) /\ Str!Abstract!Init
    OBVIOUS
  <2>1. ds = Str!ds_init /\ dsRet = Str!NoAnswer /\ dsAborted = FALSE
    BY DEF Init, Str!Init
  <2>2. ds \in Sound /\ ds.string = <<>>
    BY <2>1 DEF Str!ds_init, Sound, Text
  <2>3. (~dsAborted /\ Str!Fits(ds)) = TRUE
    BY <2>1, <2>2 DEF Str!Fits, Str!ds_init
  <2> QED
    BY <2>1, <2>2, <2>3 DEF TextsGood, Str!Abstract!Init, Str!NoAnswer,
      Str!Abstract!NoAnswer
<1>2. /\ TextsGood(ds, dsAborted) /\ [Next]_vars
      => TextsGood(ds, dsAborted)' /\ [Str!Abstract!Next]_(Str!Abstract!vars)
  BY ContainersTextsStep
<1> QED
  BY <1>1, <1>2, PTL DEF Spec, ImplementsTexts, Str!ImplementsTexts, Str!Abstract!Spec

-----------------------------------------------------------------------------
(* Sets of strings *)

\* Of the variables of HmapWalk these facts mention none but the map, if any.
HS == INSTANCE HmapProofs WITH
          Nodes <- Strings, Hash <- StringHash, map <- setA, Reservations <- {},
          safe <- FALSE, cursor <- NULL, ahead <- NULL, due <- {}, seen <- {},
          twice <- FALSE, resized <- FALSE, fast <- FALSE

\* The facts about maps apply to the sets.
LEMMA SetConstants == HS!HmapAssumption /\ HS!ReservationsAssumption
  BY ContainersAssumption
     DEF ContainersAssumption, Set!HmapAssumption, HS!HmapAssumption,
         HS!ReservationsAssumption

\* The functions of hmap.c that sset.c calls are those the facts are about.
LEMMA SetBasics ==
  /\ Set!HMAP_INITIALIZER = HS!HMAP_INITIALIZER
  /\ \A h, x : Set!hmap_insert_fast(h, x) = HS!hmap_insert_fast(h, x)
  /\ \A h, x : Set!hmap_insert(h, x) = HS!hmap_insert(h, x)
  /\ \A h, x : Set!hmap_remove(h, x) = HS!hmap_remove(h, x)
  /\ \A h : Set!Traversal(h) = HS!Traversal(h)
  /\ \A h : Set!hmap_first(h) = HS!hmap_first(h)
  /\ \A h, hash : Set!hmap_first_with_hash(h, hash) = HS!hmap_first_with_hash(h, hash)
  /\ \A h, x : Set!hmap_next_with_hash(h, x) = HS!hmap_next_with_hash(h, x)
<1>1. Set!HMAP_INITIALIZER = HS!HMAP_INITIALIZER
  BY DEF Set!HMAP_INITIALIZER, HS!HMAP_INITIALIZER
<1>2. \A h, x : Set!Bucket(h, x) = HS!Bucket(h, x)
  BY DEF Set!Bucket, HS!Bucket
<1>3. \A h, x : Set!hmap_insert_fast(h, x) = HS!hmap_insert_fast(h, x)
  BY DEF Set!hmap_insert_fast, HS!hmap_insert_fast, Set!Bucket, HS!Bucket
<1>4. \A h, x : Set!hmap_remove(h, x) = HS!hmap_remove(h, x)
  BY DEF Set!hmap_remove, HS!hmap_remove, Set!Bucket, HS!Bucket,
     Set!RemoveFirst, HS!RemoveFirst, Set!RemoveAt, HS!RemoveAt, Set!SelectInSeq,
     HS!SelectInSeq, Set!Min, HS!Min
<1>5. \A h : Set!Traversal(h) = HS!Traversal(h)
  BY DEF Set!Traversal, HS!Traversal, Set!FlattenSeq, HS!FlattenSeq
<1>6. \A h : Set!hmap_first(h) = HS!hmap_first(h)
  BY DEF Set!hmap_first, HS!hmap_first, Set!hmap_next__, HS!hmap_next__
<1>7. \A h, hash : Set!hmap_first_with_hash(h, hash) = HS!hmap_first_with_hash(h, hash)
  BY DEF Set!hmap_first_with_hash, HS!hmap_first_with_hash,
     Set!SelectInSeq, HS!SelectInSeq, Set!Min, HS!Min
<1>8. \A h, x : Set!hmap_next_with_hash(h, x) = HS!hmap_next_with_hash(h, x)
  BY DEF Set!hmap_next_with_hash, HS!hmap_next_with_hash, Set!Bucket, HS!Bucket,
     Set!SelectInSeq, HS!SelectInSeq, Set!SelectInSubSeq, HS!SelectInSubSeq, Set!Min, HS!Min
<1>9. Set!LowBits = HS!LowBits
  BY DEF Set!LowBits, HS!LowBits
<1>10. \A c : Set!calc_mask(c) = HS!calc_mask(c)
  BY <1>9 DEF Set!calc_mask, HS!calc_mask, Set!Min, HS!Min
<1>11. \A n, m : Set!Refilled(n, m) = HS!Refilled(n, m)
  BY <1>3 DEF Set!Refilled, HS!Refilled
<1>12. \A h, x : Set!hmap_insert(h, x) = HS!hmap_insert(h, x)
  BY <1>3, <1>5, <1>10, <1>11
     DEF Set!hmap_insert, HS!hmap_insert, Set!hmap_expand, HS!hmap_expand,
         Set!resize, HS!resize
<1> QED
  BY <1>1, <1>3, <1>4, <1>5, <1>6, <1>7, <1>8, <1>12

\* The names of a set are those in the chains of its table; a traversal delivers each once.
LEMMA SetElements ==
  ASSUME NEW h, HS!Good(h)
  PROVE  /\ Set!Elements(h) = HS!Held(h) /\ h.n \in Nat
         /\ Set!Traversal(h) \in Seq(Strings) /\ HS!IsInjective(Set!Traversal(h))
         /\ HS!ToSet(Set!Traversal(h)) = HS!Held(h) /\ Len(Set!Traversal(h)) = h.n
         /\ IsFiniteSet(HS!Held(h)) /\ h.n = Cardinality(HS!Held(h))
<1>1. /\ HS!Traversal(h) \in Seq(Strings) /\ HS!Elements(h) = HS!Held(h)
      /\ HS!IsInjective(HS!Traversal(h)) /\ Len(HS!Traversal(h)) = h.n
  BY SetConstants, HS!TraversalOfGood
<1>2. Set!Traversal(h) = HS!Traversal(h)
  BY SetBasics
<1>3. Set!Elements(h) = HS!Elements(h)
  BY <1>2 DEF Set!Elements, HS!Elements, Set!ToSet, HS!ToSet
<1>4. h.n \in Nat
  BY DEF HS!Good, HS!Shaped
<1>5. IsFiniteSet(HS!Held(h)) /\ h.n = Cardinality(HS!Held(h))
  BY DEF HS!Good, HS!IsFiniteSet, HS!Cardinality, IsFiniteSet, Cardinality
<1> QED
  BY <1>1, <1>2, <1>3, <1>4, <1>5 DEF HS!Elements

\* sset_contains() finds a name in its chain, whatever collides with it.
LEMMA SetContains ==
  ASSUME NEW h, HS!Good(h), NEW n \in Strings
  PROVE  Set!sset_contains(h, n) <=> n \in HS!Held(h)
<1> DEFINE hash == StringHash[n]
           Eq(f) == f = [k \in 0..h.n |->
                       IF k = 0 THEN Set!hmap_first_with_hash(h, hash)
                       ELSE IF f[k - 1] \in {n, NULL} THEN f[k - 1]
                       ELSE Set!hmap_next_with_hash(h, f[k - 1])]
           Found == CHOOSE f : Eq(f)
<1>1. hash \in Nat /\ NULL \notin Strings
  BY SetConstants DEF HS!HmapAssumption
<1>2. /\ \E f : HS!SearchEquation(f, h, hash, {n})
      /\ \A f : HS!SearchEquation(f, h, hash, {n}) =>
            f[h.n] \in {n} \cap HS!Held(h) \/ (f[h.n] = NULL /\ {n} \cap HS!Held(h) = {})
  <2>1. {n} \in SUBSET Strings /\ \A x \in {n} : StringHash[x] = hash
    OBVIOUS
  <2> HIDE DEF hash
  <2> QED
    BY <1>1, <2>1, SetConstants, HS!SearchSolved
<1>3. \A f : HS!SearchEquation(f, h, hash, {n}) <=> Eq(f)
  <2>1. {n} \cup {NULL} = {n, NULL}
    OBVIOUS
  <2> HIDE DEF hash
  <2> QED
    BY <2>1, SetBasics DEF HS!SearchEquation
<1>4. Eq(Found)
  <2> HIDE DEF Eq
  <2> QED
    BY <1>2, <1>3
<1>5. Set!sset_find(h, n) = Found[h.n]
  BY DEF Set!sset_find
<1>6. Found[h.n] \in {n} \cap HS!Held(h) \/ (Found[h.n] = NULL /\ {n} \cap HS!Held(h) = {})
  <2> HIDE DEF Eq, Found
  <2> QED
    BY <1>2, <1>3, <1>4
<1> HIDE DEF Found
<1> QED
  BY <1>1, <1>5, <1>6 DEF Set!sset_contains

\* sset_add() inserts a name that is not there.
LEMMA SetAdd ==
  ASSUME NEW h, HS!Good(h), NEW n \in Strings
  PROVE  /\ HS!Good(Set!sset_add(h, n))
         /\ HS!Held(Set!sset_add(h, n)) = HS!Held(h) \cup {n}
<1>1. CASE n \in HS!Held(h)
  <2>1. Set!sset_add(h, n) = h
    BY <1>1, SetContains DEF Set!sset_add
  <2> QED
    BY <1>1, <2>1
<1>2. CASE n \notin HS!Held(h)
  <2>1. Set!sset_add(h, n) = HS!hmap_insert(h, n)
    BY <1>2, SetContains, SetBasics DEF Set!sset_add
  <2>2. HS!Good(HS!hmap_insert(h, n)) /\ HS!Held(HS!hmap_insert(h, n)) = HS!Held(h) \cup {n}
    BY <1>2, SetConstants, HS!InsertGood
  <2> QED
    BY <2>1, <2>2
<1> QED
  BY <1>1, <1>2

\* sset_find_and_delete() removes a name that is there.
LEMMA SetDelete ==
  ASSUME NEW h, HS!Good(h), NEW n \in Strings
  PROVE  /\ HS!Good(Set!sset_find_and_delete(h, n))
         /\ HS!Held(Set!sset_find_and_delete(h, n)) = HS!Held(h) \ {n}
<1>1. CASE n \notin HS!Held(h)
  <2>1. Set!sset_find_and_delete(h, n) = h
    BY <1>1, SetContains DEF Set!sset_find_and_delete
  <2> QED
    BY <1>1, <2>1
<1>2. CASE n \in HS!Held(h)
  <2>1. Set!sset_find_and_delete(h, n) = HS!hmap_remove(h, n)
    BY <1>2, SetContains, SetBasics DEF Set!sset_find_and_delete
  <2>2. HS!Good(HS!hmap_remove(h, n)) /\ HS!Held(HS!hmap_remove(h, n)) = HS!Held(h) \ {n}
    BY <1>2, SetConstants, HS!RemoveGood
  <2> QED
    BY <2>1, <2>2
<1> QED
  BY <1>1, <1>2

\* sset_clone() inserts the names into a new map.
LEMMA SetClone ==
  ASSUME NEW h, HS!Good(h)
  PROVE  /\ HS!Good(Set!sset_clone(h))
         /\ HS!Held(Set!sset_clone(h)) = HS!Held(h)
<1> DEFINE names == Set!Traversal(h)
           L == Len(names)
           Eq(g) == g = [k \in 0..L |-> IF k = 0 THEN Set!HMAP_INITIALIZER
                                        ELSE Set!hmap_insert(g[k - 1], names[k])]
           set == CHOOSE g : Eq(g)
<1>1. /\ names \in Seq(Strings) /\ HS!IsInjective(names) /\ HS!ToSet(names) = HS!Held(h)
  BY SetElements
<1>2. Set!sset_clone(h) = set[L]
  BY DEF Set!sset_clone
<1> HIDE DEF names
<1>3. /\ \E g : HS!FillingEquation(g, names)
      /\ \A g : HS!FillingEquation(g, names) =>
            HS!Good(g[L]) /\ HS!Held(g[L]) = HS!ToSet(names)
  BY <1>1, SetConstants, HS!FillingSolved
<1>4. \A g : HS!FillingEquation(g, names) <=> Eq(g)
  BY SetBasics DEF HS!FillingEquation
<1>5. Eq(set)
  <2> HIDE DEF Eq
  <2> QED
    BY <1>3, <1>4
<1> HIDE DEF Eq, set
<1> QED
  BY <1>1, <1>2, <1>3, <1>4, <1>5

\* sset_clear() removes the names one by one.
LEMMA SetClear ==
  ASSUME NEW h, HS!Good(h)
  PROVE  HS!Good(Set!sset_clear(h)) /\ HS!Held(Set!sset_clear(h)) = {}
<1> DEFINE names == Set!Traversal(h)
           L == Len(names)
           Eq(g) == g = [k \in 0..L |-> IF k = 0 THEN h
                                        ELSE Set!hmap_remove(g[k - 1], names[k])]
           set == CHOOSE g : Eq(g)
<1>1. /\ names \in Seq(Strings) /\ HS!IsInjective(names) /\ HS!ToSet(names) = HS!Held(h)
  BY SetElements
<1>2. Set!sset_clear(h) = set[L]
  BY DEF Set!sset_clear
<1> HIDE DEF names
<1>3. /\ \E g : HS!EmptyingEquation(g, h, names, Strings)
      /\ \A g : HS!EmptyingEquation(g, h, names, Strings) =>
            HS!Good(g[L]) /\ HS!Held(g[L]) = HS!Held(h) \ Strings
  BY <1>1, SetConstants, HS!EmptyingSolved
<1>4. \A g : HS!EmptyingEquation(g, h, names, Strings) <=> Eq(g)
  <2>1. \A k \in 0..L : k # 0 => names[k] \in Strings
    BY <1>1
  <2>2. \A g : [k \in 0..L |->
                   IF k = 0 THEN h
                   ELSE IF names[k] \in Strings THEN HS!hmap_remove(g[k - 1], names[k])
                   ELSE g[k - 1]]
               = [k \in 0..L |-> IF k = 0 THEN h ELSE Set!hmap_remove(g[k - 1], names[k])]
    BY <2>1, SetBasics
  <2> QED
    BY <2>2 DEF HS!EmptyingEquation
<1>5. Eq(set)
  <2> HIDE DEF Eq
  <2> QED
    BY <1>3, <1>4
<1> HIDE DEF Eq, set
<1>6. HS!Held(h) \ Strings = {}
  BY DEF HS!Held
<1> QED
  BY <1>2, <1>3, <1>4, <1>5, <1>6

\* sset_intersect() removes the names that the other set does not contain.
LEMMA SetIntersect ==
  ASSUME NEW h, HS!Good(h), NEW o, HS!Good(o)
  PROVE  /\ HS!Good(Set!sset_intersect(h, o))
         /\ HS!Held(Set!sset_intersect(h, o)) = HS!Held(h) \cap HS!Held(o)
<1> DEFINE names == Set!Traversal(h)
           L == Len(names)
           W == Strings \ HS!Held(o)
           Eq(g) == g = [k \in 0..L |-> IF k = 0 THEN h
                                        ELSE IF Set!sset_contains(o, names[k]) THEN g[k - 1]
                                        ELSE Set!hmap_remove(g[k - 1], names[k])]
           set == CHOOSE g : Eq(g)
<1>1. /\ names \in Seq(Strings) /\ HS!IsInjective(names) /\ HS!ToSet(names) = HS!Held(h)
  BY SetElements
<1>2. Set!sset_intersect(h, o) = set[L]
  BY DEF Set!sset_intersect
<1> HIDE DEF names
<1>3. /\ \E g : HS!EmptyingEquation(g, h, names, W)
      /\ \A g : HS!EmptyingEquation(g, h, names, W) =>
            HS!Good(g[L]) /\ HS!Held(g[L]) = HS!Held(h) \ W
  <2> HIDE DEF W
  <2> QED
    BY <1>1, SetConstants, HS!EmptyingSolved
<1>4. \A g : HS!EmptyingEquation(g, h, names, W) <=> Eq(g)
  <2>1. \A k \in 0..L : k # 0 => (names[k] \in W <=> ~Set!sset_contains(o, names[k]))
    <3>1. \A k \in 0..L : k # 0 => names[k] \in Strings
      BY <1>1
    <3> QED
      BY <3>1, SetContains
  <2> HIDE DEF W
  <2>2. \A g : [k \in 0..L |->
                   IF k = 0 THEN h
                   ELSE IF names[k] \in W THEN HS!hmap_remove(g[k - 1], names[k])
                   ELSE g[k - 1]]
               = [k \in 0..L |-> IF k = 0 THEN h
                                 ELSE IF Set!sset_contains(o, names[k]) THEN g[k - 1]
                                 ELSE Set!hmap_remove(g[k - 1], names[k])]
    BY <2>1, SetBasics
  <2> QED
    BY <2>2 DEF HS!EmptyingEquation
<1>5. Eq(set)
  <2> HIDE DEF Eq
  <2> QED
    BY <1>3, <1>4
<1>6. HS!Held(h) \ W = HS!Held(h) \cap HS!Held(o)
  BY DEF HS!Held
<1> HIDE DEF Eq, set
<1> QED
  BY <1>2, <1>3, <1>4, <1>5, <1>6

\* sset_equals() compares the counters and looks each name up.
LEMMA SetEquals ==
  ASSUME NEW h, HS!Good(h), NEW o, HS!Good(o)
  PROVE  Set!sset_equals(h, o) <=> HS!Held(h) = HS!Held(o)
<1> DEFINE names == Set!Traversal(h)
<1>1. /\ names \in Seq(Strings) /\ HS!ToSet(names) = HS!Held(h)
      /\ IsFiniteSet(HS!Held(h)) /\ h.n = Cardinality(HS!Held(h))
      /\ IsFiniteSet(HS!Held(o)) /\ o.n = Cardinality(HS!Held(o))
  BY SetElements
<1>2. Set!sset_equals(h, o)
        <=> h.n = o.n /\ \A k \in 1..Len(names) : Set!sset_contains(o, names[k])
  BY DEF Set!sset_equals
<1> HIDE DEF names
<1>3. (\A k \in 1..Len(names) : Set!sset_contains(o, names[k]))
        <=> HS!Held(h) \subseteq HS!Held(o)
  <2>1. \A k \in 1..Len(names) : names[k] \in Strings
    BY <1>1
  <2>2. HS!Held(h) = {names[k] : k \in 1..Len(names)}
    BY <1>1 DEF HS!ToSet
  <2> QED
    BY <2>1, <2>2, SetContains
<1>4. ASSUME HS!Held(h) \subseteq HS!Held(o), h.n = o.n PROVE HS!Held(h) = HS!Held(o)
  BY <1>1, <1>4, FS_Subset
<1> QED
  BY <1>1, <1>2, <1>3, <1>4

\* sset_pop() takes the name that the map delivers first.
LEMMA SetPop ==
  ASSUME NEW h, HS!Good(h), h.n > 0, NEW g, g = Set!hmap_remove(h, Set!hmap_first(h))
  PROVE  HS!Good(g) /\ \E n \in HS!Held(h) : HS!Held(g) = HS!Held(h) \ {n}
<1> DEFINE x == HS!hmap_first(h)
<1>1. x \in HS!Held(h)
  BY SetConstants, HS!FirstHeld
<1>2. g = HS!hmap_remove(h, x)
  BY SetBasics
<1> HIDE DEF x
<1>3. HS!Good(g) /\ HS!Held(g) = HS!Held(h) \ {x}
  BY <1>1, <1>2, SetConstants, HS!RemoveGood
<1> QED
  BY <1>1, <1>3

\* Two well-formed sets, and whether an assertion failed.
SetsGood(s, o, stopped) == HS!Good(s) /\ HS!Good(o) /\ stopped \in BOOLEAN

\* Every call on the sets is a call on sets of names.
LEMMA SetsStep ==
  ASSUME SetsGood(setA, setB, setAborted), Set!Next
  PROVE  SetsGood(setA', setB', setAborted') /\ Set!Abstract!Next
<1> DEFINE A == HS!Held(setA)
           B == HS!Held(setB)
           A1 == HS!Held(setA')
           B1 == HS!Held(setB')
           G1 == HS!Good(setA') /\ HS!Good(setB') /\ setAborted' \in BOOLEAN
<1>1. /\ HS!Good(setA) /\ HS!Good(setB) /\ setAborted = FALSE
      /\ A \subseteq Strings
  BY DEF SetsGood, Set!Next, HS!Held
<1>2. /\ Set!Elements(setA) = A /\ Set!Elements(setB) = B
  BY <1>1, SetElements
<1>3. G1 => Set!Elements(setA)' = A1 /\ Set!Elements(setB)' = B1
  BY SetElements
<1>4. \A n \in Strings : Set!sset_contains(setA, n) <=> n \in A
  BY <1>1, SetContains
<1> HIDE DEF A, B, A1, B1
<1>5. ASSUME NEW n \in Strings, Set!Add(n)
      PROVE  /\ G1 /\ A1 = A \cup {n} /\ B1 = B /\ UNCHANGED setAborted
             /\ setRet' = (n \notin A)
  <2>1. /\ setA' = Set!sset_add(setA, n) /\ setB' = setB /\ setAborted' = setAborted
        /\ setRet' = ~Set!sset_contains(setA, n)
    BY <1>5 DEF Set!Add, Set!Returns
  <2>2. G1 /\ A1 = A \cup {n} /\ B1 = B
    BY <1>1, <2>1, SetAdd DEF A, B, A1, B1
  <2>3. setRet' = (n \notin A)
    BY <1>4, <2>1
  <2> QED
    BY <2>1, <2>2, <2>3
<1>6. ASSUME NEW n \in Strings, Set!AddAssert(n)
      PROVE  /\ G1 /\ A1 = A \cup {n} /\ B1 = B /\ UNCHANGED setRet
             /\ setAborted' = (n \in A)
  <2>1. /\ setA' = Set!sset_add(setA, n) /\ setB' = setB /\ setRet' = setRet
        /\ setAborted' = ~(~Set!sset_contains(setA, n))
    BY <1>6 DEF Set!AddAssert, Set!Asserting
  <2>2. HS!Good(setA') /\ HS!Good(setB') /\ A1 = A \cup {n} /\ B1 = B
    BY <1>1, <2>1, SetAdd DEF A, B, A1, B1
  <2>3. setAborted' = (n \in A)
    BY <1>4, <2>1
  <2> QED
    BY <2>1, <2>2, <2>3
<1>7. ASSUME NEW n \in Strings, Set!FindAndDelete(n)
      PROVE  /\ G1 /\ A1 = A \ {n} /\ B1 = B /\ UNCHANGED setAborted
             /\ setRet' = (n \in A)
  <2>1. /\ setA' = Set!sset_find_and_delete(setA, n) /\ setB' = setB
        /\ setAborted' = setAborted /\ setRet' = Set!sset_contains(setA, n)
    BY <1>7 DEF Set!FindAndDelete, Set!Returns
  <2>2. G1 /\ A1 = A \ {n} /\ B1 = B
    BY <1>1, <2>1, SetDelete DEF A, B, A1, B1
  <2>3. setRet' = (n \in A)
    BY <1>4, <2>1 DEF Set!sset_contains
  <2> QED
    BY <2>1, <2>2, <2>3
<1>8. ASSUME NEW n \in Strings, Set!FindAndDeleteAssert(n)
      PROVE  /\ G1 /\ A1 = A \ {n} /\ B1 = B /\ UNCHANGED setRet
             /\ setAborted' = (n \notin A)
  <2>1. /\ setA' = Set!sset_find_and_delete(setA, n) /\ setB' = setB /\ setRet' = setRet
        /\ setAborted' = ~Set!sset_contains(setA, n)
    BY <1>8 DEF Set!FindAndDeleteAssert, Set!Asserting
  <2>2. HS!Good(setA') /\ HS!Good(setB') /\ A1 = A \ {n} /\ B1 = B
    BY <1>1, <2>1, SetDelete DEF A, B, A1, B1
  <2>3. setAborted' = (n \notin A)
    BY <1>4, <2>1
  <2> QED
    BY <2>1, <2>2, <2>3
<1>9. ASSUME NEW n \in Strings, Set!HasName(n)
      PROVE  /\ G1 /\ A1 = A /\ B1 = B /\ UNCHANGED setAborted
             /\ setRet' = (n \in A)
  <2>1. /\ setA' = setA /\ setB' = setB /\ setAborted' = setAborted
        /\ setRet' = Set!sset_contains(setA, n)
    BY <1>9 DEF Set!HasName, Set!Returns
  <2>2. setRet' = (n \in A)
    BY <1>4, <2>1 DEF Set!sset_contains
  <2> QED
    BY <1>1, <2>1, <2>2 DEF A, B, A1, B1
<1>10. ASSUME Set!Pop
       PROVE  /\ G1 /\ (\E n \in A : A1 = A \ {n}) /\ B1 = B
              /\ UNCHANGED <<setRet, setAborted>>
  <2>1. /\ setA.n > 0 /\ setA' = Set!hmap_remove(setA, Set!hmap_first(setA))
        /\ setB' = setB /\ setRet' = setRet /\ setAborted' = setAborted
    BY <1>10 DEF Set!Pop
  <2>2. HS!Good(setA') /\ \E n \in A : A1 = A \ {n}
    BY <1>1, <2>1, SetPop DEF A, A1
  <2> QED
    BY <1>1, <2>1, <2>2 DEF B, B1
<1>11. ASSUME Set!Clear
       PROVE  G1 /\ A1 = {} /\ B1 = B /\ UNCHANGED <<setRet, setAborted>>
  <2>1. /\ setA' = Set!sset_clear(setA)
        /\ setB' = setB /\ setRet' = setRet /\ setAborted' = setAborted
    BY <1>11 DEF Set!Clear
  <2> QED
    BY <1>1, <2>1, SetClear DEF A1, B, B1
<1>12. ASSUME Set!Clone
       PROVE  G1 /\ B1 = A /\ A1 = A /\ UNCHANGED <<setRet, setAborted>>
  <2>1. /\ setB' = Set!sset_clone(setA)
        /\ setA' = setA /\ setRet' = setRet /\ setAborted' = setAborted
    BY <1>12 DEF Set!Clone
  <2> QED
    BY <1>1, <2>1, SetClone DEF A, A1, B1
<1>13. ASSUME Set!Swap
       PROVE  G1 /\ A1 = B /\ B1 = A /\ UNCHANGED <<setRet, setAborted>>
  <2>1. setA' = setB /\ setB' = setA /\ setRet' = setRet /\ setAborted' = setAborted
    BY <1>13 DEF Set!Swap
  <2> QED
    BY <1>1, <2>1 DEF A, A1, B, B1
<1>14. ASSUME Set!Intersect
       PROVE  G1 /\ A1 = A \cap B /\ B1 = B /\ UNCHANGED <<setRet, setAborted>>
  <2>1. /\ setA' = Set!sset_intersect(setA, setB)
        /\ setB' = setB /\ setRet' = setRet /\ setAborted' = setAborted
    BY <1>14 DEF Set!Intersect
  <2> QED
    BY <1>1, <2>1, SetIntersect DEF A, A1, B, B1
<1>15. ASSUME Set!Equals
       PROVE  /\ G1 /\ A1 = A /\ B1 = B /\ UNCHANGED setAborted
              /\ setRet' = (A = B)
  <2>1. /\ setA' = setA /\ setB' = setB /\ setAborted' = setAborted
        /\ setRet' = Set!sset_equals(setA, setB)
    BY <1>15 DEF Set!Equals, Set!Returns
  <2>2. Set!sset_equals(setA, setB) <=> A = B
    BY <1>1, SetEquals DEF A, B
  <2>3. setRet' = (A = B)
    BY <2>1, <2>2 DEF Set!sset_equals
  <2> QED
    BY <1>1, <2>1, <2>3 DEF A, B, A1, B1
<1>16. SetsGood(setA', setB', setAborted')
  BY <1>5, <1>6, <1>7, <1>8, <1>9, <1>10, <1>11, <1>12, <1>13, <1>14, <1>15
     DEF Set!Next, SetsGood
<1>17. Set!Elements(setA)' = A1 /\ Set!Elements(setB)' = B1
  BY <1>3, <1>16 DEF SetsGood
<1> HIDE DEF G1
<1>18. Set!Abstract!Next
  <2>1. \A n \in Strings : Set!Add(n) => Set!Abstract!Add(n)
    BY <1>2, <1>5, <1>17 DEF Set!Abstract!Add, Set!Abstract!Returns
  <2>2. ASSUME NEW n \in Strings, Set!AddAssert(n) PROVE Set!Abstract!AddAssert(n)
    <3>1. CASE n \in A
      <4>1. A1 = A /\ setAborted' = TRUE
        BY <1>6, <2>2, <3>1
      <4> QED
        BY <1>2, <1>6, <1>17, <2>2, <3>1, <4>1 DEF Set!Abstract!AddAssert
    <3>2. CASE n \notin A
      <4>1. setAborted' = FALSE
        <5>1. setAborted' = (n \in A)
          BY <1>6, <2>2
        <5>2. (n \in A) = FALSE
          BY <3>2
        <5> QED
          BY <5>1, <5>2, Zenon
      <4> QED
        BY <1>1, <1>2, <1>6, <1>17, <2>2, <3>2, <4>1 DEF Set!Abstract!AddAssert
    <3> QED
      BY <3>1, <3>2
  <2>3. \A n \in Strings : Set!FindAndDelete(n) => Set!Abstract!FindAndDelete(n)
    BY <1>2, <1>7, <1>17 DEF Set!Abstract!FindAndDelete, Set!Abstract!Returns
  <2>4. ASSUME NEW n \in Strings, Set!FindAndDeleteAssert(n)
        PROVE  Set!Abstract!FindAndDeleteAssert(n)
    <3>1. CASE n \notin A
      <4>1. A1 = A /\ setAborted' = TRUE
        BY <1>8, <2>4, <3>1
      <4> QED
        BY <1>2, <1>8, <1>17, <2>4, <3>1, <4>1 DEF Set!Abstract!FindAndDeleteAssert
    <3>2. CASE n \in A
      <4>1. setAborted' = setAborted
        BY <1>1, <1>8, <2>4, <3>2
      <4> QED
        BY <1>2, <1>8, <1>17, <2>4, <3>2, <4>1 DEF Set!Abstract!FindAndDeleteAssert
    <3> QED
      BY <3>1, <3>2
  <2>5. \A n \in Strings : Set!HasName(n) => Set!Abstract!Contains(n)
    BY <1>2, <1>9, <1>17 DEF Set!Abstract!Contains, Set!Abstract!Returns
  <2>6. Set!Pop => Set!Abstract!Pop
    BY <1>2, <1>10, <1>17 DEF Set!Abstract!Pop
  <2>7. Set!Clear => Set!Abstract!Clear
    BY <1>2, <1>11, <1>17 DEF Set!Abstract!Clear
  <2>8. Set!Clone => Set!Abstract!Clone
    BY <1>2, <1>12, <1>17 DEF Set!Abstract!Clone
  <2>9. Set!Swap => Set!Abstract!Swap
    BY <1>2, <1>13, <1>17 DEF Set!Abstract!Swap
  <2>10. Set!Intersect => Set!Abstract!Intersect
    BY <1>2, <1>14, <1>17 DEF Set!Abstract!Intersect
  <2>11. Set!Equals => Set!Abstract!Equals
    BY <1>2, <1>15, <1>17 DEF Set!Abstract!Equals, Set!Abstract!Returns
  <2> QED
    BY <1>1, <2>1, <2>2, <2>3, <2>4, <2>5, <2>6, <2>7, <2>8, <2>9, <2>10, <2>11
       DEF Set!Next, Set!Abstract!Next
<1> QED
  BY <1>16, <1>18

\* A step of the containers is a call on the sets or leaves them alone.
LEMMA ContainersSetsStep ==
  ASSUME SetsGood(setA, setB, setAborted), [Next]_vars
  PROVE  SetsGood(setA', setB', setAborted') /\ [Set!Abstract!Next]_(Set!Abstract!vars)
<1>1. CASE Set!Next
  BY <1>1, SetsStep
<1>2. CASE UNCHANGED setVars
  <2>1. setA' = setA /\ setB' = setB /\ setRet' = setRet /\ setAborted' = setAborted
    BY <1>2 DEF setVars
  <2>2. Set!Elements(setA)' = Set!Elements(setA) /\ Set!Elements(setB)' = Set!Elements(setB)
    BY <2>1
  <2> QED
    BY <2>1, <2>2 DEF SetsGood, Set!Abstract!vars
<1> QED
  BY <1>1, <1>2 DEF Next, vars

\* Hashing, collisions and the growth of the table never show in a set of strings.
THEOREM SetsImplementNameSets == Spec => ImplementsNameSets
<1>1. Init => SetsGood(setA, setB, setAborted) /\ Set!Abstract!Init
  <2> SUFFICES ASSUME Init PROVE SetsGood(setA, setB, setAborted) /\ Set!Abstract!Init
    OBVIOUS
  <2>1. /\ setA = Set!HMAP_INITIALIZER /\ setB = Set!HMAP_INITIALIZER
        /\ setRet = FALSE /\ setAborted = FALSE
    BY DEF Init, Set!Init
  <2>2. HS!Good(HS!HMAP_INITIALIZER) /\ HS!Held(HS!HMAP_INITIALIZER) = {}
    BY SetConstants, HS!InitializerGood
  <2>3. Set!Elements(HS!HMAP_INITIALIZER) = {}
    BY <2>2, SetElements
  <2> QED
    BY <2>1, <2>2, <2>3, SetBasics DEF SetsGood, Set!Abstract!Init
<1>2. /\ SetsGood(setA, setB, setAborted) /\ [Next]_vars
      => SetsGood(setA, setB, setAborted)' /\ [Set!Abstract!Next]_(Set!Abstract!vars)
  BY ContainersSetsStep
<1> QED
  BY <1>1, <1>2, PTL DEF Spec, ImplementsNameSets, Set!ImplementsNameSets, Set!Abstract!Spec

-----------------------------------------------------------------------------
(* Maps from strings to data *)

HM == INSTANCE HmapProofs WITH
          Nodes <- MapNodes, Hash <- MapHash, map <- mapA, Reservations <- {},
          safe <- FALSE, cursor <- NULL, ahead <- NULL, due <- {}, seen <- {},
          twice <- FALSE, resized <- FALSE, fast <- FALSE

\* The facts about maps apply to the maps.
LEMMA MapConstants ==
  /\ HM!HmapAssumption /\ HM!ReservationsAssumption
  /\ NameOf \in [MapNodes -> Map!Names] /\ NULL \notin MapNodes /\ NULL \in Data
  /\ \A x, y \in MapNodes : NameOf[x] = NameOf[y] => MapHash[x] = MapHash[y]
  /\ \A x \in MapNodes : MapHash[x] \in Nat
  BY ContainersAssumption
     DEF ContainersAssumption, Map!HmapAssumption, Map!ConstantsOK, HM!HmapAssumption,
         HM!ReservationsAssumption

\* The functions of hmap.c that shash.c calls are those the facts are about.
LEMMA MapBasics ==
  /\ Map!HMAP_INITIALIZER = HM!HMAP_INITIALIZER
  /\ \A h, x : Map!hmap_insert(h, x) = HM!hmap_insert(h, x)
  /\ \A h, x : Map!hmap_remove(h, x) = HM!hmap_remove(h, x)
  /\ \A h : Map!Traversal(h) = HM!Traversal(h)
  /\ \A h, hash : Map!hmap_first_with_hash(h, hash) = HM!hmap_first_with_hash(h, hash)
  /\ \A h, x : Map!hmap_next_with_hash(h, x) = HM!hmap_next_with_hash(h, x)
<1>1. Map!HMAP_INITIALIZER = HM!HMAP_INITIALIZER
  BY DEF Map!HMAP_INITIALIZER, HM!HMAP_INITIALIZER
<1>2. \A h, x : Map!Bucket(h, x) = HM!Bucket(h, x)
  BY DEF Map!Bucket, HM!Bucket
<1>3. \A h, x : Map!hmap_insert_fast(h, x) = HM!hmap_insert_fast(h, x)
  BY DEF Map!hmap_insert_fast, HM!hmap_insert_fast, Map!Bucket, HM!Bucket
<1>4. \A h, x : Map!hmap_remove(h, x) = HM!hmap_remove(h, x)
  BY DEF Map!hmap_remove, HM!hmap_remove, Map!Bucket, HM!Bucket,
     Map!RemoveFirst, HM!RemoveFirst, Map!RemoveAt, HM!RemoveAt, Map!SelectInSeq,
     HM!SelectInSeq, Map!Min, HM!Min
<1>5. \A h : Map!Traversal(h) = HM!Traversal(h)
  BY DEF Map!Traversal, HM!Traversal, Map!FlattenSeq, HM!FlattenSeq
<1>6. \A h, hash : Map!hmap_first_with_hash(h, hash) = HM!hmap_first_with_hash(h, hash)
  BY DEF Map!hmap_first_with_hash, HM!hmap_first_with_hash,
     Map!SelectInSeq, HM!SelectInSeq, Map!Min, HM!Min
<1>7. \A h, x : Map!hmap_next_with_hash(h, x) = HM!hmap_next_with_hash(h, x)
  BY DEF Map!hmap_next_with_hash, HM!hmap_next_with_hash, Map!Bucket, HM!Bucket,
     Map!SelectInSeq, HM!SelectInSeq, Map!SelectInSubSeq, HM!SelectInSubSeq, Map!Min, HM!Min
<1>8. Map!LowBits = HM!LowBits
  BY DEF Map!LowBits, HM!LowBits
<1>9. \A c : Map!calc_mask(c) = HM!calc_mask(c)
  BY <1>8 DEF Map!calc_mask, HM!calc_mask, Map!Min, HM!Min
<1>10. \A n, m : Map!Refilled(n, m) = HM!Refilled(n, m)
  BY <1>3 DEF Map!Refilled, HM!Refilled
<1>11. \A h, x : Map!hmap_insert(h, x) = HM!hmap_insert(h, x)
  BY <1>3, <1>5, <1>9, <1>10
     DEF Map!hmap_insert, HM!hmap_insert, Map!hmap_expand, HM!hmap_expand,
         Map!resize, HM!resize
<1> QED
  BY <1>1, <1>4, <1>5, <1>6, <1>7, <1>11

\* The nodes of a map.
LEMMA MapElements ==
  ASSUME NEW h, HM!Good(h)
  PROVE  /\ Map!Elements(h) = HM!Held(h) /\ HM!Held(h) \subseteq MapNodes
         /\ IsFiniteSet(HM!Held(h)) /\ h.n = Cardinality(HM!Held(h))
<1>1. HM!Elements(h) = HM!Held(h)
  BY MapConstants, HM!TraversalOfGood
<1>2. Map!Elements(h) = HM!Elements(h)
  BY MapBasics DEF Map!Elements, HM!Elements, Map!ToSet, HM!ToSet
<1>3. IsFiniteSet(HM!Held(h)) /\ h.n = Cardinality(HM!Held(h))
  BY DEF HM!Good, HM!IsFiniteSet, HM!Cardinality, IsFiniteSet, Cardinality
<1>4. HM!Held(h) \subseteq MapNodes
  BY DEF HM!Held
<1> QED
  BY <1>1, <1>2, <1>3, <1>4

\* shash_find() finds a node of that name, whatever collides with it.
LEMMA MapFind ==
  ASSUME NEW h, HM!Good(h), NEW n \in Map!Names
  PROVE  \/ Map!shash_find(h, n) \in HM!Held(h) /\ NameOf[Map!shash_find(h, n)] = n
         \/ Map!shash_find(h, n) = NULL /\ \A x \in HM!Held(h) : NameOf[x] # n
<1> DEFINE hash == Map!HashOf(n)
           W == {x \in MapNodes : NameOf[x] = n}
           N == h.n
           V == HM!Held(h) \cup {NULL}
           body(f, k) == IF k = 0 THEN Map!hmap_first_with_hash(h, hash)
                         ELSE IF f[k - 1] = NULL THEN NULL
                         ELSE IF NameOf[f[k - 1]] = n THEN f[k - 1]
                         ELSE Map!hmap_next_with_hash(h, f[k - 1])
           Eq(f) == f = [k \in 0..N |-> body(f, k)]
           Found == CHOOSE f : Eq(f)
<1>1. hash \in Nat /\ \A x \in W : MapHash[x] = hash
  <2>1. \E x \in MapNodes : NameOf[x] = n
    BY DEF Map!Names
  <2>2. PICK y \in MapNodes : NameOf[y] = n /\ hash = MapHash[y]
    BY <2>1 DEF Map!HashOf
  <2> HIDE DEF hash
  <2> QED
    BY <2>2, MapConstants
<1>2. /\ N \in Nat /\ W \in SUBSET MapNodes /\ NULL \notin MapNodes
      /\ HM!Held(h) \subseteq MapNodes
  BY MapConstants, MapElements DEF HM!Good, HM!Shaped
<1> HIDE DEF hash
<1>3. /\ \A x : Map!hmap_next_with_hash(h, x) = HM!hmap_next_with_hash(h, x)
      /\ Map!hmap_first_with_hash(h, hash) = HM!hmap_first_with_hash(h, hash)
  BY MapBasics
<1>4. \A x \in HM!Held(h) : NameOf[x] = n <=> x \in W
  BY <1>2
<1>5. PICK f \in [0..N -> V] : HM!IsSearch(f, h, hash, W)
  <2> HIDE DEF W
  <2> QED
    BY <1>1, <1>2, MapConstants, HM!SearchExists
<1> HIDE DEF W
<1>6. Eq(f)
  <2>1. ASSUME NEW k \in 0..N PROVE f[k] = body(f, k)
    <3>1. CASE k = 0
      BY <1>3, <1>5, <3>1 DEF HM!IsSearch
    <3>2. CASE k # 0
      <4>1. k \in 1..N /\ k - 1 \in 0..N
        BY <1>2, <3>2
      <4>2. f[k - 1] \in V
        BY <4>1
      <4>3. /\ f[k - 1] \in W \cup {NULL} => f[k] = f[k - 1]
            /\ f[k - 1] \in HM!Held(h) \ W => f[k] = HM!hmap_next_with_hash(h, f[k - 1])
        BY <1>5, <4>1 DEF HM!IsSearch
      <4> QED
        BY <1>2, <1>3, <1>4, <3>2, <4>2, <4>3
    <3> QED
      BY <3>1, <3>2
  <2> HIDE DEF N, V, body
  <2> QED
    BY <2>1
<1>7. Eq(Found)
  <2> HIDE DEF Eq
  <2> QED
    BY <1>6
<1>8. Map!shash_find(h, n) = Found[N]
  BY DEF Map!shash_find, hash
<1> HIDE DEF Found
<1>9. HM!IsSearch(Found, h, hash, W)
  <2>1. \A k \in 0..N : Found[k] = body(Found, k)
    <3> HIDE DEF N, body
    <3> QED
      BY <1>7
  <2>2. 0 \in 0..N /\ \A k \in 1..N : k \in 0..N /\ k # 0
    BY <1>2
  <2>3. Found[0] = HM!hmap_first_with_hash(h, hash)
    BY <1>3, <2>1, <2>2
  <2>4. \A x \in W : x \in MapNodes /\ NameOf[x] = n
    BY DEF W
  <2>5. ASSUME NEW k \in 1..N
        PROVE  /\ Found[k - 1] \in W \cup {NULL} => Found[k] = Found[k - 1]
               /\ Found[k - 1] \in HM!Held(h) \ W =>
                     Found[k] = HM!hmap_next_with_hash(h, Found[k - 1])
    <3>1. Found[k] = IF Found[k - 1] = NULL THEN NULL
                     ELSE IF NameOf[Found[k - 1]] = n THEN Found[k - 1]
                     ELSE Map!hmap_next_with_hash(h, Found[k - 1])
      BY <2>1, <2>2
    <3> QED
      BY <1>2, <1>3, <1>4, <2>4, <3>1
  <2> QED
    BY <2>3, <2>5 DEF HM!IsSearch
<1>10. Found[N] \in W \cap HM!Held(h) \/ (Found[N] = NULL /\ W \cap HM!Held(h) = {})
  BY <1>1, <1>2, <1>9, MapConstants, HM!SearchFinds
<1> QED
  BY <1>4, <1>8, <1>10

\* A map whose nodes are removed.
Emptied(h) == [h EXCEPT !.buckets = [k \in 0..h.mask |-> <<>>], !.n = 0]

\* It is well-formed.
LEMMA MapCleared ==
  ASSUME NEW h, HM!Good(h)
  PROVE  HM!Good(Emptied(h)) /\ HM!Held(Emptied(h)) = {}
<1>1. h = [mask |-> h.mask, buckets |-> h.buckets, n |-> h.n] /\ h.mask \in HM!Masks
  BY DEF HM!Good, HM!Shaped
<1>2. Emptied(h) = HM!EmptyTable(h.mask)
  <2> DEFINE none == [k \in 0..h.mask |-> <<>>]
  <2>1. Emptied(h) = [h EXCEPT !.buckets = none, !.n = 0]
    BY DEF Emptied
  <2>2. HM!EmptyTable(h.mask) = [mask |-> h.mask, buckets |-> none, n |-> 0]
    BY DEF HM!EmptyTable
  <2> HIDE DEF none
  <2> QED
    BY <1>1, <2>1, <2>2
<1> QED
  BY <1>1, <1>2, MapConstants, HM!EmptyGood

\* What a map says of its nodes.
Entry(x, d) == [id |-> x, name |-> NameOf[x], data |-> d[x]]
EntriesOf(S, d) == {Entry(x, d) : x \in S}

\* The data of one node is written.
IsWrite(S, d, w, x, v) ==
    /\ S \subseteq MapNodes /\ d \in [MapNodes -> Data]
    /\ x \in MapNodes /\ v \in Data
    /\ w = [d EXCEPT ![x] = v]

\* No two nodes have the same entry.
LEMMA EntriesDiffer ==
  ASSUME NEW d, NEW y, NEW z, Entry(y, d) = Entry(z, d)
  PROVE  y = z
<1>1. Entry(y, d).id = Entry(z, d).id
  OBVIOUS
<1> QED
  BY <1>1 DEF Entry

\* The entries of other nodes stay.
LEMMA EntriesElsewhere ==
  ASSUME NEW S, NEW d, NEW w, NEW x, NEW v, IsWrite(S, d, w, x, v), x \notin S
  PROVE  EntriesOf(S, w) = EntriesOf(S, d)
<1>1. \A y \in S : Entry(y, w) = Entry(y, d)
  BY DEF IsWrite, Entry
<1> HIDE DEF Entry
<1> QED
  BY <1>1 DEF EntriesOf

\* The entry of a node that is taken out goes.
LEMMA EntriesRemoved ==
  ASSUME NEW S, NEW d, NEW w, NEW x, NEW v, IsWrite(S, d, w, x, v), NEW U, U = S \ {x}
  PROVE  EntriesOf(U, w) = EntriesOf(S, d) \ {Entry(x, d)}
<1>1. \A y \in S \ {x} : Entry(y, w) = Entry(y, d)
  BY DEF IsWrite, Entry
<1>2. \A y \in S : Entry(y, d) = Entry(x, d) => y = x
  BY EntriesDiffer
<1> DEFINE L == EntriesOf(U, w)
           R == EntriesOf(S, d) \ {Entry(x, d)}
<1> HIDE DEF Entry
<1>3. \A o : o \in L <=> o \in R
  <2>1. ASSUME NEW o \in L PROVE o \in R
    <3>1. PICK y \in S \ {x} : o = Entry(y, w)
      BY DEF EntriesOf
    <3>2. o = Entry(y, d) /\ o # Entry(x, d)
      BY <1>1, <1>2, <3>1
    <3> QED
      BY <3>1, <3>2 DEF EntriesOf
  <2>2. ASSUME NEW o \in R PROVE o \in L
    <3>1. PICK y \in S : o = Entry(y, d)
      BY DEF EntriesOf
    <3>2. y \in S \ {x} /\ o = Entry(y, w)
      BY <1>1, <3>1
    <3> QED
      BY <3>2 DEF EntriesOf
  <2> HIDE DEF L, R
  <2> QED
    BY <2>1, <2>2
<1> HIDE DEF L, R
<1>4. L = R
  BY <1>3
<1> QED
  BY <1>4 DEF L, R

\* A node that comes in brings its entry.
LEMMA EntriesAdded ==
  ASSUME NEW S, NEW d, NEW w, NEW x, NEW v, IsWrite(S, d, w, x, v), x \notin S
  PROVE  EntriesOf(S \cup {x}, w)
           = EntriesOf(S, d) \cup {[id |-> x, name |-> NameOf[x], data |-> v]}
<1>1. EntriesOf(S \cup {x}, w) = EntriesOf(S, w) \cup {Entry(x, w)}
  BY DEF EntriesOf
<1>2. Entry(x, w) = [id |-> x, name |-> NameOf[x], data |-> v]
  BY DEF IsWrite, Entry
<1>3. EntriesOf(S, w) = EntriesOf(S, d)
  BY EntriesElsewhere
<1> QED
  BY <1>1, <1>2, <1>3

\* A node whose data is replaced changes its entry.
LEMMA EntriesReplaced ==
  ASSUME NEW S, NEW d, NEW w, NEW x, NEW v, IsWrite(S, d, w, x, v), x \in S
  PROVE  EntriesOf(S, w)
           = (EntriesOf(S, d) \ {Entry(x, d)}) \cup {[Entry(x, d) EXCEPT !.data = v]}
<1> DEFINE U == S \ {x}
<1>1. EntriesOf(S, w) = EntriesOf(U, w) \cup {Entry(x, w)}
  BY DEF EntriesOf
<1>2. Entry(x, w) = [Entry(x, d) EXCEPT !.data = v]
  BY DEF IsWrite, Entry
<1>3. EntriesOf(U, w) = EntriesOf(S, d) \ {Entry(x, d)}
  <2>1. U = S \ {x}
    OBVIOUS
  <2> HIDE DEF U
  <2> QED
    BY <2>1, EntriesRemoved
<1> HIDE DEF Entry
<1> QED
  BY <1>1, <1>2, <1>3

\* There are as many entries as nodes.
LEMMA EntriesCount ==
  ASSUME NEW S, IsFiniteSet(S), NEW d
  PROVE  IsFiniteSet(EntriesOf(S, d)) /\ Cardinality(EntriesOf(S, d)) = Cardinality(S)
<1> DEFINE f == [x \in S |-> Entry(x, d)]
<1>1. \A y, z \in S : f[y] = f[z] => y = z
  <2> SUFFICES ASSUME NEW y \in S, NEW z \in S, Entry(y, d) = Entry(z, d) PROVE y = z
    OBVIOUS
  <2>1. Entry(y, d).id = Entry(z, d).id
    OBVIOUS
  <2> QED
    BY <2>1 DEF Entry
<1>2. f \in [S -> EntriesOf(S, d)] /\ \A o \in EntriesOf(S, d) : \E x \in S : f[x] = o
  BY DEF EntriesOf
<1>3. f \in Bijection(S, EntriesOf(S, d))
  <2> HIDE DEF f
  <2> QED
    BY <1>1, <1>2, Fun_IsBij
<1> QED
  BY <1>3, FS_Bijection DEF ExistsBijection

\* Two well-formed maps without a common node, and data for the nodes.
MapsFit(s, o, d) ==
    /\ HM!Good(s) /\ HM!Good(o)
    /\ HM!Held(s) \cap HM!Held(o) = {}
    /\ d \in [MapNodes -> Data]

\* The entries of the two maps before and after a step.
FirstEntries == EntriesOf(HM!Held(mapA), data)
SecondEntries == EntriesOf(HM!Held(mapB), data)
FirstEntriesAfter == EntriesOf(HM!Held(mapA'), data')
SecondEntriesAfter == EntriesOf(HM!Held(mapB'), data')

\* They are what the refinement mapping takes for the abstract maps.
LEMMA MapEntries ==
  /\ MapsFit(mapA, mapB, data) => /\ Map!Entries(mapA) = FirstEntries
                                  /\ Map!Entries(mapB) = SecondEntries
  /\ MapsFit(mapA', mapB', data') => /\ Map!Entries(mapA)' = FirstEntriesAfter
                                     /\ Map!Entries(mapB)' = SecondEntriesAfter
  BY MapElements
     DEF MapsFit, Map!Entries, FirstEntries, SecondEntries, FirstEntriesAfter,
         SecondEntriesAfter, EntriesOf, Entry

\* shash_add() makes a new entry.
LEMMA MapAdd ==
  ASSUME MapsFit(mapA, mapB, data), NEW x \in MapNodes, NEW d \in Data, Map!Add(x, d),
         UNCHANGED mapB,
         NEW e, e = [id |-> x, name |-> NameOf[x], data |-> d]
  PROVE  /\ MapsFit(mapA', mapB', data')
         /\ FirstEntriesAfter = FirstEntries \cup {e}
         /\ SecondEntriesAfter = SecondEntries
         /\ Map!Abstract!New(e) /\ e \in Map!Abstract!Entry
<1> DEFINE S == HM!Held(mapA)
           T == HM!Held(mapB)
<1>1. /\ HM!Good(mapA) /\ HM!Good(mapB) /\ S \cap T = {} /\ data \in [MapNodes -> Data]
      /\ S \in SUBSET MapNodes /\ T \in SUBSET MapNodes
  BY MapElements DEF MapsFit
<1>2. x \notin S /\ x \notin T
  BY <1>1, MapElements DEF Map!Add, Map!Free
<1>3. /\ mapA' = HM!hmap_insert(mapA, x) /\ mapB' = mapB
      /\ IsWrite(S, data, data', x, d) /\ IsWrite(T, data, data', x, d)
  BY <1>1, MapBasics DEF Map!Add, IsWrite
<1>4. HM!Good(mapA') /\ HM!Held(mapA') = S \cup {x} /\ HM!Held(mapB') = T
  BY <1>1, <1>2, <1>3, MapConstants, HM!InsertGood
<1> HIDE DEF S, T
<1>5. /\ data' \in [MapNodes -> Data]
      /\ EntriesOf(S \cup {x}, data') = EntriesOf(S, data) \cup {e}
      /\ EntriesOf(T, data') = EntriesOf(T, data)
  <2>1. data' \in [MapNodes -> Data]
    BY <1>3 DEF IsWrite
  <2>2. EntriesOf(S \cup {x}, data')
          = EntriesOf(S, data) \cup {[id |-> x, name |-> NameOf[x], data |-> d]}
    BY <1>2, <1>3, EntriesAdded
  <2>3. EntriesOf(T, data') = EntriesOf(T, data)
    BY <1>2, <1>3, EntriesElsewhere
  <2> QED
    BY <2>1, <2>2, <2>3
<1>6. Map!Abstract!New(e)
  <2>1. ASSUME NEW o \in EntriesOf(S, data) \cup EntriesOf(T, data) PROVE o.id # e.id
    <3>1. PICK y \in S \cup T : o = Entry(y, data)
      BY DEF EntriesOf
    <3>2. y # x
      BY <1>2
    <3> QED
      BY <3>1, <3>2 DEF Entry
  <2>2. Map!Entries(mapA) = EntriesOf(S, data) /\ Map!Entries(mapB) = EntriesOf(T, data)
    BY MapEntries DEF FirstEntries, SecondEntries, S, T
  <2> QED
    BY <2>1, <2>2 DEF Map!Abstract!New
<1>7. e \in Map!Abstract!Entry
  BY MapConstants DEF Map!Abstract!Entry
<1> QED
  BY <1>1, <1>2, <1>3, <1>4, <1>5, <1>6, <1>7
     DEF MapsFit, FirstEntries, SecondEntries, FirstEntriesAfter, SecondEntriesAfter, S, T

\* A node is taken out and freed.
LEMMA MapUnlink ==
  ASSUME MapsFit(mapA, mapB, data), NEW x \in HM!Held(mapA), Map!Unlink(x), UNCHANGED mapB
  PROVE  /\ MapsFit(mapA', mapB', data')
         /\ FirstEntriesAfter = FirstEntries \ {Entry(x, data)}
         /\ SecondEntriesAfter = SecondEntries
<1> DEFINE S == HM!Held(mapA)
           T == HM!Held(mapB)
<1>1. /\ HM!Good(mapA) /\ HM!Good(mapB) /\ S \cap T = {} /\ data \in [MapNodes -> Data]
      /\ S \in SUBSET MapNodes /\ T \in SUBSET MapNodes
  BY MapElements DEF MapsFit
<1>2. x \in S /\ x \notin T /\ x \in MapNodes /\ NULL \in Data
  BY <1>1, MapConstants
<1>3. /\ mapA' = HM!hmap_remove(mapA, x) /\ mapB' = mapB
      /\ IsWrite(S, data, data', x, NULL) /\ IsWrite(T, data, data', x, NULL)
  BY <1>1, <1>2, MapBasics DEF Map!Unlink, IsWrite
<1>4. HM!Good(mapA') /\ HM!Held(mapA') = S \ {x} /\ HM!Held(mapB') = T
  BY <1>1, <1>2, <1>3, MapConstants, HM!RemoveGood
<1> HIDE DEF S, T
<1>5. /\ data' \in [MapNodes -> Data]
      /\ EntriesOf(S \ {x}, data') = EntriesOf(S, data) \ {Entry(x, data)}
      /\ EntriesOf(T, data') = EntriesOf(T, data)
  <2>1. data' \in [MapNodes -> Data]
    BY <1>2, <1>3 DEF IsWrite
  <2> DEFINE U == S \ {x}
  <2>2. EntriesOf(U, data') = EntriesOf(S, data) \ {Entry(x, data)}
    <3>1. U = S \ {x}
      OBVIOUS
    <3> HIDE DEF U
    <3> QED
      BY <1>3, <3>1, EntriesRemoved
  <2>3. EntriesOf(T, data') = EntriesOf(T, data)
    BY <1>2, <1>3, EntriesElsewhere
  <2> QED
    BY <2>1, <2>2, <2>3
<1> QED
  BY <1>1, <1>2, <1>3, <1>4, <1>5
     DEF MapsFit, FirstEntries, SecondEntries, FirstEntriesAfter, SecondEntriesAfter, S, T

\* A search finds an entry of the name, if there is one.
LEMMA MapNamed ==
  ASSUME MapsFit(mapA, mapB, data), NEW n \in Map!Names, NEW x, x = Map!shash_find(mapA, n)
  PROVE  /\ x = NULL => Map!Abstract!Named(FirstEntries, n) = {}
         /\ x # NULL => /\ x \in HM!Held(mapA) /\ x \in MapNodes /\ data[x] \in Data
                        /\ Entry(x, data) \in Map!Abstract!Named(FirstEntries, n)
                        /\ Entry(x, data).data = data[x]
<1>1. /\ HM!Good(mapA) /\ data \in [MapNodes -> Data] /\ HM!Held(mapA) \subseteq MapNodes
      /\ NULL \notin MapNodes
  BY MapElements, MapConstants DEF MapsFit
<1>2. \/ x \in HM!Held(mapA) /\ NameOf[x] = n
      \/ x = NULL /\ \A y \in HM!Held(mapA) : NameOf[y] # n
  BY <1>1, MapFind
<1>3. ASSUME x = NULL PROVE Map!Abstract!Named(FirstEntries, n) = {}
  <2>1. \A y \in HM!Held(mapA) : Entry(y, data).name # n
    BY <1>1, <1>2, <1>3 DEF Entry
  <2> QED
    BY <2>1 DEF Map!Abstract!Named, FirstEntries, EntriesOf
<1>4. ASSUME x # NULL
      PROVE  /\ x \in HM!Held(mapA) /\ x \in MapNodes /\ data[x] \in Data
             /\ Entry(x, data) \in Map!Abstract!Named(FirstEntries, n)
             /\ Entry(x, data).data = data[x]
  <2>1. x \in HM!Held(mapA) /\ NameOf[x] = n
    BY <1>2, <1>4
  <2>2. Entry(x, data).name = n /\ Entry(x, data).data = data[x]
    BY <2>1 DEF Entry
  <2>3. Entry(x, data) \in FirstEntries
    BY <2>1 DEF FirstEntries, EntriesOf
  <2> QED
    BY <1>1, <2>1, <2>2, <2>3 DEF Map!Abstract!Named
<1> QED
  BY <1>3, <1>4

\* What shash_equal_keys() can say of two maps.
LEMMA MapsEqual ==
  ASSUME MapsFit(mapA, mapB, data), NEW r, r = Map!shash_equal_keys(mapA, mapB)
  PROVE  LET A == FirstEntries
             B == SecondEntries
         IN /\ r \in BOOLEAN
            /\ Map!Abstract!Unique(A) /\ Map!Abstract!Unique(B) =>
                  (r <=> Map!Abstract!Keys(A) = Map!Abstract!Keys(B))
            /\ (\A n \in Map!Names :
                   Map!Abstract!Cardinality(Map!Abstract!Named(A, n))
                     = Map!Abstract!Cardinality(Map!Abstract!Named(B, n))) => r
            /\ r => Map!Abstract!Keys(A) \subseteq Map!Abstract!Keys(B)
<1> DEFINE S == HM!Held(mapA)
           T == HM!Held(mapB)
           A == EntriesOf(S, data)
           B == EntriesOf(T, data)
           KA == {NameOf[x] : x \in S}
           KB == {NameOf[x] : x \in T}
           NA == Map!Names
           fA == [o \in A |-> o.name]
           fB == [o \in B |-> o.name]
<1>1. /\ HM!Good(mapA) /\ HM!Good(mapB) /\ data \in [MapNodes -> Data]
      /\ S \subseteq MapNodes /\ T \subseteq MapNodes /\ IsFiniteSet(S) /\ IsFiniteSet(T)
      /\ mapA.n = Cardinality(S) /\ mapB.n = Cardinality(T) /\ NULL \notin MapNodes
      /\ Map!Elements(mapA) = S
  BY MapElements, MapConstants DEF MapsFit
<1>2. \A x \in MapNodes : NameOf[x] \in NA
  BY DEF Map!Names
<1>3. \A x \in S : Map!shash_find(mapB, NameOf[x]) # NULL <=> NameOf[x] \in KB
  <2> SUFFICES ASSUME NEW x \in S
               PROVE  Map!shash_find(mapB, NameOf[x]) # NULL <=> NameOf[x] \in KB
    OBVIOUS
  <2>1. NameOf[x] \in NA
    BY <1>1, <1>2
  <2>2. \/ Map!shash_find(mapB, NameOf[x]) \in T
             /\ NameOf[Map!shash_find(mapB, NameOf[x])] = NameOf[x]
        \/ Map!shash_find(mapB, NameOf[x]) = NULL /\ \A y \in T : NameOf[y] # NameOf[x]
    BY <1>1, <2>1, MapFind
  <2> QED
    BY <1>1, <2>2
<1>4. r <=> Cardinality(S) = Cardinality(T) /\ KA \subseteq KB
  BY <1>1, <1>3 DEF Map!shash_equal_keys
<1>5. r \in BOOLEAN
  BY DEF Map!shash_equal_keys
<1> HIDE DEF S, T
<1>6. /\ IsFiniteSet(A) /\ Cardinality(A) = Cardinality(S)
      /\ IsFiniteSet(B) /\ Cardinality(B) = Cardinality(T)
  BY <1>1, EntriesCount
<1>7. /\ {o.name : o \in A} = KA /\ {o.name : o \in B} = KB
  <2>1. \A x : Entry(x, data).name = NameOf[x]
    BY DEF Entry
  <2> QED
    BY <2>1 DEF EntriesOf
<1>8. Map!Abstract!Keys(A) = KA /\ Map!Abstract!Keys(B) = KB
  BY <1>7 DEF Map!Abstract!Keys
<1>9. KA \subseteq NA /\ KB \subseteq NA
  BY <1>1, <1>2
<1> HIDE DEF NA
<1>10. fA \in [A -> NA] /\ fB \in [B -> NA]
  BY <1>7, <1>9
<1>11. /\ \A n : Map!Abstract!Named(A, n) = Fibre(A, fA, n)
       /\ \A n : Map!Abstract!Named(B, n) = Fibre(B, fB, n)
  BY DEF Map!Abstract!Named, Fibre
<1>12. \A X : Map!Abstract!Cardinality(X) = Cardinality(X)
  BY DEF Map!Abstract!Cardinality, Cardinality
<1>13. KA = {fA[o] : o \in A} /\ KB = {fB[o] : o \in B}
  BY <1>7
<1> HIDE DEF A, B, KA, KB
<1>14. ASSUME Map!Abstract!Unique(A), Map!Abstract!Unique(B)
       PROVE  r <=> KA = KB
  <2>1. IsFiniteSet(KA) /\ Cardinality(KA) = Cardinality(A)
    <3>1. \A o \in A : Cardinality(Fibre(A, fA, fA[o])) = 1
      <4>1. \A n \in KA : Cardinality(Fibre(A, fA, n)) = 1
        <5> HIDE DEF fA
        <5> QED
          BY <1>8, <1>11, <1>12, <1>14 DEF Map!Abstract!Unique
      <4>2. \A o \in A : fA[o] \in KA
        BY <1>13
      <4> HIDE DEF fA
      <4> QED
        BY <4>1, <4>2
    <3>2. fA = [o \in A |-> fA[o]]
      OBVIOUS
    <3> HIDE DEF fA
    <3> QED
      BY <1>6, <1>13, <3>1, <3>2, UniqueKeys
  <2>2. IsFiniteSet(KB) /\ Cardinality(KB) = Cardinality(B)
    <3>1. \A o \in B : Cardinality(Fibre(B, fB, fB[o])) = 1
      <4>1. \A n \in KB : Cardinality(Fibre(B, fB, n)) = 1
        <5> HIDE DEF fB
        <5> QED
          BY <1>8, <1>11, <1>12, <1>14 DEF Map!Abstract!Unique
      <4>2. \A o \in B : fB[o] \in KB
        BY <1>13
      <4> HIDE DEF fB
      <4> QED
        BY <4>1, <4>2
    <3>2. fB = [o \in B |-> fB[o]]
      OBVIOUS
    <3> HIDE DEF fB
    <3> QED
      BY <1>6, <1>13, <3>1, <3>2, UniqueKeys
  <2>3. KA \subseteq KB /\ Cardinality(KA) = Cardinality(KB) => KA = KB
    BY <2>2, FS_Subset
  <2> QED
    BY <1>4, <1>6, <2>1, <2>2, <2>3
<1>15. ASSUME \A n \in NA : Cardinality(Fibre(A, fA, n)) = Cardinality(Fibre(B, fB, n))
       PROVE  r
  <2>1. Cardinality(A) = Cardinality(B)
    <3> HIDE DEF fA, fB
    <3> QED
      BY <1>6, <1>10, <1>15, SameFibres
  <2>2. ASSUME NEW n \in KA PROVE n \in KB
    <3>1. Fibre(A, fA, n) # {}
      BY <1>13 DEF Fibre
    <3>2. IsFiniteSet(Fibre(A, fA, n)) /\ IsFiniteSet(Fibre(B, fB, n))
      BY <1>6, FS_Subset DEF Fibre
    <3>3. Cardinality(Fibre(A, fA, n)) # 0
      BY <3>1, <3>2, FS_EmptySet
    <3>4. Fibre(B, fB, n) # {}
      <4>1. n \in NA
        BY <1>9
      <4> HIDE DEF fA, fB
      <4> QED
        BY <1>15, <3>2, <3>3, <4>1, FS_EmptySet
    <3> QED
      BY <1>13, <3>4 DEF Fibre
  <2> QED
    BY <1>4, <1>6, <2>1, <2>2
<1>16. r => KA \subseteq KB
  BY <1>4
<1>17. A = FirstEntries /\ B = SecondEntries
  BY DEF A, B, S, T, FirstEntries, SecondEntries
<1> QED
  BY <1>5, <1>8, <1>11, <1>12, <1>14, <1>15, <1>16, <1>17 DEF NA

\* The data of a node is replaced.
LEMMA MapRewritten ==
  ASSUME MapsFit(mapA, mapB, data), NEW x \in HM!Held(mapA), NEW v \in Data,
         data' = [data EXCEPT ![x] = v], UNCHANGED <<mapA, mapB>>
  PROVE  /\ MapsFit(mapA', mapB', data')
         /\ FirstEntriesAfter
              = (FirstEntries \ {Entry(x, data)}) \cup {[Entry(x, data) EXCEPT !.data = v]}
         /\ SecondEntriesAfter = SecondEntries
<1> DEFINE S == HM!Held(mapA)
           T == HM!Held(mapB)
<1>1. /\ HM!Good(mapA) /\ HM!Good(mapB) /\ S \cap T = {} /\ data \in [MapNodes -> Data]
      /\ S \in SUBSET MapNodes /\ T \in SUBSET MapNodes
  BY MapElements DEF MapsFit
<1>2. x \in S /\ x \notin T /\ x \in MapNodes
  BY <1>1
<1>3. IsWrite(S, data, data', x, v) /\ IsWrite(T, data, data', x, v)
  BY <1>1, <1>2 DEF IsWrite
<1>4. HM!Held(mapA') = S /\ HM!Held(mapB') = T
  OBVIOUS
<1> HIDE DEF S, T
<1>5. data' \in [MapNodes -> Data]
  BY <1>3 DEF IsWrite
<1>6. EntriesOf(S, data')
        = (EntriesOf(S, data) \ {Entry(x, data)}) \cup {[Entry(x, data) EXCEPT !.data = v]}
  BY <1>2, <1>3, EntriesReplaced
<1>7. EntriesOf(T, data') = EntriesOf(T, data)
  BY <1>2, <1>3, EntriesElsewhere
<1> QED
  BY <1>1, <1>4, <1>5, <1>6, <1>7
     DEF MapsFit, FirstEntries, SecondEntries, FirstEntriesAfter, SecondEntriesAfter, S, T

\* shash_clear() leaves no entry, and those of the other map alone.
LEMMA MapClear ==
  ASSUME MapsFit(mapA, mapB, data), Map!Clear
  PROVE  /\ MapsFit(mapA', mapB', data')
         /\ FirstEntriesAfter = {} /\ SecondEntriesAfter = SecondEntries
<1> DEFINE S == HM!Held(mapA)
           T == HM!Held(mapB)
<1>1. /\ HM!Good(mapA) /\ HM!Good(mapB) /\ S \cap T = {} /\ data \in [MapNodes -> Data]
      /\ T \in SUBSET MapNodes /\ Map!Elements(mapA) = S /\ NULL \in Data
  BY MapElements, MapConstants DEF MapsFit
<1>2. /\ mapA' = [mapA EXCEPT !.buckets = [k \in 0..mapA.mask |-> <<>>], !.n = 0]
      /\ data' = [x \in MapNodes |-> IF x \in S THEN NULL ELSE data[x]]
      /\ mapB' = mapB
  BY <1>1 DEF Map!Clear
<1>3. HM!Good(mapA') /\ HM!Held(mapA') = {}
  <2>1. mapA' = Emptied(mapA)
    BY <1>2 DEF Emptied
  <2> QED
    BY <1>1, <2>1, MapCleared
<1>4. HM!Held(mapB') = T
  BY <1>2
<1> HIDE DEF S, T
<1>5. data' \in [MapNodes -> Data] /\ \A x \in T : data'[x] = data[x]
  BY <1>1, <1>2
<1>6. EntriesOf({}, data') = {}
  BY DEF EntriesOf
<1>7. EntriesOf(T, data') = EntriesOf(T, data)
  <2>1. \A x \in T : Entry(x, data') = Entry(x, data)
    BY <1>5 DEF Entry
  <2> HIDE DEF Entry
  <2> QED
    BY <2>1 DEF EntriesOf
<1> QED
  BY <1>1, <1>2, <1>3, <1>4, <1>5, <1>6, <1>7
     DEF MapsFit, FirstEntries, SecondEntries, FirstEntriesAfter, SecondEntriesAfter, T

\* shash_swap() swaps the entries.
LEMMA MapSwap ==
  ASSUME MapsFit(mapA, mapB, data), Map!Swap
  PROVE  /\ MapsFit(mapA', mapB', data')
         /\ FirstEntriesAfter = SecondEntries /\ SecondEntriesAfter = FirstEntries
<1>1. mapA' = mapB /\ mapB' = mapA /\ data' = data
  BY DEF Map!Swap
<1> QED
  BY <1>1
     DEF MapsFit, FirstEntries, SecondEntries, FirstEntriesAfter, SecondEntriesAfter

\* A search changes nothing.
LEMMA MapUnchanged ==
  ASSUME MapsFit(mapA, mapB, data), UNCHANGED <<mapA, mapB, data>>
  PROVE  /\ MapsFit(mapA', mapB', data')
         /\ FirstEntriesAfter = FirstEntries /\ SecondEntriesAfter = SecondEntries
  BY DEF MapsFit, FirstEntries, SecondEntries, FirstEntriesAfter, SecondEntriesAfter

\* Two well-formed maps, the data of the nodes, and whether an assertion failed.
MapsGood(s, o, d, stopped) == MapsFit(s, o, d) /\ stopped \in BOOLEAN

\* Every call on the maps is a call on maps from names to data.
LEMMA MapsStep ==
  ASSUME MapsGood(mapA, mapB, data, mapAborted), Map!Next
  PROVE  MapsGood(mapA', mapB', data', mapAborted') /\ Map!Abstract!Next
<1> DEFINE A == FirstEntries
           B == SecondEntries
           A1 == FirstEntriesAfter
           B1 == SecondEntriesAfter
           Fit == MapsFit(mapA, mapB, data)
           Fit1 == MapsFit(mapA', mapB', data')
           G1 == Fit1 /\ mapAborted' \in BOOLEAN
           E(x, d) == [id |-> x, name |-> NameOf[x], data |-> d]
           E0(x) == Entry(x, data)
           F(n) == Map!shash_find(mapA, n)
           Same == A1 = A /\ B1 = B
           Named(n) == Map!Abstract!Named(A, n)
<1>1. Fit /\ mapAborted = FALSE
  BY DEF MapsGood, Map!Next
<1>2. Map!Entries(mapA) = A /\ Map!Entries(mapB) = B
  BY <1>1, MapEntries
<1>3. Fit1 => Map!Entries(mapA)' = A1 /\ Map!Entries(mapB)' = B1
  BY MapEntries
<1>4. \A n \in Map!Names :
         /\ F(n) = NULL => Named(n) = {}
         /\ F(n) # NULL => /\ F(n) \in HM!Held(mapA) /\ F(n) \in MapNodes
                           /\ data[F(n)] \in Data
                           /\ E0(F(n)) \in Named(n) /\ E0(F(n)).data = data[F(n)]
  BY <1>1, MapNamed
<1>5. \A x \in MapNodes, d \in Data :
         /\ NameOf[x] \in Map!Names
         /\ E(x, d) \in Map!Abstract!Entry
         /\ E(x, d).name = NameOf[x] /\ E(x, d).data = d
  BY DEF Map!Names, Map!Abstract!Entry
<1>6. ASSUME UNCHANGED <<mapA, mapB, data>> PROVE Fit1 /\ Same
  BY <1>1, <1>6, MapUnchanged
<1>7. ASSUME NEW x \in MapNodes, NEW d \in Data, Map!Add(x, d), UNCHANGED mapB
      PROVE  Fit1 /\ A1 = A \cup {E(x, d)} /\ B1 = B /\ Map!Abstract!New(E(x, d))
  BY <1>1, <1>7, MapAdd
<1>8. ASSUME NEW x \in HM!Held(mapA), Map!Unlink(x), UNCHANGED mapB
      PROVE  Fit1 /\ A1 = A \ {E0(x)} /\ B1 = B
  BY <1>1, <1>8, MapUnlink
<1>9. ASSUME NEW x \in HM!Held(mapA), NEW v \in Data, data' = [data EXCEPT ![x] = v],
             UNCHANGED <<mapA, mapB>>
      PROVE  Fit1 /\ A1 = (A \ {E0(x)}) \cup {[E0(x) EXCEPT !.data = v]} /\ B1 = B
  BY <1>1, <1>9, MapRewritten
<1>10. HM!Held(mapA) = Map!Elements(mapA)
  BY <1>1, MapElements DEF MapsFit
<1>11. Map!Clear => Fit1 /\ A1 = {} /\ B1 = B
  BY <1>1, MapClear
<1>12. Map!Swap => Fit1 /\ A1 = B /\ B1 = A
  BY <1>1, MapSwap
<1>13. LET r == Map!shash_equal_keys(mapA, mapB)
       IN  /\ r \in BOOLEAN
           /\ Map!Abstract!Unique(A) /\ Map!Abstract!Unique(B) =>
                 (r <=> Map!Abstract!Keys(A) = Map!Abstract!Keys(B))
           /\ (\A n \in Map!Names :
                  Map!Abstract!Cardinality(Map!Abstract!Named(A, n))
                    = Map!Abstract!Cardinality(Map!Abstract!Named(B, n))) => r
           /\ r => Map!Abstract!Keys(A) \subseteq Map!Abstract!Keys(B)
  BY <1>1, MapsEqual
<1>14. \A x \in HM!Held(mapA) : E0(x) \in A
  BY DEF FirstEntries, EntriesOf
<1> HIDE DEF A, B, A1, B1, Fit, Fit1, E0, F
<1>15. ASSUME NEW x \in MapNodes, NEW d \in Data,
              Map!Add(x, d), UNCHANGED <<mapB, mapRet, mapAborted>>
       PROVE  G1 /\ Map!Abstract!Add(E(x, d))
  BY <1>1, <1>2, <1>3, <1>7, <1>15 DEF Map!Abstract!Add
<1>16. ASSUME NEW x \in MapNodes, NEW d \in Data, Map!AddOnce(x, d)
       PROVE  G1 /\ Map!Abstract!AddOnce(E(x, d))
  <2>1. CASE F(NameOf[x]) = NULL
    <3>1. Map!Add(x, d) /\ mapB' = mapB /\ mapRet' = TRUE /\ mapAborted' = mapAborted
      BY <1>16, <2>1 DEF Map!AddOnce, Map!Returns, F
    <3>2. Fit1 /\ A1 = A \cup {E(x, d)} /\ B1 = B /\ Map!Abstract!New(E(x, d))
      BY <1>7, <3>1
    <3>3. Named(E(x, d).name) = {}
      BY <1>4, <1>5, <2>1
    <3> HIDE DEF E
    <3> QED
      BY <1>1, <1>2, <1>3, <3>1, <3>2, <3>3 DEF Map!Abstract!AddOnce, Map!Abstract!Returns
  <2>2. CASE F(NameOf[x]) # NULL
    <3>1. /\ mapA' = mapA /\ mapB' = mapB /\ data' = data
          /\ mapRet' = FALSE /\ mapAborted' = mapAborted
      BY <1>16, <2>2 DEF Map!AddOnce, Map!Returns, F
    <3>2. Fit1 /\ Same
      BY <1>6, <3>1
    <3>3. Named(E(x, d).name) # {}
      BY <1>4, <1>5, <2>2
    <3> HIDE DEF E
    <3> QED
      BY <1>1, <1>2, <1>3, <3>1, <3>2, <3>3 DEF Map!Abstract!AddOnce, Map!Abstract!Returns
  <2> QED
    BY <2>1, <2>2
<1>17. ASSUME NEW x \in MapNodes, NEW d \in Data, Map!AddAssert(x, d)
       PROVE  G1 /\ Map!Abstract!AddAssert(E(x, d))
  <2>1. CASE F(NameOf[x]) = NULL
    <3>1. Map!Add(x, d) /\ mapB' = mapB /\ mapRet' = mapRet /\ mapAborted' = mapAborted
      BY <1>17, <2>1 DEF Map!AddAssert, F
    <3>2. G1 /\ Map!Abstract!Add(E(x, d))
      BY <1>15, <3>1
    <3>3. Named(E(x, d).name) = {}
      BY <1>4, <1>5, <2>1
    <3> HIDE DEF E
    <3> QED
      BY <1>2, <3>2, <3>3 DEF Map!Abstract!AddAssert
  <2>2. CASE F(NameOf[x]) # NULL
    <3>1. /\ mapA' = mapA /\ mapB' = mapB /\ data' = data
          /\ mapRet' = mapRet /\ mapAborted' = TRUE
      BY <1>17, <2>2 DEF Map!AddAssert, F
    <3>2. Fit1 /\ Same
      BY <1>6, <3>1
    <3>3. Named(E(x, d).name) # {}
      BY <1>4, <1>5, <2>2
    <3> HIDE DEF E
    <3> QED
      BY <1>2, <1>3, <3>1, <3>2, <3>3 DEF Map!Abstract!AddAssert
  <2> QED
    BY <2>1, <2>2
<1>18. ASSUME NEW x \in MapNodes, NEW d \in Data, Map!Replace(x, d)
       PROVE  G1 /\ Map!Abstract!Replace(E(x, d))
  <2>1. CASE F(NameOf[x]) = NULL
    <3>1. Map!Add(x, d) /\ mapB' = mapB /\ mapRet' = NULL /\ mapAborted' = mapAborted
      BY <1>18, <2>1 DEF Map!Replace, Map!Returns, F
    <3>2. Fit1 /\ A1 = A \cup {E(x, d)} /\ B1 = B /\ Map!Abstract!New(E(x, d))
      BY <1>7, <3>1
    <3>3. Named(E(x, d).name) = {}
      BY <1>4, <1>5, <2>1
    <3> HIDE DEF E
    <3> QED
      BY <1>1, <1>2, <1>3, <3>1, <3>2, <3>3 DEF Map!Abstract!Replace, Map!Abstract!Returns
  <2>2. CASE F(NameOf[x]) # NULL
    <3> DEFINE y == F(NameOf[x])
    <3>1. /\ mapA' = mapA /\ mapB' = mapB /\ data' = [data EXCEPT ![y] = d]
          /\ mapRet' = data[y] /\ mapAborted' = mapAborted
      BY <1>18, <2>2 DEF Map!Replace, Map!Returns, F
    <3>2. y \in HM!Held(mapA) /\ E0(y) \in Named(E(x, d).name) /\ E0(y).data = data[y]
      BY <1>4, <1>5, <2>2
    <3> HIDE DEF y
    <3>3. Fit1 /\ A1 = (A \ {E0(y)}) \cup {[E0(y) EXCEPT !.data = d]} /\ B1 = B
      BY <1>9, <3>1, <3>2
    <3>4. E(x, d).data = d
      BY <1>5
    <3> HIDE DEF E
    <3> QED
      BY <1>1, <1>2, <1>3, <3>1, <3>2, <3>3, <3>4
         DEF Map!Abstract!Replace, Map!Abstract!Returns
  <2> QED
    BY <2>1, <2>2
<1>19. ASSUME NEW x \in MapNodes, Map!Delete(x)
       PROVE  G1 /\ E0(x) \in A /\ Map!Abstract!Delete(E0(x))
  <2>1. /\ x \in HM!Held(mapA) /\ Map!Unlink(x) /\ mapB' = mapB
        /\ mapRet' = mapRet /\ mapAborted' = mapAborted
    BY <1>10, <1>19 DEF Map!Delete
  <2>2. Fit1 /\ A1 = A \ {E0(x)} /\ B1 = B
    BY <1>8, <2>1
  <2> QED
    BY <1>1, <1>2, <1>3, <1>14, <2>1, <2>2 DEF Map!Abstract!Delete
<1>20. ASSUME NEW n \in Map!Names, Map!FindData(n)
       PROVE  G1 /\ Map!Abstract!FindData(n)
  <2>1. /\ mapA' = mapA /\ mapB' = mapB /\ data' = data /\ mapAborted' = mapAborted
        /\ mapRet' = IF F(n) = NULL THEN NULL ELSE data[F(n)]
    BY <1>20 DEF Map!FindData, Map!Returns, F
  <2>2. Fit1 /\ Same
    BY <1>6, <2>1
  <2>3. CASE F(n) = NULL
    BY <1>1, <1>2, <1>3, <1>4, <2>1, <2>2, <2>3
       DEF Map!Abstract!FindData, Map!Abstract!Returns
  <2>4. CASE F(n) # NULL
    BY <1>1, <1>2, <1>3, <1>4, <2>1, <2>2, <2>4
       DEF Map!Abstract!FindData, Map!Abstract!Returns
  <2> QED
    BY <2>3, <2>4
<1>21. ASSUME NEW n \in Map!Names, Map!FindAndDelete(n)
       PROVE  G1 /\ Map!Abstract!FindAndDelete(n)
  <2>1. CASE F(n) = NULL
    <3>1. /\ mapA' = mapA /\ mapB' = mapB /\ data' = data
          /\ mapRet' = NULL /\ mapAborted' = mapAborted
      BY <1>21, <2>1 DEF Map!FindAndDelete, Map!Returns, F
    <3>2. Fit1 /\ Same
      BY <1>6, <3>1
    <3> QED
      BY <1>1, <1>2, <1>3, <1>4, <2>1, <3>1, <3>2
         DEF Map!Abstract!FindAndDelete, Map!Abstract!Returns
  <2>2. CASE F(n) # NULL
    <3>1. /\ Map!Unlink(F(n)) /\ mapB' = mapB
          /\ mapRet' = data[F(n)] /\ mapAborted' = mapAborted
      BY <1>21, <2>2 DEF Map!FindAndDelete, Map!Returns, F
    <3>2. Fit1 /\ A1 = A \ {E0(F(n))} /\ B1 = B
      BY <1>4, <1>8, <2>2, <3>1
    <3> QED
      BY <1>1, <1>2, <1>3, <1>4, <2>2, <3>1, <3>2
         DEF Map!Abstract!FindAndDelete, Map!Abstract!Returns
  <2> QED
    BY <2>1, <2>2
<1>22. ASSUME NEW n \in Map!Names, Map!FindAndDeleteAssert(n)
       PROVE  G1 /\ Map!Abstract!FindAndDeleteAssert(n)
  <2>1. CASE F(n) = NULL
    <3>1. /\ mapA' = mapA /\ mapB' = mapB /\ data' = data
          /\ mapRet' = mapRet /\ mapAborted' = TRUE
      BY <1>22, <2>1 DEF Map!FindAndDeleteAssert, F
    <3>2. Fit1 /\ Same
      BY <1>6, <3>1
    <3> QED
      BY <1>1, <1>2, <1>3, <1>4, <2>1, <3>1, <3>2
         DEF Map!Abstract!FindAndDeleteAssert
  <2>2. CASE F(n) # NULL
    <3>1. /\ Map!Unlink(F(n)) /\ mapB' = mapB
          /\ mapRet' = mapRet /\ mapAborted' = (data[F(n)] = NULL)
      BY <1>22, <2>2 DEF Map!FindAndDeleteAssert, F
    <3>2. Fit1 /\ A1 = A \ {E0(F(n))} /\ B1 = B
      BY <1>4, <1>8, <2>2, <3>1
    <3>3. E0(F(n)) \in Named(n) /\ mapAborted' = (E0(F(n)).data = NULL)
      BY <1>4, <2>2, <3>1
    <3> QED
      BY <1>2, <1>3, <3>1, <3>2, <3>3 DEF Map!Abstract!FindAndDeleteAssert
  <2> QED
    BY <2>1, <2>2
<1>23. ASSUME Map!Clear PROVE G1 /\ Map!Abstract!Clear
  <2>1. mapRet' = mapRet /\ mapAborted' = mapAborted
    BY <1>23 DEF Map!Clear
  <2> QED
    BY <1>1, <1>2, <1>3, <1>11, <1>23, <2>1 DEF Map!Abstract!Clear
<1>24. ASSUME Map!Swap PROVE G1 /\ Map!Abstract!Swap
  <2>1. mapRet' = mapRet /\ mapAborted' = mapAborted
    BY <1>24 DEF Map!Swap
  <2> QED
    BY <1>1, <1>2, <1>3, <1>12, <1>24, <2>1 DEF Map!Abstract!Swap
<1>25. ASSUME Map!EqualKeys PROVE G1 /\ Map!Abstract!EqualKeys
  <2> DEFINE r == Map!shash_equal_keys(mapA, mapB)
  <2>1. /\ mapA' = mapA /\ mapB' = mapB /\ data' = data
        /\ mapRet' = r /\ mapAborted' = mapAborted
    BY <1>25 DEF Map!EqualKeys, Map!Returns
  <2>2. Fit1 /\ Same
    BY <1>6, <2>1
  <2>3. r \in BOOLEAN
    BY <1>13
  <2>4. Map!Abstract!Unique(A) /\ Map!Abstract!Unique(B) =>
           r = (Map!Abstract!Keys(A) = Map!Abstract!Keys(B))
    BY <1>13, <2>3
  <2>5. /\ (\A n \in Map!Names :
               Map!Abstract!Cardinality(Map!Abstract!Named(A, n))
                 = Map!Abstract!Cardinality(Map!Abstract!Named(B, n))) => r
        /\ r => Map!Abstract!Keys(A) \subseteq Map!Abstract!Keys(B)
    BY <1>13
  <2> HIDE DEF r
  <2> QED
    BY <1>1, <1>2, <1>3, <2>1, <2>2, <2>3, <2>4, <2>5
       DEF Map!Abstract!EqualKeys, Map!Abstract!Returns
<1> HIDE DEF G1, E
<1>26. G1
  BY <1>15, <1>16, <1>17, <1>18, <1>19, <1>20, <1>21, <1>22, <1>23, <1>24, <1>25
     DEF Map!Next
<1>27. Map!Abstract!Next
  <2>1. mapAborted = FALSE /\ \A x \in MapNodes, d \in Data : E(x, d) \in Map!Abstract!Entry
    BY <1>1, <1>5
  <2> QED
    BY <1>2, <1>15, <1>16, <1>17, <1>18, <1>19, <1>20, <1>21, <1>22, <1>23, <1>24, <1>25,
       <2>1
       DEF Map!Next, Map!Abstract!Next
<1> QED
  BY <1>26, <1>27 DEF G1, Fit1, MapsGood

\* A step of the containers is a call on the maps or leaves them alone.
LEMMA ContainersMapsStep ==
  ASSUME MapsGood(mapA, mapB, data, mapAborted), [Next]_vars
  PROVE  /\ MapsGood(mapA', mapB', data', mapAborted')
         /\ [Map!Abstract!Next]_(Map!Abstract!vars)
<1>1. CASE Map!Next
  BY <1>1, MapsStep
<1>2. CASE UNCHANGED mapVars
  <2>1. /\ mapA' = mapA /\ mapB' = mapB /\ data' = data
        /\ mapRet' = mapRet /\ mapAborted' = mapAborted
    BY <1>2 DEF mapVars
  <2>2. Map!Entries(mapA)' = Map!Entries(mapA) /\ Map!Entries(mapB)' = Map!Entries(mapB)
    BY <2>1 DEF Map!Entries, Map!Elements, Map!Traversal
  <2> QED
    BY <2>1, <2>2 DEF MapsGood, Map!Abstract!vars
<1> QED
  BY <1>1, <1>2 DEF Next, vars

\* Hashing, collisions and the growth of the table never show in a map from names to
\* data, in which a name may be several times.
THEOREM MapsImplementNameMaps == Spec => ImplementsNameMaps
<1>1. Init => MapsGood(mapA, mapB, data, mapAborted) /\ Map!Abstract!Init
  <2> SUFFICES ASSUME Init
               PROVE  MapsGood(mapA, mapB, data, mapAborted) /\ Map!Abstract!Init
    OBVIOUS
  <2>1. /\ mapA = HM!HMAP_INITIALIZER /\ mapB = HM!HMAP_INITIALIZER
        /\ data = [x \in MapNodes |-> NULL] /\ mapRet = NULL /\ mapAborted = FALSE
    BY MapBasics DEF Init, Map!Init
  <2>2. HM!Good(mapA) /\ HM!Good(mapB) /\ HM!Held(mapA) = {} /\ HM!Held(mapB) = {}
    BY <2>1, MapConstants, HM!InitializerGood
  <2>3. MapsFit(mapA, mapB, data)
    BY <2>1, <2>2, MapConstants DEF MapsFit
  <2>4. Map!Entries(mapA) = {} /\ Map!Entries(mapB) = {}
    BY <2>2, <2>3, MapEntries DEF FirstEntries, SecondEntries, EntriesOf
  <2> QED
    BY <2>1, <2>3, <2>4 DEF MapsGood, Map!Abstract!Init
<1>2. /\ MapsGood(mapA, mapB, data, mapAborted) /\ [Next]_vars
      => /\ MapsGood(mapA, mapB, data, mapAborted)'
         /\ [Map!Abstract!Next]_(Map!Abstract!vars)
  BY ContainersMapsStep
<1> QED
  BY <1>1, <1>2, PTL DEF Spec, ImplementsNameMaps, Map!ImplementsNameMaps, Map!Abstract!Spec

=============================================================================
