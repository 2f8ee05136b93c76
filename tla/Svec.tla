-------------------------------- MODULE Svec --------------------------------
(***************************************************************************)
(* Vectors of strings (src/lib/svec.c).  A string is a number, in the      *)
(* order of strcmp(); each slot below n owns one, made by strdup().  Two   *)
(* vectors, of which the calls work on the first; a call that asserts that *)
(* a vector is sorted is made on sorted ones only.                         *)
(***************************************************************************)
EXTENDS Integers, SequencesExt

CONSTANTS
    Names,
    MaxNames,      \* bound: names in a vector
    NULL

\* What the constants must satisfy; Containers assumes it.
ConstantsOK == Names \subseteq Nat /\ MaxNames \in Nat /\ NULL \notin Names

VARIABLES
    a, b,          \* two vectors: [names |-> the slots below n, allocated |-> slots]
    heap,          \* strings allocated and not freed
    ret            \* question and answer of the last call that has a result

vars == <<a, b, heap, ret>>

svec_init == [names |-> <<>>, allocated |-> 0]

Init ==
    /\ a = svec_init
    /\ b = svec_init
    /\ heap = 0
    /\ ret = [of |-> "", is |-> FALSE]

-----------------------------------------------------------------------------
(* The functions *)

\* x2nrealloc() doubles.
svec_expand(v) ==
    IF Len(v.names) >= v.allocated
    THEN [v EXCEPT !.allocated = IF @ = 0 THEN 1 ELSE 2 * @]
    ELSE v

svec_add(v, name) == [svec_expand(v) EXCEPT !.names = Append(@, name)]

svec_append(v, other) ==
    LET Added[k \in 0..Len(other.names)] ==
            IF k = 0 THEN v ELSE svec_add(Added[k - 1], other.names[k])
    IN Added[Len(other.names)]

svec_clone(other) == svec_append(svec_init, other)

\* memmove() of what is behind the name.
DelAt(v, k) == [v EXCEPT !.names = RemoveAt(@, k)]

svec_is_sorted(v) == \A k \in 2..Len(v.names) : v.names[k - 1] <= v.names[k]

\* Any order of the pointers that qsort() may leave.
svec_sort(v) ==
    LET Places == DOMAIN v.names
        Moved(p) == [v EXCEPT !.names = [k \in Places |-> @[p[k]]]]
    IN {w \in {Moved(p) : p \in Bijection(Places, Places)} : svec_is_sorted(w)}

\* Any offset bsearch() may return.
svec_find(v, name) == {k \in DOMAIN v.names : v.names[k] = name}

svec_get_duplicate(v) ==
    LET Twice == {k \in 2..Len(v.names) : v.names[k - 1] = v.names[k]}
    IN IF Twice = {} THEN NULL ELSE v.names[Min(Twice)]

\* A new vector of the names that differ from the one before them.
svec_unique(v) ==
    LET First(k) == k = 1 \/ v.names[k - 1] # v.names[k]
        Tmp[k \in 0..Len(v.names)] ==
            IF k = 0 THEN svec_init
            ELSE IF First(k) THEN svec_add(Tmp[k - 1], v.names[k])
            ELSE Tmp[k - 1]
    IN IF Len(v.names) <= 1 THEN v ELSE Tmp[Len(v.names)]

svec_compact(v) ==
    LET Kept[k \in 0..Len(v.names)] ==
            IF k = 0 THEN <<>>
            ELSE IF v.names[k] # NULL THEN Append(Kept[k - 1], v.names[k])
            ELSE Kept[k - 1]
    IN [v EXCEPT !.names = Kept[Len(v.names)]]

MergeStart == [i |-> 1, j |-> 1,
               a_only |-> svec_init, both |-> svec_init, b_only |-> svec_init]

\* Variant: a name both have is passed in the first vector only.
MergeStays(v, w, s) ==
    LET inV == s.i <= Len(v.names)
        inW == s.j <= Len(w.names)
    IN IF inV /\ inW /\ v.names[s.i] = w.names[s.j]
       THEN [s EXCEPT !.both = svec_add(@, v.names[s.i]), !.i = @ + 1]
       ELSE IF inV /\ (inW => v.names[s.i] < w.names[s.j])
       THEN [s EXCEPT !.a_only = svec_add(@, v.names[s.i]), !.i = @ + 1]
       ELSE IF inW
       THEN [s EXCEPT !.b_only = svec_add(@, w.names[s.j]), !.j = @ + 1]
       ELSE s

\* One round of a loop of svec_diff(): of the first, or of those for the rests.
Merge(v, w, s) ==
    LET inV == s.i <= Len(v.names)
        inW == s.j <= Len(w.names)
    IN IF inV /\ inW /\ v.names[s.i] = w.names[s.j]
       THEN [s EXCEPT !.both = svec_add(@, v.names[s.i]), !.i = @ + 1, !.j = @ + 1]
       ELSE IF inV /\ (inW => v.names[s.i] < w.names[s.j])
       THEN [s EXCEPT !.a_only = svec_add(@, v.names[s.i]), !.i = @ + 1]
       ELSE IF inW
       THEN [s EXCEPT !.b_only = svec_add(@, w.names[s.j]), !.j = @ + 1]
       ELSE s

svec_diff(v, w) ==
    LET Rounds == Len(v.names) + Len(w.names)
        Merged[k \in 0..Rounds] ==
            IF k = 0 THEN MergeStart ELSE Merge(v, w, Merged[k - 1])
    IN Merged[Rounds]

-----------------------------------------------------------------------------
(* Calls.  Owned(v) strings are freed with v. *)

Owned(v) == Len(v.names)

Returns(question, answer) == ret' = [of |-> question, is |-> answer]

Add(n) ==
    /\ Owned(a) < MaxNames
    /\ a' = svec_add(a, n)
    /\ heap' = heap + 1
    /\ UNCHANGED <<b, ret>>

Del(n) ==
    /\ svec_is_sorted(a)
    /\ IF svec_find(a, n) = {} THEN UNCHANGED <<a, heap>>
       ELSE \E k \in svec_find(a, n) : a' = DelAt(a, k) /\ heap' = heap - 1
    /\ UNCHANGED <<b, ret>>

PopBack ==
    /\ a.names # <<>>
    /\ a' = [a EXCEPT !.names = Front(@)]
    /\ heap' = heap - 1
    /\ UNCHANGED <<b, ret>>

Clear ==
    /\ a' = [a EXCEPT !.names = <<>>]
    /\ heap' = heap - Owned(a)
    /\ UNCHANGED <<b, ret>>

\* svec_terminate() needs a slot for its null pointer.
Terminate ==
    /\ a' = svec_expand(a)
    /\ UNCHANGED <<b, heap, ret>>

AppendAll ==
    /\ Owned(a) + Owned(b) <= MaxNames
    /\ a' = svec_append(a, b)
    /\ heap' = heap + Owned(b)
    /\ UNCHANGED <<b, ret>>

\* svec_destroy(a), then svec_clone(a, b).
Clone ==
    /\ a' = svec_clone(b)
    /\ heap' = heap - Owned(a) + Owned(b)
    /\ UNCHANGED <<b, ret>>

Swap ==
    /\ a' = b
    /\ b' = a
    /\ UNCHANGED <<heap, ret>>

Sort ==
    /\ a' \in svec_sort(a)
    /\ UNCHANGED <<b, heap, ret>>

\* Variant: the old vector is not destroyed.
UniqueLeaks ==
    /\ svec_is_sorted(a)
    /\ a' = svec_unique(a)
    /\ heap' = heap + IF Owned(a) > 1 THEN Owned(svec_unique(a)) ELSE 0
    /\ UNCHANGED <<b, ret>>

\* The new vector is filled with copies and swapped with the old, which is destroyed.
Unique ==
    /\ svec_is_sorted(a)
    /\ a' = svec_unique(a)
    /\ heap' = heap + IF Owned(a) > 1 THEN Owned(svec_unique(a)) - Owned(a) ELSE 0
    /\ UNCHANGED <<b, ret>>

\* The client frees the names at the places K, sets these slots to null and calls
\* svec_compact().
Compact(K) ==
    /\ a' = svec_compact([a EXCEPT !.names =
                             [k \in DOMAIN @ |-> IF k \in K THEN NULL ELSE @[k]]])
    /\ heap' = heap - Cardinality(K)
    /\ UNCHANGED <<b, ret>>

\* The client keeps one of the three results in the place of a, and destroys the
\* other two with it.
Diff(part) ==
    /\ svec_is_sorted(a) /\ svec_is_sorted(b)
    /\ a' = svec_diff(a, b)[part]
    /\ heap' = heap - Owned(a) + Owned(a')
    /\ Returns(part, TRUE)
    /\ UNCHANGED b

AskName(n) ==
    /\ svec_is_sorted(a)
    /\ Returns("contains", svec_find(a, n) # {})
    /\ UNCHANGED <<a, b, heap>>

AskUnique ==
    /\ svec_is_sorted(a)
    /\ Returns("is_unique", svec_get_duplicate(a) = NULL)
    /\ UNCHANGED <<a, b, heap>>

AskEqual ==
    /\ Returns("equal", a.names = b.names)
    /\ UNCHANGED <<a, b, heap>>

AskSorted ==
    /\ Returns("is_sorted", svec_is_sorted(a))
    /\ UNCHANGED <<a, b, heap>>

Next ==
    \/ \E n \in Names : Add(n) \/ Del(n) \/ AskName(n)
    \/ PopBack
    \/ Clear
    \/ Terminate
    \/ AppendAll
    \/ Clone
    \/ Swap
    \/ Sort
    \/ Unique
    \/ \E K \in SUBSET DOMAIN a.names : Compact(K)
    \/ \E part \in {"a_only", "both", "b_only"} : Diff(part)
    \/ AskUnique
    \/ AskEqual
    \/ AskSorted

Spec == Init /\ [][Next]_vars

-----------------------------------------------------------------------------
(* Properties *)

\* Growth, merging and moving of slots never show: the calls and their results are
\* those of two lists of names, the merge that of two bags.
Abstract == INSTANCE NameLists WITH A <- a.names, B <- b.names
ImplementsNameLists == Abstract!Spec

\* Whatever is appended, cut out, merged and swapped, each string is owned by one
\* slot of one vector: none is lost and none freed twice; and no slot lies outside
\* the memory of its vector.
VectorsOwnStrings ==
    /\ heap = Owned(a) + Owned(b)
    /\ Owned(a) <= a.allocated
    /\ Owned(b) <= b.allocated

=============================================================================
