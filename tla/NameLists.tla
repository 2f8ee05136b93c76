----------------------------- MODULE NameLists -----------------------------
(* What src/lib/svec.h promises: two lists of names, which may be sorted and  *)
(* may hold a name more than once.  Names are numbers in the order of strcmp. *)
EXTENDS Integers, SequencesExt

CONSTANT Names

VARIABLES A, B, ret

vars == <<A, B, ret>>

Ordered(s) == \A k \in 1..(Len(s) - 1) : s[k] <= s[k + 1]

Init == A = <<>> /\ B = <<>> /\ ret = [of |-> "", is |-> FALSE]

Add(n) == A' = Append(A, n) /\ UNCHANGED <<B, ret>>

\* One of several copies goes; in a sorted list it does not matter which.
Del(n) == Ordered(A) /\ A' = RemoveFirst(A, n) /\ UNCHANGED <<B, ret>>

PopBack == A # <<>> /\ A' = Front(A) /\ UNCHANGED <<B, ret>>

Clear == A' = <<>> /\ UNCHANGED <<B, ret>>

AppendAll == A' = A \o B /\ UNCHANGED <<B, ret>>

Clone == A' = B /\ UNCHANGED <<B, ret>>

Swap == A' = B /\ B' = A /\ UNCHANGED ret

Sort == Ordered(A') /\ ToBag(A') = ToBag(A) /\ UNCHANGED <<B, ret>>

Unique ==
    /\ Ordered(A)
    /\ Ordered(A') /\ IsInjective(A') /\ ToSet(A') = ToSet(A)
    /\ UNCHANGED <<B, ret>>

\* The names at the places K are taken out.
Compact(K) ==
    /\ LET kept == SetToSortSeq(DOMAIN A \ K, <)
       IN A' = [j \in 1..Len(kept) |-> A[kept[j]]]
    /\ UNCHANGED <<B, ret>>

Returns(question, answer) == ret' = [of |-> question, is |-> answer]

\* The differences and the intersection of two sorted lists, as bags.
Diff ==
    /\ Ordered(A) /\ Ordered(B) /\ Ordered(A')
    /\ LET bagA == ToBag(A)
           bagB == ToBag(B)
           Part == [a_only |-> bagA (-) bagB,
                    b_only |-> bagB (-) bagA,
                    both   |-> bagA (-) (bagA (-) bagB)]
       IN \E p \in DOMAIN Part : ToBag(A') = Part[p] /\ Returns(p, TRUE)
    /\ UNCHANGED B

\* Is n there; is each name there once; are the lists equal; is the first sorted.
Ask ==
    /\ \/ Ordered(A) /\ \E n \in Names : Returns("contains", n \in ToSet(A))
       \/ Ordered(A) /\ Returns("is_unique", IsInjective(A))
       \/ Returns("equal", A = B)
       \/ Returns("is_sorted", Ordered(A))
    /\ UNCHANGED <<A, B>>

Next ==
    \/ \E n \in Names : Add(n) \/ Del(n)
    \/ PopBack
    \/ Clear
    \/ AppendAll
    \/ Clone
    \/ Swap
    \/ Sort
    \/ Unique
    \/ \E K \in SUBSET DOMAIN A : Compact(K)
    \/ Diff
    \/ Ask

Spec == Init /\ [][Next]_vars

=============================================================================
