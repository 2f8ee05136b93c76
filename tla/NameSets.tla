------------------------------ MODULE NameSets ------------------------------
(* What src/lib/sset.h promises: two sets of names, the calls on them and   *)
(* the results the calls return.  An assertion that fails ends the program. *)
EXTENDS FiniteSets, Naturals

CONSTANT Names

VARIABLES A, B, ret, aborted

vars == <<A, B, ret, aborted>>

Init == A = {} /\ B = {} /\ ret = FALSE /\ aborted = FALSE

Returns(r) == ret' = r /\ UNCHANGED aborted

Add(n) == A' = A \cup {n} /\ Returns(n \notin A) /\ UNCHANGED B

AddAssert(n) ==
    \/ n \notin A /\ A' = A \cup {n} /\ UNCHANGED <<B, ret, aborted>>
    \/ n \in A /\ aborted' = TRUE /\ UNCHANGED <<A, B, ret>>

FindAndDelete(n) == A' = A \ {n} /\ Returns(n \in A) /\ UNCHANGED B

FindAndDeleteAssert(n) ==
    \/ n \in A /\ A' = A \ {n} /\ UNCHANGED <<B, ret, aborted>>
    \/ n \notin A /\ aborted' = TRUE /\ UNCHANGED <<A, B, ret>>

Contains(n) == Returns(n \in A) /\ UNCHANGED <<A, B>>

Pop == \E n \in A : A' = A \ {n} /\ UNCHANGED <<B, ret, aborted>>

Clear == A' = {} /\ UNCHANGED <<B, ret, aborted>>

Clone == B' = A /\ UNCHANGED <<A, ret, aborted>>

Swap == A' = B /\ B' = A /\ UNCHANGED <<ret, aborted>>

Intersect == A' = A \cap B /\ UNCHANGED <<B, ret, aborted>>

Equals == Returns(A = B) /\ UNCHANGED <<A, B>>

Next ==
    /\ ~aborted
    /\ \/ \E n \in Names :
            \/ Add(n)
            \/ AddAssert(n)
            \/ FindAndDelete(n)
            \/ FindAndDeleteAssert(n)
            \/ Contains(n)
       \/ Pop
       \/ Clear
       \/ Clone
       \/ Swap
       \/ Intersect
       \/ Equals

Spec == Init /\ [][Next]_vars

=============================================================================
