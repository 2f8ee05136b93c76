------------------------------ MODULE NameMaps ------------------------------
(* What src/lib/shash.h promises: two maps from names to data, which admit   *)
(* several entries of one name.  Of those a search may pick any.             *)
EXTENDS FiniteSets, Naturals

CONSTANTS Ids, Names, Data, NULL

VARIABLES A, B, ret, aborted

vars == <<A, B, ret, aborted>>

Entry == [id : Ids, name : Names, data : Data]

Named(map, n) == {e \in map : e.name = n}
Keys(map) == {e.name : e \in map}
Unique(map) == \A n \in Keys(map) : Cardinality(Named(map, n)) = 1

\* The entry is not in use yet.
New(e) == \A o \in A \cup B : o.id # e.id

Init == A = {} /\ B = {} /\ ret = NULL /\ aborted = FALSE

Returns(r) == ret' = r /\ UNCHANGED aborted

Add(e) == New(e) /\ A' = A \cup {e} /\ UNCHANGED <<B, ret, aborted>>

AddOnce(e) ==
    \/ Named(A, e.name) = {} /\ New(e) /\ A' = A \cup {e} /\ Returns(TRUE) /\ UNCHANGED B
    \/ Named(A, e.name) # {} /\ Returns(FALSE) /\ UNCHANGED <<A, B>>

AddAssert(e) ==
    \/ Named(A, e.name) = {} /\ Add(e)
    \/ Named(A, e.name) # {} /\ aborted' = TRUE /\ UNCHANGED <<A, B, ret>>

Replace(e) ==
    \/ /\ Named(A, e.name) = {} /\ New(e)
       /\ A' = A \cup {e}
       /\ Returns(NULL)
       /\ UNCHANGED B
    \/ \E old \in Named(A, e.name) :
          /\ A' = (A \ {old}) \cup {[old EXCEPT !.data = e.data]}
          /\ Returns(old.data)
          /\ UNCHANGED B

Delete(e) == A' = A \ {e} /\ UNCHANGED <<B, ret, aborted>>

FindData(n) ==
    /\ \/ Named(A, n) = {} /\ Returns(NULL)
       \/ \E e \in Named(A, n) : Returns(e.data)
    /\ UNCHANGED <<A, B>>

FindAndDelete(n) ==
    /\ \/ Named(A, n) = {} /\ Returns(NULL) /\ UNCHANGED A
       \/ \E e \in Named(A, n) : A' = A \ {e} /\ Returns(e.data)
    /\ UNCHANGED B

\* An entry without data counts as none.
FindAndDeleteAssert(n) ==
    /\ \/ Named(A, n) = {} /\ aborted' = TRUE /\ UNCHANGED A
       \/ \E e \in Named(A, n) : A' = A \ {e} /\ aborted' = (e.data = NULL)
    /\ UNCHANGED <<B, ret>>

Clear == A' = {} /\ UNCHANGED <<B, ret, aborted>>

Swap == A' = B /\ B' = A /\ UNCHANGED <<ret, aborted>>

\* The keys are compared if none is there twice.  Otherwise all that can be said is
\* that two maps with the same keys, each as often, are equal, and that in equal
\* maps each key of the first is in the second.
EqualKeys ==
    \E r \in BOOLEAN :
        /\ Unique(A) /\ Unique(B) => r = (Keys(A) = Keys(B))
        /\ (\A n \in Names : Cardinality(Named(A, n)) = Cardinality(Named(B, n))) => r
        /\ r => Keys(A) \subseteq Keys(B)
        /\ Returns(r)
        /\ UNCHANGED <<A, B>>

Next ==
    /\ ~aborted
    /\ \/ \E e \in Entry : Add(e) \/ AddOnce(e) \/ AddAssert(e) \/ Replace(e)
       \/ \E e \in A : Delete(e)
       \/ \E n \in Names : FindData(n) \/ FindAndDelete(n) \/ FindAndDeleteAssert(n)
       \/ Clear
       \/ Swap
       \/ EqualKeys

Spec == Init /\ [][Next]_vars

=============================================================================
