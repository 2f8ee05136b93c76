-------------------------------- MODULE Sset --------------------------------
(***************************************************************************)
(* Sets of strings (src/lib/sset.c): the interface names of the providers  *)
(* are one.  A name stands for the node that holds it.  Two sets, so that  *)
(* the calls that take two can be made; get_interface_names() uses         *)
(* sset_init() and sset_add() only.                                        *)
(***************************************************************************)
EXTENDS Hmap

CONSTANT NDEBUG    \* TRUE in a Release build: assert() and its argument vanish

\* What the constant must satisfy; Containers assumes it.
ConstantsOK == NDEBUG \in BOOLEAN

VARIABLES
    a, b,          \* two sets
    ret,           \* what the last call that has a result returned
    aborted,       \* an assertion failed
    asserted       \* history: [add |-> names, del |-> names] the last call asserted

vars == <<a, b, ret, aborted, asserted>>

NoCall == [add |-> {}, del |-> {}]

Init ==
    /\ a = HMAP_INITIALIZER
    /\ b = HMAP_INITIALIZER
    /\ ret = FALSE
    /\ aborted = FALSE
    /\ asserted = NoCall

-----------------------------------------------------------------------------
(* The functions *)

\* Variant: only the first name of that hash is looked at.
sset_findFirst(s, n) ==
    IF hmap_first_with_hash(s, Hash[n]) = n THEN n ELSE NULL

\* sset_find__: the first name of that hash, then the next, until it is found.
sset_find(s, n) ==
    LET Found[k \in 0..s.n] ==
            IF k = 0 THEN hmap_first_with_hash(s, Hash[n])
            ELSE IF Found[k - 1] \in {n, NULL} THEN Found[k - 1]
            ELSE hmap_next_with_hash(s, Found[k - 1])
    IN Found[s.n]

sset_contains(s, n) == sset_find(s, n) # NULL

sset_add(s, n) == IF sset_contains(s, n) THEN s ELSE hmap_insert(s, n)

sset_find_and_delete(s, n) == IF sset_contains(s, n) THEN hmap_remove(s, n) ELSE s

sset_clone(orig) ==
    LET names == Traversal(orig)
        set[k \in 0..Len(names)] ==
            IF k = 0 THEN HMAP_INITIALIZER ELSE hmap_insert(set[k - 1], names[k])
    IN set[Len(names)]

sset_clear(s) ==
    LET names == Traversal(s)
        set[k \in 0..Len(names)] ==
            IF k = 0 THEN s ELSE hmap_remove(set[k - 1], names[k])
    IN set[Len(names)]

sset_intersect(s, t) ==
    LET names == Traversal(s)
        set[k \in 0..Len(names)] ==
            IF k = 0 THEN s
            ELSE IF sset_contains(t, names[k]) THEN set[k - 1]
            ELSE hmap_remove(set[k - 1], names[k])
    IN set[Len(names)]

sset_equals(s, t) ==
    s.n = t.n /\ \A k \in 1..Len(Traversal(s)) : sset_contains(t, Traversal(s)[k])

-----------------------------------------------------------------------------
(* Calls *)

Returns(r) == ret' = r /\ UNCHANGED aborted

Add(n) ==
    /\ a' = sset_add(a, n)
    /\ Returns(~sset_contains(a, n))
    /\ asserted' = NoCall
    /\ UNCHANGED b

\* assert(e) with a call in e: without NDEBUG the call is made and its result
\* checked, with NDEBUG nothing happens.
Asserting(result, s) ==
    IF NDEBUG THEN UNCHANGED <<a, aborted>>
    ELSE /\ a' = s
         /\ aborted' = ~result

AddAssert(n) ==
    /\ Asserting(~sset_contains(a, n), sset_add(a, n))
    /\ asserted' = [add |-> {n}, del |-> {}]
    /\ UNCHANGED <<b, ret>>

FindAndDelete(n) ==
    /\ a' = sset_find_and_delete(a, n)
    /\ Returns(sset_contains(a, n))
    /\ asserted' = NoCall
    /\ UNCHANGED b

FindAndDeleteAssert(n) ==
    /\ Asserting(sset_contains(a, n), sset_find_and_delete(a, n))
    /\ asserted' = [add |-> {}, del |-> {n}]
    /\ UNCHANGED <<b, ret>>

HasName(n) ==
    /\ Returns(sset_contains(a, n))
    /\ asserted' = NoCall
    /\ UNCHANGED <<a, b>>

\* sset_pop() of a set that is not empty.
Pop ==
    /\ a.n > 0
    /\ a' = hmap_remove(a, hmap_first(a))
    /\ asserted' = NoCall
    /\ UNCHANGED <<b, ret, aborted>>

Clear ==
    /\ a' = sset_clear(a)
    /\ asserted' = NoCall
    /\ UNCHANGED <<b, ret, aborted>>

\* sset_destroy(b), then sset_clone(b, a).
Clone ==
    /\ b' = sset_clone(a)
    /\ asserted' = NoCall
    /\ UNCHANGED <<a, ret, aborted>>

Swap ==
    /\ a' = b
    /\ b' = a
    /\ asserted' = NoCall
    /\ UNCHANGED <<ret, aborted>>

Intersect ==
    /\ a' = sset_intersect(a, b)
    /\ asserted' = NoCall
    /\ UNCHANGED <<b, ret, aborted>>

Equals ==
    /\ Returns(sset_equals(a, b))
    /\ asserted' = NoCall
    /\ UNCHANGED <<a, b>>

Next ==
    /\ ~aborted
    /\ \/ \E n \in Nodes :
            \/ Add(n)
            \/ AddAssert(n)
            \/ FindAndDelete(n)
            \/ FindAndDeleteAssert(n)
            \/ HasName(n)
       \/ Pop
       \/ Clear
       \/ Clone
       \/ Swap
       \/ Intersect
       \/ Equals

Spec == Init /\ [][Next]_vars

-----------------------------------------------------------------------------
(* Properties *)

\* Hashing, collisions, growth and the order of the chains never show: in a Debug
\* build the calls and their results are those of two sets of names.
Abstract == INSTANCE NameSets
    WITH Names <- Nodes, A <- Elements(a), B <- Elements(b)
ImplementsNameSets == Abstract!Spec

\* What the comments of the two asserting calls say: after the one the name is in
\* the set, after the other it is not, or the program has stopped.
AssertingCallsDoTheirWork ==
    ~aborted => asserted.add \subseteq Elements(a) /\ asserted.del \cap Elements(a) = {}

=============================================================================
