-------------------------------- MODULE Shash --------------------------------
(***************************************************************************)
(* Maps from strings to data (src/lib/shash.c): the tables of interfaces,  *)
(* of addresses and of bridges.  A name may be there more than once, each  *)
(* time in a node of its own; a node that malloc() returns is taken to be  *)
(* fit for one name only, so that the name determines its hash.            *)
(*                                                                         *)
(* Two maps, of which the calls work on the first.  Assertions are on.     *)
(***************************************************************************)
EXTENDS Hmap

CONSTANTS
    NameOf,        \* the name of each node
    Data           \* what the nodes point to; NULL is one of them

Names == {NameOf[x] : x \in Nodes}
HashOf(n) == Hash[CHOOSE x \in Nodes : NameOf[x] = n]

\* What the constants must satisfy; Containers assumes it.
ConstantsOK ==
    /\ NameOf \in [Nodes -> Names]
    /\ \A x, y \in Nodes : NameOf[x] = NameOf[y] => Hash[x] = Hash[y]
    /\ NULL \in Data

VARIABLES
    a, b,          \* two maps
    data,          \* of each node; NULL if it is free
    ret,           \* what the last call that has a result returned
    aborted        \* an assertion failed

vars == <<a, b, data, ret, aborted>>

Init ==
    /\ a = HMAP_INITIALIZER
    /\ b = HMAP_INITIALIZER
    /\ data = [x \in Nodes |-> NULL]
    /\ ret = NULL
    /\ aborted = FALSE

Free == Nodes \ (Elements(a) \cup Elements(b))

-----------------------------------------------------------------------------
(* The functions *)

\* Variant: the first node of that hash is taken for the one with that name.
shash_findFirst(s, n) == hmap_first_with_hash(s, HashOf(n))

\* shash_find__: the first node of that hash, then the next, until the name fits.
shash_find(s, n) ==
    LET Found[k \in 0..s.n] ==
            IF k = 0 THEN hmap_first_with_hash(s, HashOf(n))
            ELSE IF Found[k - 1] = NULL THEN NULL
            ELSE IF NameOf[Found[k - 1]] = n THEN Found[k - 1]
            ELSE hmap_next_with_hash(s, Found[k - 1])
    IN Found[s.n]

\* Nodes of b are looked up by the names of the nodes of a, not the reverse.
shash_equal_keys(s, t) ==
    s.n = t.n /\ \A x \in Elements(s) : shash_find(t, NameOf[x]) # NULL

-----------------------------------------------------------------------------
(* Calls *)

Returns(r) == ret' = r /\ UNCHANGED aborted

\* shash_add(): the client has made sure that there is no such name, or does not mind.
Add(x, d) ==
    /\ x \in Free
    /\ a' = hmap_insert(a, x)
    /\ data' = [data EXCEPT ![x] = d]

AddOnce(x, d) ==
    \/ /\ shash_find(a, NameOf[x]) = NULL
       /\ Add(x, d)
       /\ Returns(TRUE)
       /\ UNCHANGED b
    \/ /\ shash_find(a, NameOf[x]) # NULL
       /\ Returns(FALSE)
       /\ UNCHANGED <<a, b, data>>

AddAssert(x, d) ==
    \/ /\ shash_find(a, NameOf[x]) = NULL
       /\ Add(x, d)
       /\ UNCHANGED <<b, ret, aborted>>
    \/ /\ shash_find(a, NameOf[x]) # NULL
       /\ aborted' = TRUE
       /\ UNCHANGED <<a, b, data, ret>>

Replace(x, d) ==
    LET node == shash_find(a, NameOf[x]) IN
    /\ IF node = NULL
       THEN Add(x, d) /\ Returns(NULL)
       ELSE /\ data' = [data EXCEPT ![node] = d]
            /\ Returns(data[node])
            /\ UNCHANGED a
    /\ UNCHANGED b

\* hmap_remove() and free() of node x.
Unlink(x) ==
    /\ a' = hmap_remove(a, x)
    /\ data' = [data EXCEPT ![x] = NULL]

\* shash_delete() and shash_steal(), which leaves the name to the caller.
Delete(x) ==
    /\ x \in Elements(a)
    /\ Unlink(x)
    /\ UNCHANGED <<b, ret, aborted>>

FindData(n) ==
    LET node == shash_find(a, n) IN
    /\ Returns(IF node = NULL THEN NULL ELSE data[node])
    /\ UNCHANGED <<a, b, data>>

FindAndDelete(n) ==
    LET node == shash_find(a, n) IN
    /\ IF node = NULL
       THEN Returns(NULL) /\ UNCHANGED <<a, data>>
       ELSE Unlink(node) /\ Returns(data[node])
    /\ UNCHANGED b

\* The node is gone when the assertion looks at its data.
FindAndDeleteAssert(n) ==
    LET node == shash_find(a, n) IN
    /\ IF node = NULL
       THEN aborted' = TRUE /\ UNCHANGED <<a, data>>
       ELSE Unlink(node) /\ aborted' = (data[node] = NULL)
    /\ UNCHANGED <<b, ret>>

\* shash_clear() and shash_clear_free_data() remove node by node.
Clear ==
    /\ a' = [a EXCEPT !.buckets = [k \in 0..a.mask |-> <<>>], !.n = 0]
    /\ data' = [x \in Nodes |-> IF x \in Elements(a) THEN NULL ELSE data[x]]
    /\ UNCHANGED <<b, ret, aborted>>

Swap ==
    /\ a' = b
    /\ b' = a
    /\ UNCHANGED <<data, ret, aborted>>

EqualKeys ==
    /\ Returns(shash_equal_keys(a, b))
    /\ UNCHANGED <<a, b, data>>

Next ==
    /\ ~aborted
    /\ \/ \E x \in Nodes, d \in Data :
            \/ Add(x, d) /\ UNCHANGED <<b, ret, aborted>>
            \/ AddOnce(x, d)
            \/ AddAssert(x, d)
            \/ Replace(x, d)
       \/ \E x \in Nodes : Delete(x)
       \/ \E n \in Names : FindData(n) \/ FindAndDelete(n) \/ FindAndDeleteAssert(n)
       \/ Clear
       \/ Swap
       \/ EqualKeys

Spec == Init /\ [][Next]_vars

-----------------------------------------------------------------------------
(* Properties *)

\* Whatever names collide or are there twice, and however the table grows, the calls
\* and their results are those of two maps from names to data.
Entries(h) == {[id |-> x, name |-> NameOf[x], data |-> data[x]] : x \in Elements(h)}

Abstract == INSTANCE NameMaps WITH Ids <- Nodes, A <- Entries(a), B <- Entries(b)
ImplementsNameMaps == Abstract!Spec

=============================================================================
