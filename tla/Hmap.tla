-------------------------------- MODULE Hmap --------------------------------
(***************************************************************************)
(* The intrusive hash map of src/lib/hmap.h and hmap.c as a data type.     *)
(* Every other container of the program is built on it.                    *)
(*                                                                         *)
(* A map is a record: mask, the chain of each bucket 0..mask from its head *)
(* on, and the counter n, which the code keeps apart from the chains.      *)
(* "hash & mask" is a remainder because mask + 1 is a power of two.        *)
(***************************************************************************)
EXTENDS Naturals, SequencesExt

CONSTANTS
    Nodes,         \* the nodes (struct hmap_node) of the program
    Hash,          \* the hash each node is inserted with
    NULL

ASSUME HmapAssumption ==
    /\ Hash \in [Nodes -> Nat]
    /\ NULL \notin Nodes

-----------------------------------------------------------------------------
HMAP_INITIALIZER == [mask |-> 0, buckets |-> [b \in 0..0 |-> <<>>], n |-> 0]

Bucket(h, x) == Hash[x] % (h.mask + 1)

\* The nodes in the order in which hmap_first() and hmap_next() deliver them.
Traversal(h) == FlattenSeq([b \in 1..(h.mask + 1) |-> h.buckets[b - 1]])

Elements(h) == ToSet(Traversal(h))

hmap_contains(h, x) == x \in ToSet(h.buckets[Bucket(h, x)])

hmap_capacity(h) == h.mask * 2 + 1

-----------------------------------------------------------------------------
(* Capacity *)

\* hmap_insert() without growth.
hmap_insert_fast(h, x) ==
    [h EXCEPT !.buckets[Bucket(h, x)] = <<x>> \o @, !.n = @ + 1]

\* The k lowest bits.
LowBits[k \in Nat] == IF k = 0 THEN 0 ELSE 2 * LowBits[k - 1] + 1

\* capacity / 2 with every bit below its highest one set; never exactly 1.
calc_mask(capacity) ==
    Min({m \in {LowBits[k] : k \in 0..(capacity + 2)} \ {1} : m >= capacity \div 2})

\* A new table, into which these nodes have been inserted one after the other.
Refilled(nodes, new_mask) ==
    LET tmp[k \in 0..Len(nodes)] ==
            IF k = 0
            THEN [mask |-> new_mask, buckets |-> [b \in 0..new_mask |-> <<>>], n |-> 0]
            ELSE hmap_insert_fast(tmp[k - 1], nodes[k])
    IN tmp[Len(nodes)]

\* Variant: the next node is read after the node has been moved, so only the heads
\* of the chains arrive.
resizeHeads(h, new_mask) ==
    LET Heads == {Head(h.buckets[b]) : b \in {c \in 0..h.mask : h.buckets[c] # <<>>}}
        Kept(x) == x \in Heads
    IN Refilled(SelectSeq(Traversal(h), Kept), new_mask)

\* The chains are emptied bucket by bucket, from the head.
resize(h, new_mask) == Refilled(Traversal(h), new_mask)

hmap_expand(h) ==
    IF calc_mask(h.n) > h.mask THEN resize(h, calc_mask(h.n)) ELSE h

hmap_shrink(h) ==
    IF calc_mask(h.n) < h.mask THEN resize(h, calc_mask(h.n)) ELSE h

hmap_reserve(h, capacity) ==
    IF calc_mask(capacity) > h.mask THEN resize(h, calc_mask(capacity)) ELSE h

-----------------------------------------------------------------------------
(* Insertion and deletion *)

\* Variant: the map grows one node too late.
hmap_insertLate(h, x) ==
    LET g == hmap_insert_fast(h, x)
    IN IF g.n \div 2 > g.mask + 1 THEN hmap_expand(g) ELSE g

hmap_insert(h, x) ==
    LET g == hmap_insert_fast(h, x)
    IN IF g.n \div 2 > g.mask THEN hmap_expand(g) ELSE g

\* Variant: the counter is not decremented.
hmap_removeUncounted(h, x) ==
    [h EXCEPT !.buckets[Bucket(h, x)] = RemoveFirst(@, x)]

hmap_remove(h, x) ==
    [h EXCEPT !.buckets[Bucket(h, x)] = RemoveFirst(@, x), !.n = @ - 1]

\* y takes the place, and the hash, of x.
hmap_replace(h, x, y) ==
    [h EXCEPT !.buckets[Bucket(h, x)] =
        [k \in 1..Len(@) |-> IF @[k] = x THEN y ELSE @[k]]]

hmap_clear(h) ==
    IF h.n > 0
    THEN [h EXCEPT !.buckets = [b \in 0..h.mask |-> <<>>], !.n = 0]
    ELSE h

-----------------------------------------------------------------------------
(* Search and iteration; NULL where the code returns a null pointer. *)

\* node->next of a node that is in the map.
NextInChain(h, x) ==
    LET chain == h.buckets[Bucket(h, x)]
        k     == SelectInSeq(chain, LAMBDA y : y = x)
    IN IF k < Len(chain) THEN chain[k + 1] ELSE NULL

\* hmap_next__: the head of the first bucket from start on that is not empty.
hmap_next__(h, start) ==
    LET Occupied == {b \in start..h.mask : h.buckets[b] # <<>>}
    IN IF Occupied = {} THEN NULL
       ELSE Head(h.buckets[CHOOSE b \in Occupied : \A c \in Occupied : b <= c])

hmap_first(h) == hmap_next__(h, 0)

\* Variants: the rest of the chain is skipped; the search resumes at the same bucket.
hmap_nextBucket(h, x, next) == hmap_next__(h, Bucket(h, x) + 1)
hmap_nextAgain(h, x, next) ==
    IF next # NULL THEN next ELSE hmap_next__(h, Bucket(h, x))

\* next is node->next as the node holds it, which outlives its removal.
hmap_next(h, x, next) ==
    IF next # NULL THEN next ELSE hmap_next__(h, Bucket(h, x) + 1)

hmap_first_with_hash(h, hash) ==
    LET chain == h.buckets[hash % (h.mask + 1)]
        k     == SelectInSeq(chain, LAMBDA y : Hash[y] = hash)
    IN IF k = 0 THEN NULL ELSE chain[k]

hmap_next_with_hash(h, x) ==
    LET chain == h.buckets[Bucket(h, x)]
        k     == SelectInSeq(chain, LAMBDA y : y = x)
        l     == SelectInSubSeq(chain, k + 1, Len(chain), LAMBDA y : Hash[y] = Hash[x])
    IN IF l = 0 THEN NULL ELSE chain[l]

\* Variant: the position after a node is always in the next bucket.
hmap_at_positionSkips(h, pos) ==
    LET Hits == {b \in pos.bucket..h.mask : h.buckets[b] # <<>>}
    IN IF Hits = {} THEN [node |-> NULL, pos |-> [bucket |-> 0, offset |-> 0]]
       ELSE LET b == CHOOSE b \in Hits : \A c \in Hits : b <= c
            IN [node |-> h.buckets[b][1], pos |-> [bucket |-> b + 1, offset |-> 0]]

\* The node at pos, and the position after it.
hmap_at_position(h, pos) ==
    LET Offset(b) == IF b = pos.bucket THEN pos.offset ELSE 0
        Hits == {b \in pos.bucket..h.mask : Offset(b) < Len(h.buckets[b])}
    IN IF Hits = {} THEN [node |-> NULL, pos |-> [bucket |-> 0, offset |-> 0]]
       ELSE LET b == CHOOSE b \in Hits : \A c \in Hits : b <= c
                o == Offset(b)
            IN [node |-> h.buckets[b][o + 1],
                pos  |-> IF o + 1 < Len(h.buckets[b])
                         THEN [bucket |-> b, offset |-> o + 1]
                         ELSE [bucket |-> b + 1, offset |-> 0]]

-----------------------------------------------------------------------------
(* What the functions above rely on and preserve: each node is once in the *)
(* chain its hash selects, n counts the nodes, mask + 1 is a power of two  *)
(* and not 2.                                                              *)

WellFormed(h) ==
    /\ h.mask \in {LowBits[k] : k \in 0..h.mask} \ {1}
    /\ DOMAIN h.buckets = 0..h.mask
    /\ \A b \in 0..h.mask : \A k \in 1..Len(h.buckets[b]) :
          Bucket(h, h.buckets[b][k]) = b
    /\ IsInjective(Traversal(h))
    /\ h.n = Len(Traversal(h))

=============================================================================
