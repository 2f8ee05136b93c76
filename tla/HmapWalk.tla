------------------------------ MODULE HmapWalk ------------------------------
(***************************************************************************)
(* One map of src/lib/hmap.h and the client that changes it while it walks *)
(* over it with HMAP_FOR_EACH or HMAP_FOR_EACH_SAFE.  The map grows and    *)
(* shrinks; the client respects what the comments ask of it: it neither    *)
(* frees the node it is to visit next, nor inserts again the one it is at. *)
(***************************************************************************)
EXTENDS Hmap

CONSTANT Reservations      \* arguments of hmap_reserve()

ASSUME ReservationsAssumption == Reservations \subseteq Nat

VARIABLES
    map,
    safe,          \* the walk is HMAP_FOR_EACH_SAFE
    cursor,        \* NODE of the walk, NULL outside and after it
    ahead,         \* SAFE: NEXT;  else node->next if the cursor has been removed
    due,           \* nodes of the map as the walk began: not yet visited
    seen,          \* nodes the walk has visited
    twice,         \* a node was visited twice
    resized,       \* the buckets were reallocated during the walk
    fast           \* hmap_insert_fast() was called and no growth made up for it

walk == <<safe, cursor, ahead, due, seen, twice, resized>>
vars == <<map, walk, fast>>

-----------------------------------------------------------------------------
Init ==
    /\ map = HMAP_INITIALIZER
    /\ safe = FALSE
    /\ cursor = NULL
    /\ ahead = NULL
    /\ due = {}
    /\ seen = {}
    /\ twice = FALSE
    /\ resized = FALSE
    /\ fast = FALSE

\* hmap_next() from x, a node of map h.
After(h, x) == hmap_next(h, x, NextInChain(h, x))

\* A reallocation in the middle of a walk voids what is known of the walk.
NoteResize(h) ==
    LET R == cursor # NULL /\ (resized \/ h.mask # map.mask) IN
    /\ resized' = R
    /\ seen' = IF R THEN {} ELSE seen
    /\ twice' = (~R /\ twice)

Insert(x) ==
    /\ x \notin Elements(map) \cup {cursor}
    /\ LET h == hmap_insert(map, x) IN
       /\ map' = h
       /\ NoteResize(h)
       /\ due' = IF resized' THEN {} ELSE due
    /\ fast' = FALSE
    /\ UNCHANGED <<safe, cursor, ahead>>

\* hmap_insert_fast() leaves it to the client to call hmap_expand().
InsertFast(x) ==
    /\ x \notin Elements(map) \cup {cursor}
    /\ map' = hmap_insert_fast(map, x)
    /\ fast' = TRUE
    /\ UNCHANGED walk

\* NEXT of a SAFE walk, or the next pointer kept by a removed cursor.
Pinned == cursor # NULL /\ (safe \/ ~hmap_contains(map, cursor))

Unlink(x) ==
    /\ x \in Elements(map)
    /\ ~(Pinned /\ x = ahead)
    /\ map' = hmap_remove(map, x)
    /\ due' = due \ {x}
    /\ ahead' = IF x = cursor /\ ~safe THEN NextInChain(map, x) ELSE ahead
    /\ UNCHANGED <<safe, cursor, seen, twice, resized, fast>>

\* hmap_replace(), outside a walk.
Replace(x, y) ==
    /\ cursor = NULL
    /\ x \in Elements(map)
    /\ y \notin Elements(map)
    /\ Hash[x] = Hash[y]
    /\ map' = hmap_replace(map, x, y)
    /\ UNCHANGED <<walk, fast>>

Clear ==
    /\ cursor = NULL
    /\ map' = hmap_clear(map)
    /\ UNCHANGED <<walk, fast>>

Resize(h) ==
    /\ h # map
    /\ map' = h
    /\ NoteResize(h)
    /\ due' = IF resized' THEN {} ELSE due
    /\ UNCHANGED <<safe, cursor, ahead>>

Expand == Resize(hmap_expand(map)) /\ fast' = FALSE

Shrink == Resize(hmap_shrink(map)) /\ UNCHANGED fast

Reserve(n) == Resize(hmap_reserve(map, n)) /\ UNCHANGED fast

-----------------------------------------------------------------------------
(* The walk *)

\* The loop reaches node x, or its end; s says whether it is a SAFE one.
Reach(s, x, left, before) ==
    /\ cursor' = x
    /\ due' = IF x = NULL THEN left ELSE left \ {x}
    /\ seen' = IF x = NULL THEN {} ELSE before \cup {x}
    /\ ahead' = IF s /\ x # NULL THEN After(map, x) ELSE NULL

Begin(s) ==
    /\ cursor = NULL
    /\ hmap_first(map) # NULL
    /\ safe' = s
    /\ Reach(s, hmap_first(map), Elements(map), {})
    /\ twice' = FALSE
    /\ resized' = FALSE
    /\ UNCHANGED <<map, fast>>

\* In HMAP_FOR_EACH the cursor's next pointer is read now; a node that has been
\* removed still holds the one it had.
Advance ==
    /\ cursor # NULL
    /\ LET next == IF safe THEN ahead
                   ELSE IF hmap_contains(map, cursor) THEN After(map, cursor)
                   ELSE hmap_next(map, cursor, ahead)
       IN /\ Reach(safe, next, due, IF resized THEN {} ELSE seen)
          /\ twice' = (twice \/ (~resized /\ next \in seen))
    /\ UNCHANGED <<map, safe, resized, fast>>

Next ==
    \/ \E x \in Nodes : Insert(x) \/ InsertFast(x) \/ Unlink(x)
    \/ \E x, y \in Nodes : Replace(x, y)
    \/ Clear
    \/ Expand
    \/ Shrink
    \/ \E n \in Reservations : Reserve(n)
    \/ \E s \in BOOLEAN : Begin(s)
    \/ Advance

Spec == Init /\ [][Next]_vars

\* The client leaves no walk unfinished.
FairSpec == Spec /\ WF_vars(Advance)

-----------------------------------------------------------------------------
(* Properties *)

TypeOK ==
    /\ WellFormed(map)
    /\ Elements(map) \subseteq Nodes
    /\ safe \in BOOLEAN
    /\ cursor \in Nodes \cup {NULL}
    /\ ahead \in Nodes \cup {NULL}
    /\ due \subseteq Nodes
    /\ seen \subseteq Nodes
    /\ twice \in BOOLEAN
    /\ resized \in BOOLEAN
    /\ fast \in BOOLEAN

\* hmap_insert() and hmap_expand() bring the map back below its capacity, so chains
\* stay short whatever was removed, shrunk, reserved or inserted fast in between.
LoadBounded == ~fast => map.n <= hmap_capacity(map)

\* Unless the buckets were reallocated under it, a walk visits each node it found
\* at its start exactly once, the removed ones apart: also when the body of the
\* loop removes the node it is at, or inserts others.
VisitedExactlyOnce ==
    /\ ~twice
    /\ cursor = NULL /\ ~resized => due = {}

\* Stepping with hmap_at_position() from the zero position yields the same nodes in
\* the same order, and ends on the zero position again.
PositionsFollowTraversal ==
    LET Step[k \in 0..map.n] ==
            hmap_at_position(map, IF k = 0 THEN [bucket |-> 0, offset |-> 0]
                                  ELSE Step[k - 1].pos)
    IN /\ \A k \in 1..map.n : Step[k - 1].node = Traversal(map)[k]
       /\ Step[map.n] = [node |-> NULL, pos |-> [bucket |-> 0, offset |-> 0]]

\* Reallocation is invisible: to its client the map is a set of nodes.
AbstractSet == INSTANCE NodeSet WITH Elems <- Nodes, elems <- Elements(map)
ImplementsSet == AbstractSet!Spec

\* A walk ends if the map is not reallocated for ever, whatever is inserted and
\* removed meanwhile.
WalkTerminates ==
    <>[][map'.mask = map.mask]_vars => (cursor # NULL ~> cursor = NULL)

=============================================================================
