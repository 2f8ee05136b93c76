----------------------------- MODULE LinkedList -----------------------------
(***************************************************************************)
(* The doubly linked lists of src/lib/list.h: rings of nodes, one of which *)
(* is the head.  The memory is [prev |-> ..., next |-> ...], a pointer for *)
(* each node; the functions below take it and return it changed, statement *)
(* by statement.                                                           *)
(*                                                                         *)
(* A node that is in no ring keeps stale pointers.  They are forgotten     *)
(* here, so that reading one is an error.                                  *)
(***************************************************************************)
EXTENDS Naturals, SequencesExt

CONSTANTS
    Elems,         \* nodes that are elements
    Heads,         \* nodes that are heads
    NULL,
    POISON         \* LIST_POISON, and what a node holds that is not initialised

\* What the constants must satisfy; Containers assumes it.
ConstantsOK ==
    /\ Elems \cap Heads = {} /\ Heads # {}
    /\ IsFiniteSet(Elems) /\ IsFiniteSet(Heads)
    /\ NULL \notin Seq(Elems)

VARIABLES
    mem,
    lists          \* history: the list that the calls have promised each head,
                   \* NULL while it is not in use

vars == <<mem, lists>>

Nodes == Elems \cup Heads

-----------------------------------------------------------------------------
(* The functions *)

list_init(m, list) == [m EXCEPT !.next[list] = list, !.prev[list] = list]

list_poison(m, list) == [m EXCEPT !.next[list] = POISON, !.prev[list] = POISON]

list_insert(m, before, elem) ==
    [m EXCEPT !.prev[elem] = m.prev[before],
              !.next[elem] = before,
              !.next[m.prev[before]] = elem,
              !.prev[before] = elem]

\* Variant: the end of the run is the element after it.
list_spliceInclusive(m, before, first, last) ==
    LET cut == [m EXCEPT !.next[m.prev[first]] = m.next[last],
                         !.prev[m.next[last]] = m.prev[first]]
        at  == cut.prev[before]
    IN IF first = last THEN m
       ELSE [cut EXCEPT !.prev[first] = at,
                        !.next[last] = before,
                        !.next[at] = first,
                        !.prev[before] = last]

list_splice(m, before, first, last) ==
    LET end == m.prev[last]
        cut == [m EXCEPT !.next[m.prev[first]] = m.next[end],
                         !.prev[m.next[end]] = m.prev[first]]
        at  == cut.prev[before]
    IN IF first = last THEN m
       ELSE [cut EXCEPT !.prev[first] = at,
                        !.next[end] = before,
                        !.next[at] = first,
                        !.prev[before] = end]

list_push_front(m, list, elem) == list_insert(m, m.next[list], elem)

list_push_back(m, list, elem) == list_insert(m, list, elem)

list_replace(m, element, position) ==
    [m EXCEPT !.next[element] = m.next[position],
              !.prev[m.next[position]] = element,
              !.prev[element] = m.prev[position],
              !.next[m.prev[position]] = element]

list_moved(m, list, orig) ==
    IF m.next[list] = orig THEN list_init(m, list)
    ELSE [m EXCEPT !.prev[m.next[list]] = list, !.next[m.prev[list]] = list]

list_move(m, dst, src) ==
    list_moved([m EXCEPT !.next[dst] = m.next[src], !.prev[dst] = m.prev[src]], dst, src)

list_remove(m, elem) ==
    [m EXCEPT !.next[m.prev[elem]] = m.next[elem],
              !.prev[m.next[elem]] = m.prev[elem]]

list_is_empty(m, list) == m.next[list] = list

list_push_back_all(m, dst, src) == list_splice(m, dst, m.next[src], src)

list_size(m, list) ==
    LET Step[k \in 0..Cardinality(Nodes)] ==
            IF k = 0 THEN m.next[list]
            ELSE IF Step[k - 1] = list THEN list ELSE m.next[Step[k - 1]]
    IN CHOOSE k \in 0..Cardinality(Nodes) : Step[k] = list /\ \A j \in 0..(k - 1) : Step[j] # list

list_is_short(m, list) == m.next[list] = m.prev[list]

-----------------------------------------------------------------------------
(* Calls.  An element that is in a list is put into no other, and a head   *)
(* that has been moved is not used.                                        *)

Live == {h \in Heads : lists[h] # NULL}
Listed == UNION {ToSet(lists[h]) : h \in Live}

\* The lists of two heads, which may be the same, change.
Promise(h, s, g, r) == lists' = [lists EXCEPT ![h] = s, ![g] = r]

Init ==
    /\ mem = [prev |-> [x \in Nodes |-> POISON], next |-> [x \in Nodes |-> POISON]]
    /\ lists = [h \in Heads |-> NULL]

ListInit(h) ==
    /\ h \notin Live
    /\ mem' = list_init(mem, h)
    /\ Promise(h, <<>>, h, <<>>)

\* Before the k-th element.
Insert(h, k, e) ==
    /\ h \in Live /\ e \in Elems \ Listed
    /\ k \in DOMAIN lists[h]
    /\ mem' = list_insert(mem, lists[h][k], e)
    /\ Promise(h, InsertAt(lists[h], k, e), h, InsertAt(lists[h], k, e))

PushFront(h, e) ==
    /\ h \in Live /\ e \in Elems \ Listed
    /\ mem' = list_push_front(mem, h, e)
    /\ Promise(h, <<e>> \o lists[h], h, <<e>> \o lists[h])

PushBack(h, e) ==
    /\ h \in Live /\ e \in Elems \ Listed
    /\ mem' = list_push_back(mem, h, e)
    /\ Promise(h, Append(lists[h], e), h, Append(lists[h], e))

Unlink(h, e) ==
    /\ h \in Live
    /\ e \in ToSet(lists[h])
    /\ mem' = list_poison(list_remove(mem, e), e)
    /\ Promise(h, RemoveFirst(lists[h], e), h, RemoveFirst(lists[h], e))

PopFront(h) ==
    /\ h \in Live /\ ~list_is_empty(mem, h)
    /\ mem' = list_poison(list_remove(mem, mem.next[h]), mem.next[h])
    /\ Promise(h, Tail(lists[h]), h, Tail(lists[h]))

PopBack(h) ==
    /\ h \in Live /\ ~list_is_empty(mem, h)
    /\ mem' = list_poison(list_remove(mem, mem.prev[h]), mem.prev[h])
    /\ Promise(h, Front(lists[h]), h, Front(lists[h]))

\* e takes the place of the k-th element.
Replace(h, k, e) ==
    /\ h \in Live /\ k \in DOMAIN lists[h] /\ e \in Elems \ Listed
    /\ mem' = list_poison(list_replace(mem, e, lists[h][k]), lists[h][k])
    /\ Promise(h, [lists[h] EXCEPT ![k] = e], h, [lists[h] EXCEPT ![k] = e])

\* The elements of g from the i-th to the one before the j-th go before the k-th place
\* of what is left of the list of h, which may be the same list.
Splice(h, k, g, i, j) ==
    /\ h \in Live /\ g \in Live
    /\ LET s    == lists[g]
           ring == s \o <<g>>
           rest == SubSeq(s, 1, i - 1) \o SubSeq(s, j, Len(s))
           base == IF g = h THEN rest ELSE lists[h]
           new  == SubSeq(base, 1, k - 1) \o SubSeq(s, i, j - 1) \o SubSeq(base, k, Len(base))
       IN /\ i \in DOMAIN s /\ j \in i..Len(ring)
          /\ k \in 1..(Len(base) + 1)
          /\ mem' = list_splice(mem, (base \o <<h>>)[k], ring[i], ring[j])
          /\ Promise(g, rest, h, new)

PushBackAll(h, g) ==
    /\ h \in Live /\ g \in Live /\ h # g
    /\ mem' = list_push_back_all(mem, h, g)
    /\ Promise(h, lists[h] \o lists[g], g, <<>>)

\* The head is moved in memory.
Move(dst, src) ==
    /\ src \in Live /\ dst \notin Live
    /\ mem' = list_poison(list_move(mem, dst, src), src)
    /\ Promise(dst, lists[src], src, NULL)

Place == 1..(Cardinality(Elems) + 1)

Next ==
    \/ \E h \in Heads : ListInit(h) \/ PopFront(h) \/ PopBack(h)
    \/ \E h \in Heads, e \in Elems :
          \/ PushFront(h, e)
          \/ PushBack(h, e)
          \/ Unlink(h, e)
          \/ \E k \in Place : Insert(h, k, e) \/ Replace(h, k, e)
    \/ \E h, g \in Heads :
          \/ PushBackAll(h, g)
          \/ Move(h, g)
          \/ \E k, i, j \in Place : Splice(h, k, g, i, j)

Spec == Init /\ [][Next]_vars

-----------------------------------------------------------------------------
(* Properties *)

\* Whatever has been spliced, replaced and moved, each ring is the list its calls have
\* promised, forwards and backwards; its length is what list_size() counts, and
\* list_is_short(), which only compares two pointers, tells if it is below two.
RingsAreLists ==
    \A h \in Live :
        LET ring == lists[h] \o <<h>> IN
        /\ mem.next[h] = ring[1]
        /\ \A k \in DOMAIN lists[h] : mem.next[ring[k]] = ring[k + 1]
        /\ \A k \in DOMAIN lists[h] : mem.prev[ring[k + 1]] = ring[k]
        /\ mem.prev[ring[1]] = h
        /\ list_size(mem, h) = Len(lists[h])
        /\ list_is_short(mem, h) = (Len(lists[h]) < 2)

=============================================================================
