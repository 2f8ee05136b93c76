------------------------------ MODULE NodeSet ------------------------------
(* What the containers promise: a set of elements, changed one at a time.  *)
(* The specification that HmapWalk is shown to implement.                  *)
CONSTANT Elems

VARIABLE elems

Init == elems = {}

Insert(x) == x \in Elems \ elems /\ elems' = elems \cup {x}

Remove(x) == x \in elems /\ elems' = elems \ {x}

Replace(x, y) == x \in elems /\ y \in Elems \ elems /\ elems' = (elems \ {x}) \cup {y}

Clear == elems' = {}

Next ==
    \/ \E x \in Elems : Insert(x) \/ Remove(x)
    \/ \E x, y \in Elems : Replace(x, y)
    \/ Clear

Spec == Init /\ [][Next]_elems

=============================================================================
