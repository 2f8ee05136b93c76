---------------------------- MODULE MCContainers ----------------------------
(* Containers with small tables that collide: two strings of the same hash   *)
(* and one that shares their bucket in the sets, three nodes of one name and *)
(* one of another with the same hash in the maps.                            *)
EXTENDS Containers, Sequences, TLC

CONSTANTS n1, n2, n3, n4, x1, x2, x3, y1, x, y

MCStrings == {n1, n2, n3, n4}
MCStringHash == n1 :> 1 @@ n2 :> 1 @@ n3 :> 5 @@ n4 :> 2

MCMapNodes == {x1, x2, x3, y1}
MCMapHash == [node \in MCMapNodes |-> 1]
MCNameOf == [node \in MCMapNodes |-> IF node = y1 THEN y ELSE x]
MCSymmetry == Permutations({n1, n2}) \cup Permutations({x1, x2, x3})

\* A string that fills the first allocation, and one that outgrows it when escaped.
Xs(n) == [k \in 1..n |-> "x"]
MCChars == {"x", " ", "#", "\"", "\\", "0", "4", "2", "NUL"}
MCOctal == "\"" :> <<"\\", "0", "4", "2">>
MCPieces == {Xs(1), Xs(8), Xs(4) \o <<"\"", "\"">>}

\* Empty; trailing space; nothing but comments; a comment behind a blank line.
MCFiles == {<<>>,
            << <<"x", " ">> >>,
            << <<"#", "x">>, <<" ", "#">> >>,
            << <<" ">>, <<"x", "#", "x">> >>}

=============================================================================
