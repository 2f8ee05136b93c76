---------------------------- MODULE MCHmapWalk ----------------------------
(* HmapWalk with two nodes of the same hash, one that shares their bucket   *)
(* only while there are four buckets, two elsewhere.                        *)
EXTENDS HmapWalk, TLC

CONSTANTS n1, n2, n3, n4, n5

MCNodes == {n1, n2, n3, n4, n5}
MCHash == n1 :> 1 @@ n2 :> 1 @@ n3 :> 5 @@ n4 :> 2 @@ n5 :> 7

=============================================================================
