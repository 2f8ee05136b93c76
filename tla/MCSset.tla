------------------------------- MODULE MCSset -------------------------------
(* Sset with four names, two of the same hash and one that shares their     *)
(* bucket.                                                                  *)
EXTENDS Sset, TLC

CONSTANTS n1, n2, n3, n4

MCNodes == {n1, n2, n3, n4}
MCHash == n1 :> 1 @@ n2 :> 1 @@ n3 :> 5 @@ n4 :> 2

=============================================================================
