------------------------------ MODULE MCTables ------------------------------
(* Tables for TLC: two ports and a link that is not one, two rounds; tables  *)
(* of two slots for up to three entries.                                     *)
EXTENDS Tables

=============================================================================
