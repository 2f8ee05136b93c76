---------------------------- MODULE MCTsnDaemon ----------------------------
(* Instances of TsnDaemon for TLC. *)
EXTENDS TsnDaemon

=============================================================================
