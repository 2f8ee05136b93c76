----------------------------- MODULE MCIpTable -----------------------------
(* Instances of IpTable for TLC. *)
EXTENDS IpTable

=============================================================================
