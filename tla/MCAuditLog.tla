------------------------------- MODULE MCAuditLog -------------------------------
(* Instances of AuditLog for TLC: requests that write the trail at the same  *)
(* time.                                                                     *)
EXTENDS AuditLog

CONSTANTS w1, w2, w3
Three == {w1, w2, w3}
=============================================================================
