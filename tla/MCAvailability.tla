----------------------------- MODULE MCAvailability -----------------------------
(* Instance of Availability for TLC: a short and a long window.             *)
EXTENDS Availability

ShortAndLong == {1, 3}
=============================================================================
