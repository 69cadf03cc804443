-------------------------------- MODULE Lockout --------------------------------
(***************************************************************************)
(* What the lock of an account promises to attempts that come one after    *)
(* the other: wrong ones are counted, enough of them shut it, a right one  *)
(* starts the count again, and only time opens it.                         *)
(***************************************************************************)
EXTENDS Naturals

CONSTANTS
  Limit,   \* so many wrong attempts shut the lock
  Most     \* the count stays here: beyond Limit it is not told apart

VARIABLES count, shut

Init == count = 0 /\ shut = FALSE

Wrong ==
  /\ ~shut
  /\ count' = IF count < Most THEN count + 1 ELSE Most
  /\ shut' = (count' >= Limit)

Right == ~shut /\ count' = 0 /\ shut' = FALSE

(* The count stays as it was: the next wrong attempt shuts it again.        *)
Open == shut /\ shut' = FALSE /\ UNCHANGED count

Next == Wrong \/ Right \/ Open

Spec == Init /\ [][Next]_<<count, shut>>
=============================================================================
