------------------------------- MODULE Semaphore -------------------------------
(***************************************************************************)
(* What buffered Go channels used as semaphores promise: whoever sends on  *)
(* one holds a slot of it until it receives, and no more than the buffer   *)
(* hold one at a time.  The holders are sets and not numbers, so that a    *)
(* slot that is given back twice, or by somebody who has none, is not a    *)
(* step of this specification; nor is a step that moves two slots.         *)
(***************************************************************************)
EXTENDS Naturals, FiniteSets

CONSTANTS
  Pools,     \* the semaphores
  Users,     \* who may take a slot
  Capacity   \* length of each channel's buffer

VARIABLE holders   \* [Pools -> SUBSET Users]

Init == holders = [c \in Pools |-> {}]

Acquire(u, c) ==
  /\ u \notin holders[c]
  /\ Cardinality(holders[c]) < Capacity
  /\ holders' = [holders EXCEPT ![c] = @ \cup {u}]

Release(u, c) ==
  /\ u \in holders[c]
  /\ holders' = [holders EXCEPT ![c] = @ \ {u}]

Next == \E u \in Users, c \in Pools : Acquire(u, c) \/ Release(u, c)

Spec == Init /\ [][Next]_holders
=============================================================================
