----------------------------- MODULE MCHealthLedger -----------------------------
(* Instance of HealthLedger for TLC: a TCP check and a collection, which     *)
(* write the same counter under different statuses, and a test the user asks *)
(* for, which like the collection resets it.  A slot is named by its code.   *)
EXTENDS HealthLedger

LedgerSlots == {"tcp", "collect", "test"}
LedgerKinds == [t \in LedgerSlots |-> t]
=============================================================================
