------------------------------- MODULE MCAccounts -------------------------------
EXTENDS Accounts, TLC

CONSTANTS r1, r2

(* The code of period 1 in two spellings, and one that comes later.         *)
MCPeriodOf == [c \in {"1", "1 ", "4"} |-> IF c = "4" THEN 4 ELSE 1]

MCRequests == {r1, r2}
Symmetry   == Permutations(MCRequests)
=============================================================================
