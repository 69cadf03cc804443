------------------------------- MODULE HashChain -------------------------------
(***************************************************************************)
(* What the audit trail promises: rows with growing ids, each of which     *)
(* carries the hash of the row before it.  A hash is collision free, so it *)
(* is modelled by the id of the row it was computed from; Genesis is the   *)
(* fixed hash the first row carries.                                       *)
(***************************************************************************)
EXTENDS Naturals

Genesis == 0

VARIABLE log   \* [ids of the rows -> the hash in prev_hash]

Ids == DOMAIN log

(* Row j is the row right before i in ORDER BY id; Genesis, when there is   *)
(* no row before i.                                                         *)
IsBefore(j, i) ==
  /\ \A k \in Ids : k < i => k <= j
  /\ j < i
  /\ j \in Ids \cup {Genesis}

IsLast(j) ==
  /\ j \in Ids \cup {Genesis}
  /\ \A k \in Ids : k <= j

(* VerifyAuditChain: every row carries the hash of the row before it.  This *)
(* is the verdict on the whole table under the MASTER_KEY it was written    *)
(* with.  The code would judge a read that breaks off by the rows it        *)
(* delivered (rows.Err is not looked at), and computeHash is keyed with     *)
(* MASTER_KEY, so that a trail does not verify under another one.           *)
Valid == \A i \in Ids : IsBefore(log[i], i)

Extended(i, prev) == [k \in Ids \cup {i} |-> IF k = i THEN prev ELSE log[k]]

Init == log = [i \in {} |-> Genesis]

Append ==
  \E j \in Ids \cup {Genesis} :
    /\ IsLast(j)
    /\ \E i \in DOMAIN log' \ Ids : i \in Nat /\ i > j /\ log' = Extended(i, j)

Spec == Init /\ [][Append]_log
=============================================================================
