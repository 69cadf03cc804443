-------------------------------- MODULE AuditLog --------------------------------
(***************************************************************************)
(* The audit trail.  A request first does its work (deletes a server, runs *)
(* a command...) and then calls WriteAuditLog, which reads the newest row, *)
(* hashes it and inserts the new row: two statements on pooled connections *)
(* with no lock and no transaction around them.  PostgreSQL hands out the  *)
(* id (BIGSERIAL) when the INSERT runs and shows the row to others when it *)
(* commits.                                                                *)
(***************************************************************************)
EXTENDS HashChain

CONSTANTS
  Writers,     \* concurrent requests
  MaxId,       \* bound: ids handed out
  ReadMayFail, \* TRUE: the SELECT may fail although there are rows
  MayBeCut     \* TRUE: a request may be cancelled, its INSERT fail, or the
               \* process end at any point

ASSUME MaxIdAssumption  == MaxId \in Nat
ASSUME FaultsAssumption == ReadMayFail \in BOOLEAN /\ MayBeCut \in BOOLEAN

VARIABLES
  nextId,   \* the sequence behind BIGSERIAL
  writer,   \* where each request is in WriteAuditLog, and prevHash
  overlap   \* history: some SELECT failed, or came between the SELECT and
            \* the commit of another request

vars == <<log, nextId, writer, overlap>>

WriterSteps == {"idle", "read", "insert", "commit"}
WriterState == [pc : WriterSteps, prev : 0 .. MaxId, id : 0 .. MaxId]
Quiet       == [pc |-> "idle", prev |-> Genesis, id |-> 0]

Pending(p)  == writer[p].pc \in {"insert", "commit"}

AInit ==
  /\ Init
  /\ nextId = 1
  /\ writer = [p \in Writers |-> Quiet]
  /\ overlap = FALSE

(* The request has done what it will log.                                   *)
Act(p) ==
  /\ writer[p].pc = "idle"
  /\ writer' = [writer EXCEPT ![p].pc = "read"]
  /\ UNCHANGED <<log, nextId, overlap>>

(* Mutant: the oldest row instead of the newest.                            *)
ReadOldest(p) ==
  /\ writer[p].pc = "read"
  /\ \E j \in Ids \cup {Genesis} :
       /\ \A k \in Ids : j # Genesis /\ j <= k
       /\ writer' = [writer EXCEPT ![p] = [pc |-> "insert", prev |-> j, id |-> 0]]
  /\ overlap' = (overlap \/ \E q \in Writers : Pending(q))
  /\ UNCHANGED <<log, nextId>>

(* SELECT ... ORDER BY id DESC LIMIT 1.  No row: the genesis hash.          *)
ReadLast(p) ==
  /\ writer[p].pc = "read"
  /\ \E j \in Ids \cup {Genesis} :
       /\ IsLast(j)
       /\ writer' = [writer EXCEPT ![p] = [pc |-> "insert", prev |-> j, id |-> 0]]
  /\ overlap' = (overlap \/ \E q \in Writers : Pending(q))
  /\ UNCHANGED <<log, nextId>>

(* Any other error is taken for an empty table.                             *)
ReadFails(p) ==
  /\ ReadMayFail
  /\ writer[p].pc = "read"
  /\ writer' = [writer EXCEPT ![p] = [pc |-> "insert", prev |-> Genesis, id |-> 0]]
  /\ overlap' = TRUE
  /\ UNCHANGED <<log, nextId>>

AllocateId(p) ==
  /\ writer[p].pc = "insert"
  /\ nextId <= MaxId
  /\ nextId' = nextId + 1
  /\ writer' = [writer EXCEPT ![p] = [pc |-> "commit", prev |-> writer[p].prev, id |-> nextId]]
  /\ UNCHANGED <<log, overlap>>

(* Mutant: the hash is taken of the row that is newest at the commit.       *)
CommitOnNewest(p) ==
  /\ writer[p].pc = "commit"
  /\ \E j \in Ids \cup {Genesis} : IsLast(j) /\ log' = Extended(writer[p].id, j)
  /\ writer' = [writer EXCEPT ![p] = Quiet]
  /\ UNCHANGED <<nextId, overlap>>

Commit(p) ==
  /\ writer[p].pc = "commit"
  /\ log' = Extended(writer[p].id, writer[p].prev)
  /\ writer' = [writer EXCEPT ![p] = Quiet]
  /\ UNCHANGED <<nextId, overlap>>

(* Mutant: a request that fails takes the newest row back.                  *)
CutAndUndo(p) ==
  /\ MayBeCut
  /\ writer[p].pc # "idle"
  /\ writer' = [writer EXCEPT ![p] = Quiet]
  /\ log' = [i \in {k \in Ids : ~IsLast(k)} |-> log[i]]
  /\ UNCHANGED <<nextId, overlap>>

(* r.Context() is cancelled, the INSERT fails (no caller looks at the error *)
(* WriteAuditLog returns), or the process exits: an id may be left unused.  *)
Cut(p) ==
  /\ MayBeCut
  /\ writer[p].pc # "idle"
  /\ writer' = [writer EXCEPT ![p] = Quiet]
  /\ UNCHANGED <<log, nextId, overlap>>

WriterStep(p) ==
  \/ Act(p) \/ ReadLast(p) \/ ReadFails(p)
  \/ AllocateId(p) \/ Commit(p) \/ Cut(p)

ANext == \E p \in Writers : WriterStep(p)

ASpec == AInit /\ [][ANext]_vars
-----------------------------------------------------------------------------
ATypeOK ==
  /\ Ids \subseteq 1 .. MaxId
  /\ log \in [Ids -> 0 .. MaxId]
  /\ nextId \in 1 .. MaxId + 1
  /\ writer \in [Writers -> WriterState]
  /\ overlap \in BOOLEAN

(* Whatever interleaves, every row carries the hash of a row that was there *)
(* before it got its id, or the genesis hash: links never dangle and never  *)
(* run in a circle.                                                         *)
BackLinks == \A i \in Ids : log[i] < i /\ log[i] \in Ids \cup {Genesis}

(* A trail written by requests that never overlapped, with no failed read,  *)
(* passes VerifyAuditChain, whatever was cut off in between.                *)
CleanTrailVerifies == ~overlap => Valid

(* Once the verification fails it fails for ever: later rows never make up  *)
(* for a wrong link.                                                        *)
DamageIsPermanent == [][~Valid => ~Valid']_vars

(* The trail that nobody tampered with verifies.                            *)
UntamperedTrailVerifies == Valid

Chain == INSTANCE HashChain

(* As long as no two requests overlapped and no read failed, every step of  *)
(* the trail is one of the abstract chain: a row appended to the last one.  *)
AppendsWhileClean == Chain!Init /\ [][~overlap => Chain!Append]_log

(* The abstract chain, which requests that never overlap implement.         *)
AppendsOnly == Chain!Spec
=============================================================================
