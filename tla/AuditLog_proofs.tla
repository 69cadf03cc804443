----------------------------- MODULE AuditLog_proofs -----------------------------
(***************************************************************************)
(* Proofs about AuditLog, for any number of concurrent requests, with      *)
(* failing reads, failing inserts and cancelled requests.                  *)
(***************************************************************************)
EXTENDS AuditLog, TLAPS

(* The bound of the ids and the genesis are numbers.                         *)
LEMMA Arithmetic == MaxId \in Nat /\ Genesis = 0 /\ 0 \in 0 .. MaxId
BY MaxIdAssumption DEF Genesis

-----------------------------------------------------------------------------
(* What holds of the rows and of the requests that are about to add one.     *)
IdsBelowNext == \A i \in Ids : i < nextId

WriterLinked(p) ==
  /\ Pending(p) => writer[p].prev \in Ids \cup {Genesis}
  /\ writer[p].pc = "commit" =>
       /\ writer[p].id \in 1 .. MaxId /\ writer[p].id < nextId
       /\ writer[p].prev < writer[p].id
       /\ writer[p].id \notin Ids

IdsDiffer ==
  \A p, q \in Writers :
    writer[p].pc = "commit" /\ writer[q].pc = "commit" /\ p # q => writer[p].id # writer[q].id

LinkInv ==
  /\ ATypeOK /\ IdsBelowNext /\ BackLinks /\ IdsDiffer
  /\ \A p \in Writers : WriterLinked(p)

(* The empty trail has no wrong link.                                        *)
LEMMA LinkInit == AInit => LinkInv
<1> SUFFICES ASSUME AInit PROVE LinkInv
  OBVIOUS
<1> USE Arithmetic
<1>1. Ids = {}
  BY DEF AInit, Init, Ids
<1>2. log \in [Ids -> 0 .. MaxId]
  BY <1>1 DEF AInit, Init
<1>3. Quiet \in WriterState
  BY DEF Quiet, WriterState, WriterSteps
<1>4. \A p \in Writers : writer[p].pc = "idle"
  BY DEF AInit, Quiet
<1>5. ATypeOK
  <2>1. nextId \in 1 .. MaxId + 1
    BY DEF AInit
  <2>2. writer \in [Writers -> WriterState]
    BY <1>3 DEF AInit
  <2> QED BY <1>1, <1>2, <2>1, <2>2 DEF AInit, ATypeOK
<1>6. IdsBelowNext /\ BackLinks
  BY <1>1 DEF IdsBelowNext, BackLinks
<1>7. IdsDiffer /\ \A p \in Writers : WriterLinked(p)
  BY <1>4 DEF IdsDiffer, WriterLinked, Pending
<1> QED BY <1>5, <1>6, <1>7 DEF LinkInv

(* A commit adds a row with a fresh id and leaves the others alone.          *)
LEMMA CommitFacts ==
  ASSUME LinkInv, NEW p \in Writers, Commit(p)
  PROVE  /\ writer[p].id \in 1 .. MaxId /\ writer[p].id < nextId
         /\ writer[p].id \notin Ids /\ writer[p].prev < writer[p].id
         /\ writer[p].prev \in Ids \cup {Genesis}
         /\ Ids' = Ids \cup {writer[p].id}
         /\ log'[writer[p].id] = writer[p].prev
         /\ \A k \in Ids : log'[k] = log[k]
<1>1. /\ writer[p].id \in 1 .. MaxId /\ writer[p].id < nextId
      /\ writer[p].id \notin Ids /\ writer[p].prev < writer[p].id
      /\ writer[p].prev \in Ids \cup {Genesis}
  BY DEF LinkInv, WriterLinked, Commit, Pending
<1>2. log' = Extended(writer[p].id, writer[p].prev)
  BY DEF Commit
<1>3. Ids' = DOMAIN log'
  BY DEF Ids
<1>4. /\ DOMAIN log' = Ids \cup {writer[p].id}
      /\ log'[writer[p].id] = writer[p].prev
      /\ \A k \in Ids : k # writer[p].id => log'[k] = log[k]
  <2> DEFINE i == writer[p].id
             j == writer[p].prev
  <2>1. log' = Extended(i, j)
    BY <1>2
  <2> HIDE DEF i, j
  <2>2. /\ DOMAIN Extended(i, j) = Ids \cup {i}
        /\ Extended(i, j)[i] = j
        /\ \A k \in Ids : k # i => Extended(i, j)[k] = log[k]
    BY DEF Extended, Ids
  <2>3. /\ DOMAIN log' = Ids \cup {i}
        /\ log'[i] = j
        /\ \A k \in Ids : k # i => log'[k] = log[k]
    BY <2>1, <2>2
  <2> QED BY <2>3 DEF i, j
<1> QED BY <1>1, <1>3, <1>4

(* The same, for the writers: one becomes idle, the others stay.             *)
LEMMA LinkStep == LinkInv /\ [ANext]_vars => LinkInv'
<1> SUFFICES ASSUME LinkInv, [ANext]_vars PROVE LinkInv'
  OBVIOUS
<1> USE Arithmetic
<1>u. CASE UNCHANGED vars
  BY <1>u DEF vars, LinkInv, ATypeOK, IdsBelowNext, BackLinks, IdsDiffer, WriterLinked, Pending, Ids
<1>p. ASSUME NEW p \in Writers, WriterStep(p) PROVE LinkInv'
  <2>t. writer \in [Writers -> WriterState] /\ nextId \in 1 .. MaxId + 1
        /\ Ids \subseteq 1 .. MaxId /\ log \in [Ids -> 0 .. MaxId]
    BY DEF LinkInv, ATypeOK
  <2>1. CASE Act(p)
    <3>1. writer' \in [Writers -> WriterState]
      BY <2>1, <2>t DEF Act, WriterState, WriterSteps
    <3> QED BY <2>1, <2>t, <3>1
      DEF Act, LinkInv, ATypeOK, IdsBelowNext, BackLinks, IdsDiffer, WriterLinked, Pending, Ids
  <2>2. CASE ReadLast(p) \/ ReadFails(p)
    <3>1. PICK j \in Ids \cup {Genesis} :
            writer' = [writer EXCEPT ![p] = [pc |-> "insert", prev |-> j, id |-> 0]]
      BY <2>2 DEF ReadLast, ReadFails
    <3>2. writer' \in [Writers -> WriterState]
      BY <2>t, <3>1 DEF WriterState, WriterSteps
    <3>3. UNCHANGED <<log, nextId>> /\ overlap' \in BOOLEAN
      BY <2>2 DEF ReadLast, ReadFails, LinkInv, ATypeOK
    <3> QED BY <2>t, <3>1, <3>2, <3>3
      DEF LinkInv, ATypeOK, IdsBelowNext, BackLinks, IdsDiffer, WriterLinked, Pending, Ids
  <2>3. CASE AllocateId(p)
    <3>1. /\ writer'[p].pc = "commit" /\ writer'[p].id = nextId
          /\ writer'[p].prev = writer[p].prev
          /\ \A q \in Writers : q # p => writer'[q] = writer[q]
      BY <2>3, <2>t DEF AllocateId, WriterState
    <3>2. writer' \in [Writers -> WriterState]
      BY <2>3, <2>t DEF AllocateId, WriterState, WriterSteps
    <3>3. /\ UNCHANGED <<log, overlap>> /\ nextId' = nextId + 1 /\ nextId <= MaxId
          /\ writer[p].prev \in Ids \cup {Genesis}
      BY <2>3 DEF AllocateId, LinkInv, WriterLinked, Pending
    <3>4. /\ nextId \notin Ids /\ writer[p].prev < nextId
          /\ \A q \in Writers : writer[q].pc = "commit" => writer[q].id < nextId
      <4>1. \A i \in Ids : i < nextId
        BY DEF LinkInv, IdsBelowNext
      <4>2. nextId \notin Ids
        BY <2>t, <4>1
      <4>3. writer[p].prev < nextId
        <5>1. 0 < nextId
          BY <2>t
        <5> QED BY <3>3, <4>1, <5>1
      <4> QED BY <4>2, <4>3 DEF LinkInv, WriterLinked
    <3>5. \A q \in Writers : WriterLinked(q)'
      <4>1. WriterLinked(p)'
        BY <2>t, <3>1, <3>3, <3>4 DEF WriterLinked, Pending, Ids
      <4>2. ASSUME NEW q \in Writers, q # p PROVE WriterLinked(q)'
        BY <2>t, <3>1, <3>3, <4>2 DEF LinkInv, WriterLinked, Pending, Ids
      <4> QED BY <4>1, <4>2
    <3>6. IdsDiffer'
      BY <2>t, <3>1, <3>4 DEF LinkInv, IdsDiffer
    <3> QED BY <2>t, <3>2, <3>3, <3>5, <3>6 DEF LinkInv, ATypeOK, IdsBelowNext, BackLinks, Ids
  <2>4. CASE Commit(p)
    <3>1. writer' = [writer EXCEPT ![p] = Quiet] /\ UNCHANGED <<nextId, overlap>>
      BY <2>4 DEF Commit
    <3>2. writer' \in [Writers -> WriterState]
      BY <2>t, <3>1 DEF Quiet, WriterState, WriterSteps
    <3>3. Ids' \subseteq 1 .. MaxId /\ IdsBelowNext'
      BY <2>t, <2>4, <3>1, CommitFacts DEF LinkInv, IdsBelowNext
    <3>4. BackLinks'
      BY <2>t, <2>4, CommitFacts DEF LinkInv, BackLinks
    <3>5. log' \in [Ids' -> 0 .. MaxId]
      <4>1. log' = [k \in Ids' |-> log'[k]]
        BY <2>4 DEF Commit, Extended, Ids
      <4>2. writer[p].prev \in 0 .. MaxId
        BY <2>t DEF WriterState
      <4>3. \A k \in Ids' : log'[k] \in 0 .. MaxId
        BY <2>t, <2>4, <4>2, CommitFacts
      <4> QED BY <4>1, <4>3
    <3>6. \A q \in Writers : WriterLinked(q)'
      <4>1. ASSUME NEW q \in Writers, q # p PROVE WriterLinked(q)'
        <5>1. writer'[q] = writer[q]
          BY <2>t, <3>1, <4>1
        <5>2. writer[q].pc = "commit" => writer[q].id # writer[p].id
          BY <2>4, <4>1 DEF LinkInv, IdsDiffer, Commit
        <5> QED BY <2>4, <3>1, <5>1, <5>2, CommitFacts DEF LinkInv, WriterLinked, Pending
      <4>2. WriterLinked(p)'
        BY <2>t, <3>1 DEF WriterLinked, Pending, Quiet
      <4> QED BY <4>1, <4>2
    <3>7. IdsDiffer'
      BY <2>t, <3>1 DEF LinkInv, IdsDiffer, Quiet
    <3> QED BY <2>t, <3>1, <3>2, <3>3, <3>4, <3>5, <3>6, <3>7 DEF LinkInv, ATypeOK
  <2>5. CASE Cut(p)
    <3>1. writer' = [writer EXCEPT ![p] = Quiet] /\ UNCHANGED <<log, nextId, overlap>>
      BY <2>5 DEF Cut
    <3>2. writer' \in [Writers -> WriterState]
      BY <2>t, <3>1 DEF Quiet, WriterState, WriterSteps
    <3> QED BY <2>t, <3>1, <3>2
      DEF LinkInv, ATypeOK, IdsBelowNext, BackLinks, IdsDiffer, WriterLinked, Pending, Ids, Quiet
  <2> QED BY <1>p, <2>1, <2>2, <2>3, <2>4, <2>5 DEF WriterStep
<1> QED BY <1>u, <1>p DEF ANext

(* Links point back in every reachable state.                                *)
LEMMA LinksHold == ASpec => []LinkInv
BY LinkInit, LinkStep, PTL DEF ASpec

(* The variables keep their types.                                           *)
THEOREM AuditTypeCorrect == ASpec => []ATypeOK
<1>1. LinkInv => ATypeOK
  BY DEF LinkInv
<1> QED BY <1>1, LinksHold, PTL

(* Links never dangle and never run in a circle.                             *)
THEOREM LinksPointBack == ASpec => []BackLinks
<1>1. LinkInv => BackLinks
  BY DEF LinkInv
<1> QED BY <1>1, LinksHold, PTL

-----------------------------------------------------------------------------
(* A wrong link skips some row, and goes on skipping it.                     *)
LEMMA DamageStep == LinkInv /\ ~Valid /\ [ANext]_vars => ~Valid'
<1> SUFFICES ASSUME LinkInv, ~Valid, [ANext]_vars PROVE ~Valid'
  OBVIOUS
<1>1. PICK i \in Ids : ~IsBefore(log[i], i)
  BY DEF Valid
<1>2. log[i] < i /\ log[i] \in Ids \cup {Genesis}
  BY DEF LinkInv, BackLinks
<1>3. PICK k \in Ids : k < i /\ ~(k <= log[i])
  BY <1>1, <1>2 DEF IsBefore
<1>4. CASE \E p \in Writers : Commit(p)
  <2>1. i \in Ids' /\ k \in Ids' /\ log'[i] = log[i]
    BY <1>4, CommitFacts
  <2> QED BY <1>3, <2>1 DEF Valid, IsBefore
<1>5. CASE log' = log
  BY <1>5 DEF Valid, IsBefore, Ids
<1> QED BY <1>4, <1>5 DEF ANext, WriterStep, Act, ReadLast, ReadFails, AllocateId, Cut, vars

(* A trail that fails the verification once fails it for ever.               *)
THEOREM DamageStays == ASpec => DamageIsPermanent
<1>1. LinkInv /\ [ANext]_vars => [~Valid => ~Valid']_vars
  BY DamageStep
<1> QED BY <1>1, LinksHold, PTL DEF ASpec, DamageIsPermanent

-----------------------------------------------------------------------------
(* While requests never overlapped, at most one is between its read and its  *)
(* commit, and what it read is still the newest row.                         *)
AtMostOnePending == \A p, q \in Writers : Pending(p) /\ Pending(q) => p = q

PendingIsFresh ==
  \A p \in Writers :
    /\ Pending(p) => IsLast(writer[p].prev)
    /\ writer[p].pc = "commit" => \A k \in Ids : k < writer[p].id

CleanInv == ~overlap => Valid /\ AtMostOnePending /\ PendingIsFresh

(* The empty trail is clean.                                                 *)
LEMMA CleanInit == AInit => CleanInv
BY DEF AInit, Init, CleanInv, Valid, AtMostOnePending, PendingIsFresh, Pending, Quiet, Ids

(* CleanInv is inductive: as long as no requests overlap, each links to the  *)
(* newest row.                                                               *)
LEMMA CleanStep == LinkInv /\ CleanInv /\ [ANext]_vars => CleanInv'
<1> SUFFICES ASSUME LinkInv, CleanInv, [ANext]_vars, ~overlap'
             PROVE  Valid' /\ AtMostOnePending' /\ PendingIsFresh'
  BY DEF CleanInv
<1> USE Arithmetic
<1>t. writer \in [Writers -> WriterState] /\ nextId \in 1 .. MaxId + 1
      /\ Ids \subseteq 1 .. MaxId /\ log \in [Ids -> 0 .. MaxId]
  BY DEF LinkInv, ATypeOK
<1>u. CASE UNCHANGED vars
  BY <1>u DEF vars, CleanInv, Valid, IsBefore, IsLast, AtMostOnePending, PendingIsFresh, Pending, Ids
<1>p. ASSUME NEW p \in Writers, WriterStep(p)
      PROVE  Valid' /\ AtMostOnePending' /\ PendingIsFresh'
  <2>o. ~overlap /\ Valid /\ AtMostOnePending /\ PendingIsFresh
    <3>1. ~overlap
      BY <1>p DEF WriterStep, Act, ReadLast, ReadFails, AllocateId, Commit, Cut, LinkInv, ATypeOK
    <3> QED BY <3>1 DEF CleanInv
  <2>1. CASE Act(p)
    BY <1>t, <2>1, <2>o DEF Act, Valid, IsBefore, IsLast, AtMostOnePending, PendingIsFresh,
                            Pending, Ids, WriterState
  <2>2. CASE ReadLast(p)
    <3>1. PICK j \in Ids \cup {Genesis} : IsLast(j) /\
            writer' = [writer EXCEPT ![p] = [pc |-> "insert", prev |-> j, id |-> 0]]
      BY <2>2 DEF ReadLast
    <3>2. \A q \in Writers : ~Pending(q)
      BY <2>2 DEF ReadLast
    <3>3. log' = log
      BY <2>2 DEF ReadLast
    <3> QED BY <1>t, <2>o, <3>1, <3>2, <3>3
      DEF Valid, IsBefore, IsLast, AtMostOnePending, PendingIsFresh, Pending, Ids
  <2>3. CASE ReadFails(p)
    BY <2>3 DEF ReadFails
  <2>4. CASE AllocateId(p)
    <3>1. /\ writer'[p].pc = "commit" /\ writer'[p].id = nextId
          /\ writer'[p].prev = writer[p].prev /\ Pending(p)
          /\ \A q \in Writers : q # p => writer'[q] = writer[q]
      BY <2>4, <1>t DEF AllocateId, WriterState, Pending
    <3>2. log' = log /\ \A k \in Ids : k < nextId
      BY <2>4 DEF AllocateId, LinkInv, IdsBelowNext
    <3> QED BY <2>o, <3>1, <3>2
      DEF Valid, IsBefore, IsLast, AtMostOnePending, PendingIsFresh, Pending, Ids
  <2>5. CASE Commit(p)
    <3>1. /\ \A q \in Writers : q # p => ~Pending(q) /\ writer'[q] = writer[q]
          /\ writer'[p] = Quiet
      BY <1>t, <2>5, <2>o DEF Commit, Pending, AtMostOnePending
    <3>2. \A q \in Writers : ~Pending(q)'
      BY <3>1 DEF Pending, Quiet
    <3>3. (\A k \in Ids : k < writer[p].id) /\ IsLast(writer[p].prev)
      BY <2>5, <2>o DEF PendingIsFresh, Commit, Pending
    <3>4. ASSUME NEW i \in Ids' PROVE IsBefore(log[i], i)'
      <4>1. CASE i \in Ids
        BY <1>t, <2>5, <2>o, <3>3, <4>1, CommitFacts DEF Valid, IsBefore
      <4>2. CASE i = writer[p].id
        <5>1. /\ Ids' = Ids \cup {i} /\ log'[i] = writer[p].prev
              /\ writer[p].prev \in Ids \cup {Genesis} /\ writer[p].prev < i
          BY <2>5, <4>2, CommitFacts
        <5>2. \A k \in Ids : k <= writer[p].prev
          BY <3>3 DEF IsLast
        <5>3. i \in Nat
          BY <1>t, <2>5, <4>2, CommitFacts
        <5> QED BY <5>1, <5>2, <5>3 DEF IsBefore
      <4> QED BY <2>5, <4>1, <4>2, CommitFacts
    <3> QED BY <3>2, <3>4 DEF Valid, AtMostOnePending, PendingIsFresh, Pending
  <2>6. CASE Cut(p)
    BY <1>t, <2>6, <2>o DEF Cut, Quiet, Valid, IsBefore, IsLast, AtMostOnePending, PendingIsFresh,
                            Pending, Ids
  <2> QED BY <1>p, <2>1, <2>2, <2>3, <2>4, <2>5, <2>6 DEF WriterStep
<1> QED BY <1>u, <1>p DEF ANext

(* A trail written by requests that did not overlap verifies.                *)
THEOREM CleanTrail == ASpec => []CleanTrailVerifies
<1>1. CleanInv => CleanTrailVerifies
  BY DEF CleanInv, CleanTrailVerifies
<1> QED BY <1>1, LinksHold, CleanInit, CleanStep, PTL DEF ASpec

-----------------------------------------------------------------------------
(* As long as no two requests overlapped and no read failed, a step of the   *)
(* trail appends one rightly linked row or leaves it alone.                  *)
THEOREM CleanStepsAppend == ASpec => AppendsWhileClean
<1>1. AInit => Chain!Init
  BY DEF AInit, Init, Chain!Init, Genesis, Chain!Genesis
<1>2. LinkInv /\ CleanInv /\ [ANext]_vars => [~overlap => Chain!Append]_log
  <2> SUFFICES ASSUME LinkInv, CleanInv, ~overlap, ANext, log' # log PROVE Chain!Append
    BY DEF vars
  <2>1. PICK p \in Writers : Commit(p)
    BY DEF ANext, WriterStep, Act, ReadLast, ReadFails, AllocateId, Cut
  <2>2. /\ writer[p].prev \in Ids \cup {Genesis} /\ IsLast(writer[p].prev)
        /\ writer[p].id \in DOMAIN log' \ Ids /\ writer[p].id \in Nat
        /\ writer[p].id > writer[p].prev
        /\ log' = Extended(writer[p].id, writer[p].prev)
    <3>1. log' = Extended(writer[p].id, writer[p].prev) /\ IsLast(writer[p].prev)
      BY <2>1 DEF CleanInv, PendingIsFresh, Pending, Commit
    <3>2. /\ writer[p].id \in 1 .. MaxId /\ writer[p].id \notin Ids
          /\ writer[p].prev < writer[p].id
          /\ writer[p].prev \in Ids \cup {Genesis}
          /\ DOMAIN log' = Ids \cup {writer[p].id}
      BY <2>1, CommitFacts DEF Ids
    <3>3. Ids \subseteq 1 .. MaxId
      BY DEF LinkInv, ATypeOK
    <3> QED BY <3>1, <3>2, <3>3, Arithmetic
  <2> QED BY <2>2 DEF Chain!Append, Chain!IsLast, IsLast, Chain!Extended, Extended,
                      Chain!Ids, Ids, Chain!Genesis, Genesis
<1> QED BY <1>1, <1>2, LinksHold, CleanInit, CleanStep, PTL DEF ASpec, AppendsWhileClean

(* With a single writer and no failing read the module implements the        *)
(* abstract chain.                                                           *)
THEOREM SingleWriterImplementsChain ==
  ASSUME \A p, q \in Writers : p = q, ReadMayFail = FALSE
  PROVE  ASpec => AppendsOnly
<1>1. AInit => ~overlap /\ Chain!Init
  BY DEF AInit, Init, Chain!Init, Genesis, Chain!Genesis
<1>2. ~overlap /\ [ANext]_vars => ~overlap'
  BY DEF ANext, WriterStep, Act, ReadLast, ReadFails, AllocateId, Commit, Cut, vars, Pending
<1>3. ~overlap /\ [~overlap => Chain!Append]_log => [Chain!Append]_log
  OBVIOUS
<1> QED BY <1>1, <1>2, <1>3, CleanStepsAppend, PTL
        DEF ASpec, AppendsOnly, AppendsWhileClean, Chain!Spec
=============================================================================
