----------------------------- MODULE Accounts_proofs -----------------------------
(***************************************************************************)
(* For any number of concurrent attempts, any codes and any threshold.     *)
(***************************************************************************)
EXTENDS Accounts, TLAPS

(* Every attempt in hand has read no more than was judged wrong, and what   *)
(* it is about to write is no more either: the counter cannot be compared   *)
(* with the truth alone, since it is written from readings of earlier.      *)
CounterSound ==
  /\ fails <= wrong
  /\ \A r \in Requests : Busy(r) => req[r].seen <= wrong
  /\ \A r \in Requests : req[r].pc = "count" => Cap(req[r].seen + 1) <= wrong

(* Without an overlap there is one attempt at most, what it has read is     *)
(* still in the row, and the lock it found open is open.                    *)
Alone ==
  ~overlap => \A r \in Requests : Busy(r) =>
    /\ req[r].seen = fails
    /\ ~locked
    /\ ~OthersBusy(r)

(* An entry is made at most one period before the period its string is the  *)
(* code of, so that it is younger than 90 seconds for as long as the code   *)
(* is accepted.                                                             *)
EntriesTrack ==
  /\ \A u \in used : u.code \in Codes /\ PeriodOf[u.code] <= u.at + 1
  /\ \A r \in Requests : req[r].pc \in {"code", "replay", "record"} => req[r].code \in Codes
  /\ \A r \in Requests : req[r].pc \in {"replay", "record"} => PeriodOf[req[r].code] <= now + 1
  /\ \A c \in spent : c \in Codes /\ (now - 1 <= PeriodOf[c] => \E u \in used : u.code = c)

USE ThresholdAssumption, PeriodAssumption, DbFailsAssumption

(* Saturation keeps the failure count in its range.                          *)
LEMMA CapRange == \A n \in Nat : Cap(n) \in 0 .. FailCap
BY DEF Cap

(* Saturation keeps the order of two counts.                                 *)
LEMMA CapMonotone == \A m, n \in Nat : m <= n => Cap(m) <= Cap(n)
BY DEF Cap

(* Saturation hides no count that reaches the threshold.                     *)
LEMMA CapThreshold == \A n \in Nat : n >= Threshold => Cap(n) >= Threshold
BY DEF Cap

(* An idle request is a request.                                             *)
LEMMA NoReqType == NoReq \in ReqType
BY DEF NoReq, ReqType, Steps

(* The initial state has the right types.                                    *)
LEMMA TypeInit == Init => TypeOK
<1> SUFFICES ASSUME Init PROVE TypeOK
  OBVIOUS
<1> USE DEF Init
<1>1. req \in [Requests -> ReqType]
  BY NoReqType
<1>2. fails \in 0 .. FailCap /\ wrong \in 0 .. FailCap /\ now \in Nat
  OBVIOUS
<1>3. used \subseteq [code : Codes \cup {"none"}, at : 0 .. now] /\ spent \subseteq Codes \cup {"none"}
  OBVIOUS
<1>4. locked \in BOOLEAN /\ overlap \in BOOLEAN
  OBVIOUS
<1> QED
  BY <1>1, <1>2, <1>3, <1>4 DEF TypeOK

(* A request that ends leaves a request of the right type.                   *)
LEMMA EndType ==
  ASSUME TypeOK, NEW r \in Requests, End(r)
  PROVE  req' \in [Requests -> ReqType] /\ overlap' \in BOOLEAN
<1>1. req' \in [Requests -> ReqType]
  BY NoReqType DEF End, TypeOK
<1>2. overlap' \in BOOLEAN
  BY Zenon DEF End
<1> QED
  BY <1>1, <1>2

(* Every step keeps the types.                                               *)
LEMMA TypeStep == TypeOK /\ [Next]_vars => TypeOK'
<1> SUFFICES ASSUME TypeOK, [Next]_vars PROVE TypeOK'
  OBVIOUS
<1> USE DEF TypeOK
<1>1. ASSUME NEW r \in Requests, WrongPassword(r) PROVE TypeOK'
  BY <1>1, CapRange DEF WrongPassword, Begin, OthersBusy, Busy, ReqType, Steps
<1>2. ASSUME NEW r \in Requests, RightPassword(r) PROVE TypeOK'
  BY <1>2 DEF RightPassword, Begin, OthersBusy, Busy, ReqType, Steps
<1>3. ASSUME NEW r \in Requests, Validate(r) PROVE TypeOK'
  BY <1>3, CapRange DEF Validate, Judge, Move, ReqType, Steps
<1>4. ASSUME NEW r \in Requests, CheckReplay(r) PROVE TypeOK'
  BY <1>4, CapRange DEF CheckReplay, Judge, Move, ReqType, Steps
<1>5. ASSUME NEW r \in Requests, RecordCode(r) PROVE TypeOK'
  <2>0. \A q \in Requests : [req[q] EXCEPT !.pc = "cleanup"] \in ReqType
                         /\ [req[q] EXCEPT !.blind = TRUE] \in ReqType
    BY DEF ReqType, Steps
  <2>1. req' \in [Requests -> ReqType]
    BY <1>5, <2>0 DEF RecordCode, Move
  <2>2. used' \subseteq [code : Codes \cup {"none"}, at : 0 .. now]
    BY <1>5 DEF RecordCode, ReqType
  <2>3. spent' \subseteq Codes \cup {"none"}
    BY <1>5 DEF RecordCode, ReqType
  <2> QED
    BY <1>5, <2>1, <2>2, <2>3 DEF RecordCode
<1>6. ASSUME NEW r \in Requests, Cleanup(r) PROVE TypeOK'
  BY <1>6 DEF Cleanup, Move, ReqType, Steps
<1>7. ASSUME NEW r \in Requests, Reset(r) PROVE TypeOK'
  <2>1. locked' \in BOOLEAN
    BY <1>7 DEF Reset
  <2> QED
    BY <1>7, <2>1, EndType DEF Reset
<1>8. ASSUME NEW r \in Requests, Count(r) PROVE TypeOK'
  <2>1. locked' \in BOOLEAN
    BY <1>8, Zenon DEF Count
  <2>2. fails' \in 0 .. FailCap
    BY <1>8, CapRange DEF Count, ReqType
  <2> QED
    BY <1>8, <2>1, <2>2, EndType DEF Count
<1>9. ASSUME NEW r \in Requests, ClientGone(r) PROVE TypeOK'
  BY <1>9, EndType DEF ClientGone
<1>10. ASSUME LockExpires PROVE TypeOK'
  BY <1>10 DEF LockExpires
<1>11. ASSUME NextPeriod PROVE TypeOK'
  BY <1>11 DEF NextPeriod
<1>12. CASE UNCHANGED vars
  BY <1>12 DEF vars
<1> QED
  BY <1>1, <1>2, <1>3, <1>4, <1>5, <1>6, <1>7, <1>8, <1>9, <1>10, <1>11, <1>12
  DEF Next, Attempt

(* The variables keep their types, and no entry is dated later than now.    *)
THEOREM AccountTypeCorrect == Spec => []TypeOK
BY TypeInit, TypeStep, PTL DEF Spec

-----------------------------------------------------------------------------
(* The counter is sound at the beginning.                                    *)
LEMMA SoundInit == Init => CounterSound
BY DEF Init, CounterSound, NoReq, Busy

(* CounterSound is inductive: every count a request carries was earned by    *)
(* wrong attempts.                                                           *)
LEMMA SoundStep == TypeOK /\ CounterSound /\ [Next]_vars => CounterSound'
<1> SUFFICES ASSUME TypeOK, CounterSound, [Next]_vars PROVE CounterSound'
  OBVIOUS
<1>0. /\ fails \in 0 .. FailCap /\ wrong \in 0 .. FailCap
      /\ \A r \in Requests : req[r].seen \in 0 .. FailCap
      /\ req \in [Requests -> [pc : Steps \cup {"idle"}, seen : 0 .. FailCap,
                               code : Codes \cup {"none"}, blind : BOOLEAN]]
  BY DEF TypeOK, ReqType
<1>01. \A n \in Nat : n <= wrong => Cap(n + 1) <= Cap(wrong + 1) /\ n <= Cap(wrong + 1)
  BY <1>0, CapMonotone DEF Cap
<1>02. wrong <= Cap(wrong + 1)
  BY <1>0 DEF Cap
<1> USE <1>0 DEF CounterSound, Busy
<1>1. ASSUME NEW r \in Requests, WrongPassword(r) PROVE CounterSound'
  BY <1>1, <1>01, <1>02 DEF WrongPassword, Begin
<1>2. ASSUME NEW r \in Requests, RightPassword(r) PROVE CounterSound'
  BY <1>2 DEF RightPassword, Begin
<1>j. ASSUME NEW r \in Requests, req[r].pc \in {"code", "replay"}, Judge(r), UNCHANGED fails
      PROVE  CounterSound'
  BY <1>j, <1>01, <1>02 DEF Judge, Move
<1>m. ASSUME NEW r \in Requests, NEW s \in {"replay", "record", "cleanup", "reset"},
             Busy(r), Move(r, s), UNCHANGED <<fails, wrong>>
      PROVE CounterSound'
  BY <1>m DEF Move
<1>3. ASSUME NEW r \in Requests, Validate(r) PROVE CounterSound'
  BY <1>3, <1>j, <1>m DEF Validate
<1>4. ASSUME NEW r \in Requests, CheckReplay(r) PROVE CounterSound'
  <2>1. CASE req' = [req EXCEPT ![r].pc = "record", ![r].blind = TRUE] /\ UNCHANGED wrong
    BY <1>4, <2>1 DEF CheckReplay
  <2> QED
    BY <1>4, <1>j, <1>m, <2>1 DEF CheckReplay
<1>5. ASSUME NEW r \in Requests, RecordCode(r) PROVE CounterSound'
  BY <1>5 DEF RecordCode, Move
<1>6. ASSUME NEW r \in Requests, Cleanup(r) PROVE CounterSound'
  BY <1>6, <1>m DEF Cleanup
<1>7. ASSUME NEW r \in Requests, Reset(r) PROVE CounterSound'
  <2>1. CASE OthersBusy(r)
    BY <1>7, <2>1 DEF Reset, End, NoReq
  <2>2. CASE ~OthersBusy(r)
    <3>1. \A q \in Requests \ {r} : req[q].pc = "idle"
      BY <2>2 DEF OthersBusy, Busy
    <3>2. CASE UNCHANGED <<fails, wrong>>
      BY <1>7, <3>2 DEF Reset, End, NoReq
    <3>3. CASE fails' = 0 /\ wrong' = 0
      BY <1>7, <3>1, <3>3 DEF Reset, End, NoReq
    <3> QED
      BY <1>7, <2>2, <3>2, <3>3 DEF Reset
  <2> QED
    BY <2>1, <2>2
<1>8. ASSUME NEW r \in Requests, Count(r) PROVE CounterSound'
  BY <1>8 DEF Count, End, NoReq
<1>9. ASSUME NEW r \in Requests, ClientGone(r) PROVE CounterSound'
  BY <1>9 DEF ClientGone, End, NoReq
<1>10. CASE LockExpires
  BY <1>10 DEF LockExpires
<1>11. CASE NextPeriod
  BY <1>11 DEF NextPeriod
<1>12. CASE UNCHANGED vars
  BY <1>12 DEF vars
<1> QED
  BY <1>1, <1>2, <1>3, <1>4, <1>5, <1>6, <1>7, <1>8, <1>9, <1>10, <1>11, <1>12
  DEF Next, Attempt

(* Nobody is locked out for wrong attempts that were never made.            *)
THEOREM LockIsDeserved == Spec => LockNeedsFailures
<1>1. Init => TypeOK /\ CounterSound
  BY TypeInit, SoundInit
<1>2. TypeOK /\ CounterSound /\ [Next]_vars => (TypeOK /\ CounterSound)'
  BY TypeStep, SoundStep
<1>3. TypeOK /\ CounterSound /\ [Next]_vars => [~locked /\ locked' => wrong >= Threshold]_vars
  <2> SUFFICES ASSUME TypeOK, CounterSound, [Next]_vars, ~locked, locked'
               PROVE  wrong >= Threshold
    OBVIOUS
  <2>1. PICK r \in Requests : Count(r) /\ locked' # locked
    BY Zenon DEF Next, Attempt, WrongPassword, RightPassword, Validate, CheckReplay,
      RecordCode, Cleanup, Reset, ClientGone, LockExpires, NextPeriod, vars
  <2>2. req[r].pc = "count" /\ req[r].seen + 1 >= Threshold
    BY <2>1, Zenon DEF Count
  <2>3. req[r].seen \in 0 .. FailCap /\ wrong \in 0 .. FailCap
    BY DEF TypeOK, ReqType
  <2> QED
    BY <2>2, <2>3, CapThreshold, CapRange DEF CounterSound
<1> QED
  BY <1>1, <1>2, <1>3, PTL DEF Spec, LockNeedsFailures

-----------------------------------------------------------------------------
(* At the beginning nobody is under way.                                     *)
LEMMA AloneInit == Init => Alone
BY DEF Init, Alone, Busy, NoReq

(* Who is busy after r began or ended.                                      *)
LEMMA BeginAlone ==
  ASSUME TypeOK, Alone, NEW r \in Requests, NEW pc, NEW code, Begin(r, pc, code),
         ~Busy(r), ~locked, UNCHANGED <<fails, locked>>
  PROVE  Alone'
<1> SUFFICES ASSUME ~overlap', NEW q \in Requests, Busy(q)'
             PROVE  req'[q].seen = fails' /\ ~locked' /\ ~OthersBusy(q)'
  BY DEF Alone
<1>1. ~overlap /\ ~OthersBusy(r)
  BY DEF Begin
<1>2. \A s \in Requests \ {r} : ~Busy(s) /\ req'[s] = req[s]
  BY <1>1 DEF OthersBusy, Begin, TypeOK
<1>3. q = r
  BY <1>2 DEF Busy
<1>4. req'[r].seen = fails
  BY DEF Begin, TypeOK
<1>5. ~OthersBusy(r)'
  BY <1>2 DEF OthersBusy, Busy
<1> QED
  BY <1>3, <1>4, <1>5

(* When the only request ends none is left that could disagree with the      *)
(* account.                                                                  *)
LEMMA EndAlone ==
  ASSUME TypeOK, Alone, NEW r \in Requests, Busy(r), End(r)
  PROVE  Alone'
<1> SUFFICES ASSUME ~overlap', NEW q \in Requests, Busy(q)'
             PROVE  FALSE
  BY DEF Alone
<1>1. ~OthersBusy(r)
  BY Zenon DEF End, Alone
<1>2. \A s \in Requests \ {r} : ~Busy(s) /\ req'[s] = req[s]
  BY <1>1 DEF OthersBusy, End, TypeOK
<1>3. ~Busy(r)'
  BY DEF End, TypeOK, Busy, NoReq
<1> QED
  BY <1>2, <1>3 DEF Busy

(* A step of an attempt in hand that writes neither counter nor lock.       *)
LEMMA MoveAlone ==
  ASSUME TypeOK, Alone, NEW r \in Requests, Busy(r),
         req' \in [Requests -> ReqType],
         \A q \in Requests : req'[q].seen = req[q].seen /\ (Busy(q)' => Busy(q)),
         UNCHANGED <<fails, locked, overlap>>
  PROVE  Alone'
BY DEF Alone, OthersBusy

(* Alone is inductive.                                                       *)
LEMMA AloneStep == TypeOK /\ Alone /\ [Next]_vars => Alone'
<1> SUFFICES ASSUME TypeOK, Alone, [Next]_vars PROVE Alone'
  OBVIOUS
<1>0. TypeOK'
  BY TypeStep
<1>m. ASSUME NEW r \in Requests, NEW s, Busy(r), Move(r, s) \/ Judge(r),
             UNCHANGED <<fails, locked, overlap>>
      PROVE  Alone'
  <2>1. \A q \in Requests : req'[q].seen = req[q].seen /\ (Busy(q)' => Busy(q))
    BY <1>m DEF Move, Judge, TypeOK, ReqType, Busy
  <2> QED
    BY <1>0, <1>m, <2>1, MoveAlone DEF TypeOK
<1>1. ASSUME NEW r \in Requests, WrongPassword(r) PROVE Alone'
  BY <1>1, BeginAlone DEF WrongPassword
<1>2. ASSUME NEW r \in Requests, RightPassword(r) PROVE Alone'
  BY <1>2, BeginAlone DEF RightPassword
<1>3. ASSUME NEW r \in Requests, Validate(r) PROVE Alone'
  BY <1>3, <1>m DEF Validate, Busy
<1>4. ASSUME NEW r \in Requests, CheckReplay(r) PROVE Alone'
  <2>1. CASE req' = [req EXCEPT ![r].pc = "record", ![r].blind = TRUE]
    <3>1. \A q \in Requests : req'[q].seen = req[q].seen /\ (Busy(q)' => Busy(q))
      BY <1>4, <2>1 DEF CheckReplay, TypeOK, ReqType, Busy
    <3>2. Busy(r) /\ UNCHANGED <<fails, locked, overlap>>
      BY <1>4 DEF CheckReplay, Busy
    <3> QED
      BY <1>0, <3>1, <3>2, MoveAlone DEF TypeOK
  <2> QED
    BY <1>4, <2>1, <1>m DEF CheckReplay, Busy
<1>5. ASSUME NEW r \in Requests, RecordCode(r) PROVE Alone'
  <2>1. \A q \in Requests : req'[q].seen = req[q].seen /\ (Busy(q)' => Busy(q))
    BY <1>5 DEF RecordCode, Move, TypeOK, ReqType, Busy
  <2>2. Busy(r) /\ UNCHANGED <<fails, locked, overlap>>
    BY <1>5 DEF RecordCode, Busy
  <2> QED
    BY <1>0, <2>1, <2>2, MoveAlone DEF TypeOK
<1>6. ASSUME NEW r \in Requests, Cleanup(r) PROVE Alone'
  BY <1>6, <1>m DEF Cleanup, Busy
<1>7. ASSUME NEW r \in Requests, Reset(r) PROVE Alone'
  BY <1>7, EndAlone DEF Reset, Busy
<1>8. ASSUME NEW r \in Requests, Count(r) PROVE Alone'
  BY <1>8, EndAlone DEF Count, Busy
<1>9. ASSUME NEW r \in Requests, ClientGone(r) PROVE Alone'
  BY <1>9, EndAlone DEF ClientGone
<1>10. CASE LockExpires
  BY <1>10 DEF LockExpires, Alone, OthersBusy, Busy
<1>11. CASE NextPeriod
  BY <1>11 DEF NextPeriod, Alone, OthersBusy, Busy
<1>12. CASE UNCHANGED vars
  BY <1>12 DEF vars, Alone, OthersBusy, Busy
<1> QED
  BY <1>1, <1>2, <1>3, <1>4, <1>5, <1>6, <1>7, <1>8, <1>9, <1>10, <1>11, <1>12
  DEF Next, Attempt

(* Attempts one after the other: every step of the row is one of Lockout.   *)
THEOREM SerialAttemptsLockOut == Spec => SerialAttemptsImplementLockout
<1>1. Init => TypeOK /\ Alone
  BY TypeInit, AloneInit
<1>2. TypeOK /\ Alone /\ [Next]_vars => (TypeOK /\ Alone)'
  BY TypeStep, AloneStep
<1>3. TypeOK /\ Alone /\ [Next]_vars => [overlap \/ Lock!Next]_<<fails, locked>>
  <2> SUFFICES ASSUME TypeOK, Alone, [Next]_vars, ~overlap, ~UNCHANGED <<fails, locked>>
               PROVE  Lock!Next
    OBVIOUS
  <2>1. ASSUME NEW r \in Requests, Count(r) PROVE Lock!Next
    <3>1. req[r].seen = fails /\ ~locked
      BY <2>1 DEF Count, Alone, Busy
    <3>2. fails' = Cap(fails + 1) /\ (locked' <=> fails + 1 >= Threshold)
      BY <2>1, <3>1 DEF Count
    <3>3. locked' \in BOOLEAN /\ fails \in 0 .. FailCap
      BY TypeStep DEF TypeOK
    <3>4. (fails + 1 >= Threshold) <=> (fails' >= Threshold)
      BY <3>2, <3>3 DEF Cap
    <3>5. fails' = IF fails < FailCap THEN fails + 1 ELSE FailCap
      BY <3>2, <3>3 DEF Cap
    <3>6. locked' = (fails' >= Threshold)
      BY <3>2, <3>3, <3>4
    <3> QED
      BY <3>1, <3>5, <3>6 DEF Lock!Next, Lock!Wrong
  <2>2. ASSUME NEW r \in Requests, Reset(r) PROVE Lock!Next
    <3>1. ~locked
      BY <2>2 DEF Reset, Alone, Busy
    <3> QED
      BY <2>2, <3>1 DEF Reset, Lock!Next, Lock!Right
  <2>3. CASE LockExpires
    BY <2>3 DEF LockExpires, Lock!Next, Lock!Open
  <2> QED
    BY <2>1, <2>2, <2>3, Zenon DEF Next, Attempt, WrongPassword, RightPassword, Validate,
      CheckReplay, RecordCode, Cleanup, ClientGone, NextPeriod, vars
<1> QED
  BY <1>1, <1>2, <1>3, PTL DEF Spec, SerialAttemptsImplementLockout

-----------------------------------------------------------------------------
(* At the beginning no code is used.                                         *)
LEMMA CodesInit == Init => EntriesTrack /\ UsedCodeStaysRefused
BY DEF Init, EntriesTrack, UsedCodeStaysRefused, NoReq

(* Steps that leave clock and codes alone, and bring nobody to the look at  *)
(* the table or past it.                                                    *)
LEMMA CodesStand ==
  ASSUME EntriesTrack, UsedCodeStaysRefused, UNCHANGED <<used, spent, now>>,
         \A q \in Requests : req'[q].pc \in {"replay", "record"} => req'[q] = req[q],
         \A q \in Requests : req'[q].pc = "code" => req'[q].code \in Codes
  PROVE  EntriesTrack' /\ UsedCodeStaysRefused'
BY DEF EntriesTrack, UsedCodeStaysRefused, Accepted

(* The table of used codes and the clock move together, and no step lets a   *)
(* used code in.                                                             *)
LEMMA CodesStep ==
  TypeOK /\ EntriesTrack /\ UsedCodeStaysRefused /\ [Next]_vars
    => EntriesTrack' /\ UsedCodeStaysRefused'
<1> SUFFICES ASSUME TypeOK, EntriesTrack, UsedCodeStaysRefused, [Next]_vars
             PROVE  EntriesTrack' /\ UsedCodeStaysRefused'
  OBVIOUS
<1>t. /\ now \in Nat
      /\ \A u \in used : u.code \in Codes /\ u.at \in 0 .. now
      /\ \A r \in Requests : req[r].pc \in {"code", "replay", "record"} => req[r].code \in Codes
      /\ \A c \in Codes : PeriodOf[c] \in Int
      /\ req \in [Requests -> ReqType]
  BY DEF TypeOK, EntriesTrack
<1>s. ASSUME UNCHANGED <<used, spent, now>>, NEW r \in Requests,
             \/ \E s \in {"count", "reset"} : Move(r, s) \/ Judge(r)
             \/ End(r)
             \/ \E c : Begin(r, "count", c) \/ (c \in Codes /\ Begin(r, "code", c))
      PROVE  EntriesTrack' /\ UsedCodeStaysRefused'
  <2>1. \A q \in Requests : req'[q].pc \in {"replay", "record"} => req'[q] = req[q]
    BY <1>s, <1>t DEF Move, Judge, End, Begin, NoReq, ReqType
  <2>2. \A q \in Requests : req'[q].pc = "code" => req'[q].code \in Codes
    BY <1>s, <1>t DEF Move, Judge, End, Begin, NoReq, ReqType
  <2> QED
    BY <1>s, <2>1, <2>2, CodesStand
<1>1. ASSUME NEW r \in Requests, WrongPassword(r) PROVE EntriesTrack' /\ UsedCodeStaysRefused'
  BY <1>1, <1>s DEF WrongPassword
<1>2. ASSUME NEW r \in Requests, RightPassword(r) PROVE EntriesTrack' /\ UsedCodeStaysRefused'
  BY <1>2, <1>s DEF RightPassword
<1>3. ASSUME NEW r \in Requests, Validate(r) PROVE EntriesTrack' /\ UsedCodeStaysRefused'
  <2>1. CASE Judge(r)
    BY <1>3, <2>1, <1>s DEF Validate
  <2>2. CASE Accepted(req[r].code) /\ Move(r, "replay")
    BY <1>3, <2>2, <1>t DEF Validate, Move, Accepted, EntriesTrack, UsedCodeStaysRefused, ReqType
  <2> QED
    BY <1>3, <2>1, <2>2 DEF Validate
<1>4. ASSUME NEW r \in Requests, CheckReplay(r) PROVE EntriesTrack' /\ UsedCodeStaysRefused'
  <2>1. CASE Judge(r)
    BY <1>4, <2>1, <1>s DEF CheckReplay
  <2>2. CASE ~(\E u \in Entries(r) : SurelyTracked(u)) /\ Move(r, "record")
    <3>1. ~(req[r].code \in spent /\ Accepted(req[r].code))
      <4> SUFFICES ASSUME req[r].code \in spent, Accepted(req[r].code) PROVE FALSE
        OBVIOUS
      <4>1. PICK u \in used : u.code = req[r].code
        BY <1>t DEF EntriesTrack, Accepted
      <4>2. now - u.at < 3
        BY <1>t, <4>1 DEF EntriesTrack, Accepted
      <4> QED
        BY <2>2, <4>1, <4>2 DEF Entries, SurelyTracked
    <3>2. req'[r].code = req[r].code /\ \A q \in Requests \ {r} : req'[q] = req[q]
      BY <2>2, <1>t DEF Move, ReqType
    <3> QED
      BY <1>4, <3>1, <3>2, <1>t DEF CheckReplay, Accepted, EntriesTrack, UsedCodeStaysRefused
  <2>3. CASE req' = [req EXCEPT ![r].pc = "record", ![r].blind = TRUE]
    BY <1>4, <2>3, <1>t DEF CheckReplay, Accepted, EntriesTrack, UsedCodeStaysRefused, ReqType
  <2> QED
    BY <1>4, <2>1, <2>2, <2>3 DEF CheckReplay
<1>5. ASSUME NEW r \in Requests, RecordCode(r) PROVE EntriesTrack' /\ UsedCodeStaysRefused'
  <2>1. CASE Move(r, "cleanup") /\ UNCHANGED <<used, spent>>
    <3>1. \A q \in Requests : req'[q].pc \in {"code", "replay", "record"} => req'[q] = req[q]
      BY <2>1, <1>t DEF Move, ReqType
    <3> QED
      BY <1>5, <2>1, <3>1, <1>t, CodesStand DEF RecordCode
  <2>2. CASE /\ used' = used \cup {[code |-> req[r].code, at |-> now]}
             /\ spent' = spent \cup {req[r].code}
             /\ req' = [q \in Requests |->
                  IF q = r THEN [req[q] EXCEPT !.pc = "cleanup"]
                  ELSE IF req[q].pc = "record" /\ req[q].code = req[r].code
                       THEN [req[q] EXCEPT !.blind = TRUE]
                       ELSE req[q]]
    <3>1. /\ now' = now
          /\ \A q \in Requests :
               /\ req'[q].pc \in {"code", "replay", "record"} => req'[q].pc = req[q].pc
               /\ req'[q].code = req[q].code
               /\ req[q].blind => req'[q].blind
               /\ req'[q].pc = "record" /\ req[q].code = req[r].code => req'[q].blind
      BY <1>5, <2>2, <1>t DEF RecordCode, ReqType
    <3>2. EntriesTrack'
      <4>1. req[r].code \in Codes /\ PeriodOf[req[r].code] <= now + 1
        BY <1>5 DEF RecordCode, EntriesTrack
      <4>2. \A u \in used' : u.code \in Codes /\ PeriodOf[u.code] <= u.at + 1
        <5> DEFINE e == [code |-> req[r].code, at |-> now]
        <5>1. e.code \in Codes /\ PeriodOf[e.code] <= e.at + 1
          BY <4>1
        <5> QED
          BY <2>2, <5>1 DEF EntriesTrack
      <4>3. /\ \A q \in Requests : req'[q].pc \in {"code", "replay", "record"} => req'[q].code \in Codes
            /\ \A q \in Requests : req'[q].pc \in {"replay", "record"}
                 => PeriodOf[req'[q].code] <= now' + 1
        BY <3>1 DEF EntriesTrack
      <4>4. \A c \in spent' : c \in Codes /\ (now' - 1 <= PeriodOf[c] => \E u \in used' : u.code = c)
        <5>1. [code |-> req[r].code, at |-> now].code = req[r].code
          OBVIOUS
        <5> QED
          BY <2>2, <3>1, <4>1, <5>1 DEF EntriesTrack
      <4> QED
        BY <4>2, <4>3, <4>4 DEF EntriesTrack
    <3>3. UsedCodeStaysRefused'
      <4> SUFFICES ASSUME NEW q \in Requests, req'[q].pc = "record", req'[q].code \in spent',
                          PeriodOf[req'[q].code] \in (now' - 1) .. (now' + 1)
                   PROVE  req'[q].blind
        BY DEF UsedCodeStaysRefused, Accepted
      <4>1. Accepted(req[q].code) /\ req[q].pc = "record"
        BY <3>1, <1>t DEF Accepted
      <4>2. CASE req[q].code = req[r].code
        BY <3>1, <4>2
      <4>3. CASE req[q].code # req[r].code
        BY <2>2, <3>1, <4>1, <4>3 DEF UsedCodeStaysRefused
      <4> QED
        BY <4>2, <4>3
    <3> QED
      BY <3>2, <3>3
  <2> QED
    BY <1>5, <2>1, <2>2 DEF RecordCode
<1>6. ASSUME NEW r \in Requests, Cleanup(r) PROVE EntriesTrack' /\ UsedCodeStaysRefused'
  <2>1. \A q \in Requests : req'[q].pc \in {"code", "replay", "record"} => req'[q] = req[q]
    BY <1>6, <1>t DEF Cleanup, Move, ReqType
  <2>2. CASE UNCHANGED used
    BY <1>6, <2>1, <2>2, <1>t, CodesStand DEF Cleanup
  <2>3. CASE used' = {u \in used : now - u.at <= 10}
    BY <1>6, <2>1, <2>3, <1>t DEF Cleanup, EntriesTrack, UsedCodeStaysRefused, Accepted
  <2> QED
    BY <1>6, <2>2, <2>3 DEF Cleanup
<1>7. ASSUME NEW r \in Requests, Reset(r) PROVE EntriesTrack' /\ UsedCodeStaysRefused'
  BY <1>7, <1>s DEF Reset
<1>8. ASSUME NEW r \in Requests, Count(r) PROVE EntriesTrack' /\ UsedCodeStaysRefused'
  BY <1>8, <1>s DEF Count
<1>9. ASSUME NEW r \in Requests, ClientGone(r) PROVE EntriesTrack' /\ UsedCodeStaysRefused'
  BY <1>9, <1>s DEF ClientGone
<1>10. CASE LockExpires
  BY <1>10, <1>t, CodesStand DEF LockExpires
<1>11. CASE NextPeriod
  BY <1>11, <1>t DEF NextPeriod, EntriesTrack, UsedCodeStaysRefused, Accepted
<1>12. CASE UNCHANGED vars
  BY <1>12, <1>t, CodesStand DEF vars
<1> QED
  BY <1>1, <1>2, <1>3, <1>4, <1>5, <1>6, <1>7, <1>8, <1>9, <1>10, <1>11, <1>12
  DEF Next, Attempt

(* A used code, spelled as it was, lets in nobody who was shown the table   *)
(* after it was entered; PeriodOf may give several strings the same period. *)
THEOREM UsedCodesAreRefused == Spec => []UsedCodeStaysRefused
<1>1. Init => TypeOK /\ EntriesTrack /\ UsedCodeStaysRefused
  BY TypeInit, CodesInit
<1>2. TypeOK /\ EntriesTrack /\ UsedCodeStaysRefused /\ [Next]_vars
        => (TypeOK /\ EntriesTrack /\ UsedCodeStaysRefused)'
  BY TypeStep, CodesStep
<1> QED
  BY <1>1, <1>2, PTL DEF Spec
=============================================================================
