-------------------------------- MODULE Accounts --------------------------------
(***************************************************************************)
(* Attempts to get into one enrolled account: the failure counter and the  *)
(* lock in its row, and the one-time codes that were used.                 *)
(*                                                                         *)
(* Login and ValidateCredentials read the row once, spend a quarter of a   *)
(* second on bcrypt, and then write what follows from that reading; the    *)
(* code is checked against used_totp_codes in one statement and entered in *)
(* another.  Errors of these statements are dropped.                       *)
(*                                                                         *)
(* Time is counted in the periods of 30 seconds of the authenticator.  A   *)
(* code is the string that was sent.  totp.Validate (external) takes white *)
(* space off before it compares, the statements on used_totp_codes do not: *)
(* several strings can be the code of one period, each with entries of its *)
(* own.  A string too long for VARCHAR(10) is one whose INSERT fails.      *)
(***************************************************************************)
EXTENDS Integers, FiniteSets

CONSTANTS
  Requests,    \* goroutines that serve attempts
  Codes,       \* the codes they come with, as they are spelled
  PeriodOf,    \* [Codes -> Int]: the period whose code the string is
  Threshold,   \* wrong attempts that lock the account: 5 in the code
  FailCap,     \* the counter is not told apart beyond this
  MaxPeriod,   \* bound on the clock
  DbMayFail    \* whether statements may fail

ASSUME ThresholdAssumption ==
  Threshold \in Nat \ {0} /\ FailCap \in Nat /\ Threshold <= FailCap
ASSUME PeriodAssumption  == MaxPeriod \in Nat /\ PeriodOf \in [Codes -> Int]
ASSUME DbFailsAssumption == DbMayFail \in BOOLEAN

VARIABLES
  fails,     \* users.failed_login_attempts
  locked,    \* users.locked_until lies in the future
  used,      \* used_totp_codes: which code, entered when
  now,       \* the period
  req,       \* what each goroutine is doing
  wrong,     \* history: attempts judged wrong since the last undisturbed reset
  spent,     \* history: the codes that ever were entered
  overlap    \* history: an attempt in hand met another

vars == <<fails, locked, used, now, req, wrong, spent, overlap>>

Steps == {"code", "replay", "record", "cleanup", "reset", "count"}
ReqType == [pc : Steps \cup {"idle"}, seen : 0 .. FailCap,
            code : Codes \cup {"none"}, blind : BOOLEAN]
NoReq == [pc |-> "idle", seen |-> 0, code |-> "none", blind |-> FALSE]

Cap(n) == IF n < FailCap THEN n ELSE FailCap
Busy(r) == req[r].pc # "idle"
OthersBusy(r) == \E q \in Requests \ {r} : Busy(q)

(* totp.Validate takes the code of this period and of its neighbours.       *)
Accepted(c) == PeriodOf[c] \in (now - 1) .. (now + 1)

(* used_at > NOW() - 90 s.  An entry made d periods ago is between d-1 and  *)
(* d+1 periods old, so that one made three periods ago may count or not.    *)
TrackedShort(u)    == now - u.at < 2
SurelyTracked(u)   == now - u.at < 3
PossiblyTracked(u) == now - u.at <= 3

Init ==
  /\ fails = 0
  /\ locked = FALSE
  /\ used = {}
  /\ now = 0
  /\ req = [r \in Requests |-> NoReq]
  /\ wrong = 0
  /\ spent = {}
  /\ overlap = FALSE

Move(r, to) == req' = [req EXCEPT ![r].pc = to]

Begin(r, pc, code) ==
  /\ req' = [req EXCEPT ![r] = [pc |-> pc, seen |-> fails, code |-> code, blind |-> FALSE]]
  /\ overlap' = (overlap \/ OthersBusy(r))

End(r) ==
  /\ req' = [req EXCEPT ![r] = NoReq]
  /\ overlap' = (overlap /\ OthersBusy(r))

Judge(r) == Move(r, "count") /\ wrong' = Cap(wrong + 1)

(* Either handler, with a wrong password.  A locked account is answered 429 *)
(* and a right password alone changes nothing, so neither is a step.        *)
WrongPassword(r) ==
  /\ ~Busy(r) /\ ~locked
  /\ Begin(r, "count", "none")
  /\ wrong' = Cap(wrong + 1)
  /\ UNCHANGED <<fails, locked, used, now, spent>>

(* Login, with the right password and some code; one that is not accepted   *)
(* stands for everything else that can be typed.                            *)
RightPassword(r) ==
  /\ ~Busy(r) /\ ~locked
  /\ \E c \in Codes : Begin(r, "code", c)
  /\ UNCHANGED <<fails, locked, used, now, wrong, spent>>

(* VerifyTOTPWithReplay: !totp.Validate(code, secret)                       *)
Validate(r) ==
  /\ req[r].pc = "code"
  /\ IF Accepted(req[r].code) THEN Move(r, "replay") /\ UNCHANGED wrong ELSE Judge(r)
  /\ UNCHANGED <<fails, locked, used, now, spent, overlap>>

(* code=$2: the entries with the same spelling.                             *)
Entries(r) == {u \in used : u.code = req[r].code}

(* Mutant: codes are tracked for a minute only.                             *)
CheckReplayShort(r) ==
  /\ req[r].pc = "replay"
  /\ IF \E u \in Entries(r) : TrackedShort(u)
       THEN Judge(r)
       ELSE Move(r, "record") /\ UNCHANGED wrong
  /\ UNCHANGED <<fails, locked, used, now, spent, overlap>>

(* SELECT COUNT( * ) ...: refused when there is a recent entry; when the    *)
(* statement fails the count stays zero and the code passes.                *)
CheckReplay(r) ==
  /\ req[r].pc = "replay"
  /\ \/ /\ \E u \in Entries(r) : PossiblyTracked(u)
        /\ Judge(r)
     \/ /\ ~\E u \in Entries(r) : SurelyTracked(u)
        /\ Move(r, "record")
        /\ UNCHANGED wrong
     \/ /\ DbMayFail
        /\ req' = [req EXCEPT ![r].pc = "record", ![r].blind = TRUE]
        /\ UNCHANGED wrong
  /\ UNCHANGED <<fails, locked, used, now, spent, overlap>>

(* INSERT INTO used_totp_codes.  Whoever has looked for this code already   *)
(* has missed it.                                                           *)
RecordCode(r) ==
  /\ req[r].pc = "record"
  /\ \/ /\ used' = used \cup {[code |-> req[r].code, at |-> now]}
        /\ spent' = spent \cup {req[r].code}
        /\ req' = [q \in Requests |->
             IF q = r THEN [req[q] EXCEPT !.pc = "cleanup"]
             ELSE IF req[q].pc = "record" /\ req[q].code = req[r].code
                  THEN [req[q] EXCEPT !.blind = TRUE]
                  ELSE req[q]]
     \/ DbMayFail /\ Move(r, "cleanup") /\ UNCHANGED <<used, spent>>
  /\ UNCHANGED <<fails, locked, now, wrong, overlap>>

(* DELETE of the entries older than five minutes, ten periods; one that may *)
(* still be younger is kept, which CheckReplay does not notice.             *)
Cleanup(r) ==
  /\ req[r].pc = "cleanup"
  /\ Move(r, "reset")
  /\ \/ used' = {u \in used : now - u.at <= 10}
     \/ DbMayFail /\ UNCHANGED used
  /\ UNCHANGED <<fails, locked, now, wrong, spent, overlap>>

(* UPDATE users SET failed_login_attempts=0, locked_until=NULL.  What       *)
(* others have read before still comes back, so that the history starts     *)
(* again only when there is nobody else.                                    *)
Reset(r) ==
  /\ req[r].pc = "reset"
  /\ End(r)
  /\ \/ /\ fails' = 0
        /\ locked' = FALSE
        /\ wrong' = IF OthersBusy(r) THEN wrong ELSE 0
     \/ DbMayFail /\ UNCHANGED <<fails, locked, wrong>>
  /\ UNCHANGED <<used, now, spent>>

(* Mutant: the attempt before the last one locks.                           *)
CountEarly(r) ==
  /\ req[r].pc = "count"
  /\ End(r)
  /\ fails' = Cap(req[r].seen + 1)
  /\ locked' = (locked \/ req[r].seen + 2 >= Threshold)
  /\ UNCHANGED <<used, now, wrong, spent>>

(* Mutant: newCount > 5.                                                    *)
CountLate(r) ==
  /\ req[r].pc = "count"
  /\ End(r)
  /\ fails' = Cap(req[r].seen + 1)
  /\ locked' = (locked \/ req[r].seen + 1 > Threshold)
  /\ UNCHANGED <<used, now, wrong, spent>>

(* incrementFailures(ctx, username, fails+1, ip)                            *)
Count(r) ==
  /\ req[r].pc = "count"
  /\ End(r)
  /\ \/ /\ fails' = Cap(req[r].seen + 1)
        /\ locked' = (locked \/ req[r].seen + 1 >= Threshold)
     \/ DbMayFail /\ UNCHANGED <<fails, locked>>
  /\ UNCHANGED <<used, now, wrong, spent>>

(* The request is cancelled: every statement from here on fails.            *)
ClientGone(r) ==
  /\ Busy(r)
  /\ End(r)
  /\ UNCHANGED <<fails, locked, used, now, wrong, spent>>

(* Fifteen minutes are over.                                                *)
LockExpires ==
  /\ locked
  /\ locked' = FALSE
  /\ UNCHANGED <<fails, used, now, req, wrong, spent, overlap>>

NextPeriod ==
  /\ now < MaxPeriod
  /\ now' = now + 1
  /\ UNCHANGED <<fails, locked, used, req, wrong, spent, overlap>>

Attempt(r) ==
  \/ WrongPassword(r) \/ RightPassword(r) \/ Validate(r) \/ CheckReplay(r)
  \/ RecordCode(r) \/ Cleanup(r) \/ Reset(r) \/ Count(r) \/ ClientGone(r)

Next == (\E r \in Requests : Attempt(r)) \/ LockExpires \/ NextPeriod

Spec == Init /\ [][Next]_vars
-----------------------------------------------------------------------------
(* The variables keep their types, and no entry of used_totp_codes is dated *)
(* later than now, when it would outlast the code.                          *)
TypeOK ==
  /\ fails \in 0 .. FailCap
  /\ wrong \in 0 .. FailCap
  /\ locked \in BOOLEAN /\ overlap \in BOOLEAN
  /\ now \in Nat
  /\ used \subseteq [code : Codes \cup {"none"}, at : 0 .. now]
  /\ spent \subseteq Codes \cup {"none"}
  /\ req \in [Requests -> ReqType]

(* A code that was used once lets nobody in again, spelled the same way,    *)
(* for as long as the authenticator would accept it: whoever still gets     *)
(* past the look at used_totp_codes with it looked before it was entered,   *)
(* or was not shown the table.  Three windows have to fit for this: the     *)
(* skew Validate allows, the 90 seconds of the SELECT and the five minutes  *)
(* of the DELETE.  Of another spelling of the code nothing is promised: it  *)
(* is accepted, and has no entries.  The login page sends digits only.      *)
UsedCodeStaysRefused ==
  \A r \in Requests :
    req[r].pc = "record" /\ req[r].code \in spent /\ Accepted(req[r].code)
      => req[r].blind

(* Nobody is locked out for wrong attempts that were never made: the lock   *)
(* closes only after as many attempts were judged wrong, since a login last *)
(* reset the counter undisturbed, as the threshold says, although the       *)
(* counter is written from readings that may be older than the reset.       *)
LockNeedsFailures == [][~locked /\ locked' => wrong >= Threshold]_vars

Lock == INSTANCE Lockout WITH
          Limit <- Threshold, Most <- FailCap, count <- fails, shut <- locked

(* As long as attempts do not overlap, the row follows the promise of       *)
(* Lockout: each wrong one counts, the last one allowed locks, a right one  *)
(* starts the count again, and only time opens the lock.                    *)
SerialAttemptsImplementLockout == [][overlap \/ Lock!Next]_<<fails, locked>>
=============================================================================
