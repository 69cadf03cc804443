------------------------------ MODULE HealthLedger ------------------------------
(***************************************************************************)
(* HealthMonitor with history variables that record what the probes really *)
(* found, so that the counter in the row, which goroutines write from old  *)
(* reads, can be compared with the truth.                                  *)
(***************************************************************************)
EXTENDS HealthMonitor

VARIABLES
  failed,   \* failed probes since the counter was last reset with no probe
            \* in flight (saturates at FailCap)
  recent,   \* failed probes since the counter was last reset (the same bound)
  old,      \* goroutines in flight that started before that reset
  undone    \* TRUE: one of them has written what it makes of its old row

ledger == <<failed, recent, old, undone>>
lvars  == <<vars, ledger>>

Flying        == {"probe", "count", "mark", "logdown"}
InFlight(p)   == task[p].pc \in Flying
ProbeFails(p) == task[p].pc = "probe" /\ task'[p].pc = "count"

(* A success is written: a collection's, or that of a test of the user's.    *)
Reset ==
  /\ fails' = 0
  /\ \E p \in Tasks :
       SetOnline(p) \/ (KindOf[p] = "test" /\ task[p].pc = "say_online" /\ HandlerWrite(p))

(* A reset that no goroutine with an older snapshot can undo.                *)
QuietReset == fails' = 0 /\ \A p \in Tasks : ~InFlight(p)

(* A goroutine that read the row before the reset writes the counter it has  *)
(* made of it, or the alarm.                                                 *)
OldWrite == \E p \in old : task'[p] # task[p] /\ <<fails, logged>>' # <<fails, logged>>

LInit == Init /\ failed = 0 /\ recent = 0 /\ old = {} /\ undone = FALSE

Count(n, zero) == IF \E p \in Tasks : ProbeFails(p) THEN Bump(n)
                  ELSE IF zero THEN 0 ELSE n

LNext ==
  /\ Next
  /\ failed' = Count(failed, QuietReset)
  /\ recent' = Count(recent, Reset)
  /\ old' = {p \in IF Reset THEN Tasks ELSE old : InFlight(p)'}
  /\ undone' = (~Reset /\ (undone \/ OldWrite))

LSpec == LInit /\ [][LNext]_lvars
-----------------------------------------------------------------------------
LTypeOK == /\ TypeOK /\ failed \in 0 .. FailCap /\ recent \in 0 .. FailCap
           /\ old \subseteq Tasks /\ undone \in BOOLEAN

(* What a goroutine has read, and what it makes of it, against a count.      *)
Within(t, count) ==
  /\ t.pc \in Flying => t.seen.fails <= count
  /\ t.pc = "count" => Bump(t.seen.fails) <= count
  /\ t.pc \in {"mark", "logdown"} => Threshold <= count

(* The counter never runs ahead of the probes that failed since the last     *)
(* reset no goroutine could undo, in the row or in the snapshot of any       *)
(* goroutine, however the goroutines interleave.  (A reset with goroutines   *)
(* in flight is another matter: see AlarmIsDeserved.)                        *)
CounterSound == fails <= failed /\ \A p \in Tasks : Within(task[p], failed)

(* Until an old goroutine writes, the counter and the goroutines that read   *)
(* it after the reset stay within the failures since the reset.              *)
NewSound == ~undone => fails <= recent /\ \A p \in Tasks \ old : Within(task[p], recent)

(* A down entry enters the timeline only after Threshold failed probes since *)
(* the last success was written, unless a goroutine that had read the row    *)
(* before that success has written since.  The exception is real: such a     *)
(* goroutine counts on from the old number, so that it raises the alarm      *)
(* itself after one failure or leaves the number for others to count on      *)
(* from.  No other interleaving brings an alarm forward: no crash, failing   *)
(* statement or pair of goroutines that count one failure each.              *)
AlarmIsDeserved ==
  [][logged' # logged /\ logged' \in DownStates
       => recent >= Threshold \/ undone']_lvars
=============================================================================
