------------------------------ MODULE Health_proofs ------------------------------
(***************************************************************************)
(* Proofs about the health of a server: HealthMonitor and HealthLedger,    *)
(* for every set of goroutines, every threshold, crashes and failing       *)
(* statements included, and Availability, for timelines and windows of any *)
(* length.                                                                 *)
(***************************************************************************)
EXTENDS HealthLedger, Availability, FiniteSetTheorems, WellFoundedInduction, TLAPS

USE DEF Kinds, Loops, Requests

(* Saturation keeps the counter in its range and never lets a smaller        *)
(* number overtake a larger one.                                             *)
LEMMA BumpFacts ==
  ASSUME NEW m \in 0 .. FailCap, NEW n \in 0 .. FailCap, m <= n
  PROVE  /\ Bump(n) \in 0 .. FailCap
         /\ Bump(m) <= Bump(n)
         /\ n <= Bump(n)
BY FailCapAssumption DEF Bump

(* Threshold lies in the range of the counter.                               *)
LEMMA CapFacts == FailCap \in Nat /\ Threshold \in Nat /\ 0 \in 0 .. FailCap
BY FailCapAssumption, ThresholdAssumption

(* An idle goroutine, and one that has dropped its snapshot, has a task of   *)
(* the right type.                                                           *)
LEMMA TaskFacts ==
  /\ Idle \in [pc : Steps, seen : Snapshot]
  /\ NoSnapshot \in Snapshot
  /\ \A q \in Steps : [pc |-> q, seen |-> NoSnapshot] \in [pc : Steps, seen : Snapshot]
BY CapFacts DEF Idle, NoSnapshot, Snapshot, Steps, Statuses

-----------------------------------------------------------------------------
(* What one statement on the row or on the history may leave behind.         *)
LEMMA RowTyped ==
  ASSUME TypeOK, NEW st \in Statuses, NEW n \in 0 .. FailCap, UpdateRow(st, n)
  PROVE  status' \in Statuses /\ fails' \in 0 .. FailCap /\ fails' \in {fails, n}
BY DEF TypeOK, UpdateRow

(* What a task may become.                                                   *)
LEMMA TaskTyped ==
  ASSUME TypeOK, NEW p \in Tasks, NEW q \in Steps,
         Finish(p) \/ Keep(p, q) \/ Goto(p, q) \/ ReadRow(p)
  PROVE  task' \in [Tasks -> [pc : Steps, seen : Snapshot]]
<1>1. CASE Finish(p)
  BY <1>1, TaskFacts DEF TypeOK, Finish
<1>2. CASE Keep(p, q)
  BY <1>2 DEF TypeOK, Keep, Steps
<1>3. CASE Goto(p, q)
  BY <1>3, TaskFacts DEF TypeOK, Goto
<1>4. CASE ReadRow(p)
  <2>1. [pc |-> "probe", seen |-> [status |-> status, fails |-> fails]]
           \in [pc : Steps, seen : Snapshot]
    BY DEF TypeOK, Steps, Snapshot
  <2> QED BY <1>4, <2>1 DEF TypeOK, ReadRow
<1> QED BY <1>1, <1>2, <1>3, <1>4

(* Every step keeps the type invariant.                                      *)
LEMMA TypeStep == TypeOK /\ [Next]_vars => TypeOK'
<1> SUFFICES ASSUME TypeOK, [Next]_vars PROVE TypeOK'
  OBVIOUS
<1> USE CapFacts
<1>u. CASE UNCHANGED vars
  BY <1>u DEF TypeOK, vars
<1>c. CASE CreateServer
  BY <1>c DEF TypeOK, CreateServer, Statuses
<1>d. CASE DeleteServer
  BY <1>d DEF TypeOK, DeleteServer, Statuses
<1>h. CASE HostChange
  BY <1>h DEF TypeOK, HostChange
<1>r. CASE Restart
  <2>1. task' \in [Tasks -> [pc : Steps, seen : Snapshot]]
    BY <1>r, TaskFacts DEF Restart
  <2>2. restarts' \in 0 .. MaxRestarts
    BY <1>r, RestartAssumption DEF Restart, TypeOK
  <2> QED BY <1>r, <2>1, <2>2 DEF TypeOK, Restart
<1>t. ASSUME NEW p \in Tasks, TaskStep(p) PROVE TypeOK'
  <2> USE DEF Statuses, Steps, DownStates
  <2>1. CASE StartLoop(p)
    BY <2>1, TaskTyped DEF StartLoop, TypeOK
  <2>2. CASE StartRequest(p)
    BY <2>2, TaskTyped DEF StartRequest, TypeOK
  <2>3. CASE PingProbe(p)
    BY <2>3, TaskTyped DEF PingProbe, TypeOK
  <2>4. CASE TcpProbe(p)
    BY <2>4, TaskTyped DEF TcpProbe, TypeOK
  <2>5. CASE CollectProbe(p)
    BY <2>5, TaskTyped DEF CollectProbe, TypeOK
  <2>6. CASE CountFailure(p)
    <3>1. newFails(p) \in 0 .. FailCap
      BY BumpFacts DEF newFails, TypeOK, Snapshot
    <3> QED BY <2>6, <3>1, RowTyped, TaskTyped DEF CountFailure, TypeOK
  <2>7. CASE MarkDown(p)
    BY <2>7, RowTyped, TaskTyped DEF MarkDown, downStatus, TypeOK
  <2>8. CASE LogDown(p)
    BY <2>8, TaskTyped DEF LogDown, recordStatusChange, downStatus, TypeOK
  <2>9. CASE LogUp(p)
    BY <2>9, TaskTyped DEF LogUp, recordStatusChange, TypeOK
  <2>10. CASE SetOnline(p)
    BY <2>10, RowTyped, TaskTyped DEF SetOnline, TypeOK
  <2>11. CASE TestProbe(p)
    BY <2>11, TaskTyped DEF TestProbe, TypeOK
  <2>12. CASE ManualProbe(p)
    BY <2>12, TaskTyped DEF ManualProbe, TypeOK
  <2>13. CASE InjectPassword(p)
    BY <2>13, TaskTyped DEF InjectPassword, TypeOK
  <2>14. CASE InjectVerify(p)
    BY <2>14, TaskTyped DEF InjectVerify, TypeOK
  <2>15. CASE HandlerWrite(p)
    BY <2>15, RowTyped, TaskTyped DEF HandlerWrite, TypeOK
  <2>16. CASE ClientGone(p)
    BY <2>16, TaskTyped DEF ClientGone, TypeOK
  <2> QED
    BY <1>t, <2>1, <2>2, <2>3, <2>4, <2>5, <2>6, <2>7, <2>8, <2>9, <2>10, <2>11,
       <2>12, <2>13, <2>14, <2>15, <2>16 DEF TaskStep, Work
<1> QED
  BY <1>u, <1>c, <1>d, <1>h, <1>r, <1>t DEF Next

(* The initial state has the right types.                                    *)
LEMMA TypeInit == Init => TypeOK
BY CapFacts, TaskFacts, InitAssumption, RestartAssumption
   DEF Init, TypeOK, Statuses, DownStates

(* The variables keep their types, whatever the goroutines interleave.       *)
THEOREM TypeCorrect == Spec => []TypeOK
BY TypeInit, TypeStep, PTL DEF Spec

-----------------------------------------------------------------------------
(* One task moves in a step of a goroutine; the others stay as they are.     *)
LEMMA OthersStay ==
  ASSUME TypeOK, NEW p \in Tasks, TaskStep(p), NEW q \in Tasks, q # p
  PROVE  task'[q] = task[q]
BY DEF TypeOK, TaskStep, Work, StartLoop, StartRequest, PingProbe, TcpProbe, CollectProbe,
       CountFailure, MarkDown, LogDown, LogUp, SetOnline, TestProbe, ManualProbe,
       InjectPassword, InjectVerify, HandlerWrite, ClientGone, Finish, Keep, Goto, ReadRow

(* A goroutine of a server that is gone starts nothing and only gets nearer  *)
(* its end.                                                                  *)
LEMMA GoneGoesOn ==
  ASSUME TypeOK, status = "deleted", NEW p \in Tasks, TaskStep(p)
  PROVE  status' = "deleted" /\ StepsLeft(task'[p].pc) < StepsLeft(task[p].pc)
<1>t. task \in [Tasks -> [pc : Steps, seen : Snapshot]]
  BY DEF TypeOK
<1>e. ~Exists
  BY DEF Exists, Rowless
<1>0. task[p].pc # "idle"
  BY <1>e DEF TaskStep, StartLoop, StartRequest, Monitored, Work, Running, PingProbe, TcpProbe,
       CollectProbe, CountFailure, MarkDown, LogDown, LogUp, SetOnline, TestProbe, ManualProbe,
       InjectPassword, InjectVerify, HandlerWrite, ClientGone
<1>1. /\ StepsLeft("idle") = 0 /\ StepsLeft("probe") = 4 /\ StepsLeft("count") = 3
      /\ StepsLeft("verify") = 2 /\ StepsLeft("mark") = 2 /\ StepsLeft("logup") = 2
      /\ \A q \in {"logdown", "online", "say_online", "say_unreachable", "say_auth_failed"} :
           StepsLeft(q) = 1
  BY DEF StepsLeft
<1>2. task[p].pc \in Steps \ {"idle"}
  BY <1>0, <1>t
<1>3. StepsLeft("idle") < StepsLeft(task[p].pc)
  BY <1>1, <1>2 DEF Steps
<1>f. Finish(p) => StepsLeft(task'[p].pc) < StepsLeft(task[p].pc)
  BY <1>3, <1>t DEF Finish, Idle
<1>4. CASE StartLoop(p) \/ StartRequest(p)
  BY <1>e, <1>4 DEF StartLoop, StartRequest, Monitored
<1>5. CASE PingProbe(p) \/ TcpProbe(p) \/ CollectProbe(p)
  <2>1. task[p].pc = "probe" /\ UNCHANGED status
    BY <1>5 DEF PingProbe, TcpProbe, CollectProbe, Running
  <2>2. Finish(p) \/ task'[p].pc \in {"count", "logup", "online"}
    BY <1>5, <1>t DEF PingProbe, TcpProbe, CollectProbe, Keep, Goto
  <2> QED BY <1>1, <1>f, <2>1, <2>2
<1>6. CASE CountFailure(p) \/ MarkDown(p) \/ LogUp(p)
  <2>1. UNCHANGED status
    BY <1>6, <1>e DEF CountFailure, MarkDown, LogUp, UpdateRow
  <2>2. \/ Finish(p)
        \/ task[p].pc = "count" /\ task'[p].pc = "mark"
        \/ task[p].pc = "mark" /\ task'[p].pc = "logdown"
        \/ task[p].pc = "logup" /\ task'[p].pc = "online"
    BY <1>6, <1>t DEF CountFailure, MarkDown, LogUp, Goto
  <2> QED BY <1>1, <1>f, <2>1, <2>2
<1>7. CASE LogDown(p) \/ SetOnline(p) \/ HandlerWrite(p) \/ ClientGone(p)
  <2>1. UNCHANGED status /\ Finish(p)
    BY <1>7, <1>e DEF LogDown, SetOnline, HandlerWrite, ClientGone, UpdateRow
  <2> QED BY <1>f, <2>1
<1>8. CASE TestProbe(p) \/ ManualProbe(p) \/ InjectPassword(p) \/ InjectVerify(p)
  <2>1. task[p].pc \in {"probe", "verify"} /\ UNCHANGED status
    BY <1>8 DEF TestProbe, ManualProbe, InjectPassword, InjectVerify, Running
  <2>2. \/ Finish(p)
        \/ task[p].pc = "probe" /\ task'[p].pc = "verify"
        \/ task'[p].pc \in {"say_online", "say_unreachable", "say_auth_failed"}
    BY <1>8, <1>t DEF TestProbe, ManualProbe, InjectPassword, InjectVerify, Running, Goto
  <2> QED BY <1>1, <1>f, <2>1, <2>2
<1> QED
  BY <1>4, <1>5, <1>6, <1>7, <1>8 DEF TaskStep, Work

(* The safety half of RemovalDrains: a server that is removed never comes    *)
(* back, nothing starts for it, and what still runs comes to its end.        *)
THEOREM RemovalIsFinal == Spec => RemovalHolds
<1>1. ASSUME TypeOK, [Next]_vars, status = "deleted"
      PROVE  /\ status' = "deleted"
             /\ \A p \in Tasks : task'[p].pc = task[p].pc
                   \/ StepsLeft(task'[p].pc) < StepsLeft(task[p].pc)
  <2>1. CASE UNCHANGED vars
    BY <1>1, <2>1 DEF vars
  <2>2. CASE \E p \in Tasks : TaskStep(p)
    BY <1>1, <2>2, OthersStay, GoneGoesOn
  <2>3. CASE CreateServer \/ DeleteServer \/ HostChange
    BY <1>1, <2>3 DEF CreateServer, DeleteServer, HostChange, Exists, Rowless
  <2>4. CASE Restart
    <3>1. status' = "deleted" /\ \A p \in Tasks : task'[p].pc = "idle"
      BY <1>1, <2>4 DEF Restart, Idle
    <3>2. \A q \in Steps : q = "idle" \/ StepsLeft("idle") < StepsLeft(q)
      BY DEF Steps, StepsLeft
    <3>3. \A p \in Tasks : task[p].pc \in Steps
      BY <1>1 DEF TypeOK
    <3> QED BY <3>1, <3>2, <3>3
  <2> QED BY <1>1, <2>1, <2>2, <2>3, <2>4 DEF Next
<1> QED BY <1>1, TypeCorrect, PTL DEF Spec, RemovalHolds

(* A history count grows with every failed probe and falls to zero only in   *)
(* the reset it is counted from.                                             *)
LEMMA CountFacts ==
  ASSUME NEW m \in 0 .. FailCap, NEW zero
  PROVE  /\ Count(m, zero) \in 0 .. FailCap
         /\ (\E p \in Tasks : ProbeFails(p)) => Count(m, zero) = Bump(m)
         /\ ~zero => m <= Count(m, zero)
         /\ zero => Count(m, zero) = 0 \/ \E p \in Tasks : ProbeFails(p)
<1> USE CapFacts
<1>1. Bump(m) \in 0 .. FailCap /\ m <= Bump(m)
  BY BumpFacts
<1> QED BY <1>1 DEF Count

(* What lies within a count lies within a larger one.                        *)
LEMMA WithinGrows ==
  ASSUME NEW m \in 0 .. FailCap, NEW n \in 0 .. FailCap, m <= n,
         NEW t \in [pc : Steps, seen : Snapshot], Within(t, m)
  PROVE  Within(t, n)
<1>1. t.seen.fails \in 0 .. FailCap /\ Bump(t.seen.fails) \in 0 .. FailCap
  BY BumpFacts, CapFacts DEF Snapshot
<1> QED BY <1>1, CapFacts DEF Within

(* A goroutine that reads a row within a count, counts what its probe finds  *)
(* and writes it, leaves the row, and is itself, within the count.           *)
LEMMA StepWithin ==
  ASSUME TypeOK, NEW m \in 0 .. FailCap, NEW n \in 0 .. FailCap, m <= n,
         NEW p \in Tasks, TaskStep(p), fails <= m, Within(task[p], m),
         ProbeFails(p) => n = Bump(m)
  PROVE  fails' <= n /\ Within(task'[p], n)
<1> USE CapFacts
<1>3. /\ fails \in 0 .. FailCap
      /\ task[p].seen.fails \in 0 .. FailCap /\ newFails(p) \in 0 .. FailCap
  BY BumpFacts DEF TypeOK, Snapshot, newFails
<1>t. task \in [Tasks -> [pc : Steps, seen : Snapshot]]
  BY DEF TypeOK
<1>4. CASE StartLoop(p) \/ StartRequest(p)
  BY <1>3, <1>4, <1>t DEF StartLoop, StartRequest, ReadRow, Goto, NoSnapshot, Within, Flying
<1>5. CASE PingProbe(p) \/ TcpProbe(p) \/ CollectProbe(p)
  <2>1. fails' = fails /\ task[p].pc = "probe"
    BY <1>5 DEF PingProbe, TcpProbe, CollectProbe, Running
  <2>2. CASE Keep(p, "count")
    <3>1. task'[p].pc = "count" /\ task'[p].seen = task[p].seen
      BY <2>2, <1>t DEF Keep
    <3>2. n = Bump(m)
      BY <2>1, <3>1 DEF ProbeFails
    <3>3. task[p].seen.fails <= m
      BY <2>1 DEF Within, Flying
    <3>4. Bump(task[p].seen.fails) <= n
      BY <3>2, <3>3, <1>3, BumpFacts
    <3> QED BY <1>3, <2>1, <3>1, <3>3, <3>4 DEF Within
  <2>3. CASE ~Keep(p, "count")
    <3>1. task'[p].pc \in {"idle", "logup", "online"}
      BY <1>5, <2>3, <1>t DEF PingProbe, TcpProbe, CollectProbe, Finish, Goto, Idle
    <3> QED BY <1>3, <2>1, <3>1 DEF Within, Flying
  <2> QED BY <2>2, <2>3
<1>6. CASE CountFailure(p)
  <2>1. newFails(p) <= m
    BY <1>6 DEF Within, CountFailure, newFails
  <2>2. fails' \in {fails, newFails(p)}
    BY <1>6 DEF CountFailure, UpdateRow
  <2>3. Within(task'[p], n)
    <3>1. CASE Goto(p, "mark") /\ newFails(p) >= Threshold
      BY <3>1, <1>3, <1>t, <2>1 DEF Goto, NoSnapshot, Within
    <3>2. CASE Finish(p)
      BY <3>2, <1>t DEF Finish, Idle, Within, Flying
    <3> QED BY <1>6, <3>1, <3>2 DEF CountFailure
  <2> QED BY <1>3, <2>1, <2>2, <2>3
<1>7. CASE MarkDown(p)
  <2>1. fails' = fails /\ Threshold <= m
    BY <1>7 DEF MarkDown, UpdateRow, Within
  <2> QED BY <1>3, <1>7, <1>t, <2>1 DEF MarkDown, Goto, NoSnapshot, Within
<1>8. CASE \/ LogDown(p) \/ LogUp(p) \/ SetOnline(p) \/ TestProbe(p) \/ ManualProbe(p)
           \/ InjectPassword(p) \/ InjectVerify(p) \/ HandlerWrite(p) \/ ClientGone(p)
  <2>1. fails' \in {fails, 0}
    BY <1>8 DEF LogDown, LogUp, SetOnline, TestProbe, ManualProbe, InjectPassword,
                InjectVerify, HandlerWrite, ClientGone, UpdateRow
  <2>2. task'[p].pc \notin Flying
    BY <1>8, <1>t DEF LogDown, LogUp, SetOnline, TestProbe, ManualProbe, InjectPassword,
                InjectVerify, HandlerWrite, ClientGone, Finish, Goto, Idle, Flying
  <2> QED BY <1>3, <2>1, <2>2 DEF Within, Flying
<1> QED BY <1>4, <1>5, <1>6, <1>7, <1>8, <1>t DEF TaskStep, Work

(* A step of anything but a goroutine writes no count and starts nothing.    *)
LEMMA OtherSteps ==
  ASSUME TypeOK, CreateServer \/ DeleteServer \/ HostChange \/ Restart
  PROVE  /\ fails' \in {fails, 0}
         /\ \A q \in Tasks : task'[q] = task[q] \/ task'[q].pc \notin Flying
BY DEF CreateServer, DeleteServer, HostChange, Restart, Idle, Flying

-----------------------------------------------------------------------------
(* The history variables keep their types.                                   *)
LEMMA LedgerTypeStep == LTypeOK /\ LNext => LTypeOK'
<1> SUFFICES ASSUME LTypeOK, LNext PROVE LTypeOK'
  OBVIOUS
<1>1. TypeOK'
  BY TypeStep DEF LNext, LTypeOK
<1>2. failed' \in 0 .. FailCap /\ recent' \in 0 .. FailCap
  BY CountFacts DEF LNext, LTypeOK
<1> QED BY <1>1, <1>2 DEF LNext, LTypeOK

(* CounterSound is inductive.                                                *)
LEMMA CounterStep ==
  ASSUME LTypeOK, CounterSound, LNext
  PROVE  CounterSound'
<1> USE CapFacts
<1>1. /\ TypeOK /\ Next /\ TypeOK' /\ failed' = Count(failed, QuietReset)
      /\ failed \in 0 .. FailCap /\ failed' \in 0 .. FailCap
      /\ fails \in 0 .. FailCap /\ fails' \in 0 .. FailCap
      /\ task \in [Tasks -> [pc : Steps, seen : Snapshot]]
  BY LedgerTypeStep DEF LNext, LTypeOK, TypeOK
<1>2. CASE QuietReset
  <2>1. fails' = 0 /\ \A q \in Tasks : ~InFlight(q)
    BY <1>2 DEF QuietReset
  <2>2. ASSUME NEW q \in Tasks PROVE Within(task'[q], failed')
    <3>1. CASE task'[q] = task[q]
      BY <2>1, <3>1 DEF Within, InFlight, Flying
    <3>2. CASE TaskStep(q)
      <4>1. CASE StartLoop(q) \/ StartRequest(q)
        BY <1>1, <2>1, <4>1
           DEF StartLoop, StartRequest, ReadRow, Goto, NoSnapshot, Within, Flying
      <4>2. CASE ~StartLoop(q) /\ ~StartRequest(q)
        <5>1. task'[q].pc \notin Flying
          BY <1>1, <2>1, <3>2, <4>2
             DEF TaskStep, Work, PingProbe, TcpProbe, CollectProbe, CountFailure, MarkDown,
                 LogDown, LogUp, SetOnline, TestProbe, ManualProbe, InjectPassword,
                 InjectVerify, HandlerWrite, ClientGone, Running, Finish, Keep, Goto, Idle,
                 InFlight, Flying
        <5> QED BY <5>1 DEF Within, Flying
      <4> QED BY <4>1, <4>2
    <3>3. CASE \E p \in Tasks : p # q /\ TaskStep(p)
      BY <1>1, <3>1, <3>3, OthersStay
    <3>4. CASE CreateServer \/ DeleteServer \/ HostChange \/ Restart
      <4>1. task'[q] = task[q] \/ task'[q].pc \notin Flying
        BY <1>1, <3>4, OtherSteps
      <4> QED BY <3>1, <4>1 DEF Within, Flying
    <3> QED BY <1>1, <3>2, <3>3, <3>4 DEF Next
  <2> QED BY <1>1, <2>1, <2>2 DEF CounterSound
<1>3. CASE ~QuietReset
  <2>1. /\ failed <= failed'
        /\ (\E p \in Tasks : ProbeFails(p)) => failed' = Bump(failed)
    BY <1>1, <1>3, CountFacts
  <2>2. \A q \in Tasks : task'[q] = task[q] => Within(task'[q], failed')
    BY <1>1, <2>1, WithinGrows DEF CounterSound
  <2>3. ASSUME NEW p \in Tasks, TaskStep(p) PROVE CounterSound'
    <3>1. fails' <= failed' /\ Within(task'[p], failed')
      BY <1>1, <2>1, <2>3, StepWithin DEF CounterSound
    <3>2. \A q \in Tasks \ {p} : task'[q] = task[q]
      BY <1>1, <2>3, OthersStay
    <3> QED BY <2>2, <3>1, <3>2 DEF CounterSound
  <2>4. CASE CreateServer \/ DeleteServer \/ HostChange \/ Restart
    <3>1. /\ fails' \in {fails, 0}
          /\ \A q \in Tasks : task'[q] = task[q] \/ task'[q].pc \notin Flying
      BY <1>1, <2>4, OtherSteps
    <3>2. \A q \in Tasks : Within(task'[q], failed')
      BY <2>2, <3>1 DEF Within, Flying
    <3>3. fails' <= failed'
      BY <1>1, <2>1, <3>1 DEF CounterSound
    <3> QED BY <3>2, <3>3 DEF CounterSound
  <2> QED BY <1>1, <2>3, <2>4 DEF Next
<1> QED BY <1>2, <1>3

(* An old goroutine that is still in flight after its step has not touched   *)
(* the row; one that has written is past its snapshot or is done.            *)
LEMMA OldStep ==
  ASSUME TypeOK, NEW p \in old, old \subseteq Tasks, TaskStep(p), InFlight(p), ~OldWrite
  PROVE  fails' = fails
<1>1. task[p].pc \in Flying /\ p \in Tasks
  BY DEF InFlight
<1>t. task \in [Tasks -> [pc : Steps, seen : Snapshot]]
  BY DEF TypeOK
<1>2. CASE CountFailure(p)
  <2>1. task[p].pc = "count" /\ task'[p].pc \in {"mark", "idle"}
    BY <1>2, <1>t, <1>1 DEF CountFailure, Goto, Finish, Idle
  <2>2. task'[p] # task[p]
    BY <2>1
  <2> QED BY <2>2 DEF OldWrite
<1>3. CASE ~CountFailure(p)
  BY <1>1, <1>3
     DEF TaskStep, Work, StartLoop, StartRequest, PingProbe, TcpProbe, CollectProbe, MarkDown,
         LogDown, LogUp, SetOnline, TestProbe, ManualProbe, InjectPassword, InjectVerify,
         HandlerWrite, ClientGone, UpdateRow, Running, Flying
<1> QED BY <1>2, <1>3

(* NewSound is inductive, with the fact that old goroutines are in flight.   *)
OldFly == \A p \in old : InFlight(p)

LEMMA NewStep ==
  ASSUME LTypeOK, OldFly, NewSound, LNext
  PROVE  OldFly' /\ NewSound'
<1> USE CapFacts
<1>1. /\ TypeOK /\ Next /\ TypeOK' /\ recent' = Count(recent, Reset)
      /\ recent \in 0 .. FailCap /\ recent' \in 0 .. FailCap
      /\ fails \in 0 .. FailCap /\ fails' \in 0 .. FailCap
      /\ task \in [Tasks -> [pc : Steps, seen : Snapshot]]
      /\ old \subseteq Tasks /\ old' \subseteq Tasks
      /\ old' = {p \in IF Reset THEN Tasks ELSE old : InFlight(p)'}
      /\ undone' = (~Reset /\ (undone \/ OldWrite))
  BY LedgerTypeStep DEF LNext, LTypeOK, TypeOK
<1>2. OldFly'
  BY <1>1 DEF OldFly
<1>3. \A q \in Tasks : task'[q].pc \notin Flying => Within(task'[q], recent')
  BY DEF Within, Flying
<1>4. CASE Reset
  <2>1. fails' = 0 /\ old' = {p \in Tasks : InFlight(p)'}
    BY <1>1, <1>4 DEF Reset
  <2>2. \A q \in Tasks \ old' : Within(task'[q], recent')
    BY <1>3, <2>1 DEF InFlight
  <2> QED BY <1>1, <1>2, <2>1, <2>2 DEF NewSound
<1>5. CASE ~Reset
  <2> SUFFICES ASSUME ~undone'
               PROVE  fails' <= recent' /\ \A q \in Tasks \ old' : Within(task'[q], recent')
    BY <1>2 DEF NewSound
  <2>1. ~undone /\ ~OldWrite
    BY <1>1, <1>5
  <2>2. fails <= recent /\ \A q \in Tasks \ old : Within(task[q], recent)
    BY <2>1 DEF NewSound
  <2>3. /\ recent <= recent'
        /\ (\E p \in Tasks : ProbeFails(p)) => recent' = Bump(recent)
    BY <1>1, <1>5, CountFacts
  <2>4. \A q \in old \ old' : task'[q].pc \notin Flying
    BY <1>1, <1>5 DEF InFlight
  <2>5. \A q \in Tasks \ old : task'[q] = task[q] => Within(task'[q], recent')
    BY <1>1, <2>2, <2>3, WithinGrows
  <2>6. ASSUME NEW p \in Tasks, TaskStep(p)
        PROVE  fails' <= recent' /\ \A q \in Tasks \ old' : Within(task'[q], recent')
    <3>1. \A q \in Tasks \ {p} : task'[q] = task[q]
      BY <1>1, <2>6, OthersStay
    <3>2. CASE p \in old
      <4>1. fails' = fails
        BY <1>1, <2>1, <2>6, <3>2, OldStep DEF OldFly
      <4>2. fails' <= recent'
        BY <1>1, <2>2, <2>3, <4>1
      <4> QED BY <1>1, <1>3, <2>4, <2>5, <3>1, <3>2, <4>2
    <3>3. CASE p \notin old
      <4>1. fails' <= recent' /\ Within(task'[p], recent')
        BY <1>1, <2>2, <2>3, <2>6, <3>3, StepWithin
      <4> QED BY <1>1, <1>3, <2>4, <2>5, <3>1, <3>3, <4>1
    <3> QED BY <3>2, <3>3
  <2>7. CASE CreateServer \/ DeleteServer \/ HostChange \/ Restart
    <3>1. /\ fails' \in {fails, 0}
          /\ \A q \in Tasks : task'[q] = task[q] \/ task'[q].pc \notin Flying
      BY <1>1, <2>7, OtherSteps
    <3>2. fails' <= recent'
      BY <1>1, <2>2, <2>3, <3>1
    <3> QED BY <1>1, <1>3, <2>4, <2>5, <3>1, <3>2
  <2> QED BY <1>1, <2>6, <2>7 DEF Next
<1> QED BY <1>4, <1>5

LedgerInv == LTypeOK /\ CounterSound /\ OldFly /\ NewSound

(* The invariant of the ledger is inductive.                                 *)
LEMMA LedgerStep == LedgerInv /\ [LNext]_lvars => LedgerInv'
<1> SUFFICES ASSUME LedgerInv, [LNext]_lvars PROVE LedgerInv'
  OBVIOUS
<1>1. CASE UNCHANGED lvars
  <2>1. /\ fails' = fails /\ task' = task /\ failed' = failed /\ recent' = recent
        /\ old' = old /\ undone' = undone
    BY <1>1 DEF lvars, vars, ledger
  <2>2. LTypeOK'
    BY <1>1 DEF lvars, vars, ledger, LedgerInv, LTypeOK, TypeOK
  <2>3. CounterSound' /\ OldFly' /\ NewSound'
    BY <2>1 DEF LedgerInv, CounterSound, OldFly, NewSound, InFlight
  <2> QED BY <2>2, <2>3 DEF LedgerInv
<1>2. CASE LNext
  BY <1>2, LedgerTypeStep, CounterStep, NewStep DEF LedgerInv
<1> QED BY <1>1, <1>2

(* At the beginning nothing has failed.                                      *)
LEMMA LedgerInit == LInit => LedgerInv
<1> SUFFICES ASSUME LInit PROVE LedgerInv
  OBVIOUS
<1>1. /\ TypeOK /\ fails = 0 /\ failed = 0 /\ recent = 0 /\ old = {} /\ undone = FALSE
      /\ \A p \in Tasks : task[p] = Idle
  BY TypeInit DEF LInit, Init
<1>2. LTypeOK
  BY <1>1, CapFacts DEF LTypeOK
<1>3. \A n \in Nat : Within(Idle, n)
  BY DEF Within, Flying, Idle
<1>4. CounterSound /\ OldFly /\ NewSound
  BY <1>1, <1>3, CapFacts DEF CounterSound, OldFly, NewSound
<1> QED BY <1>2, <1>4 DEF LedgerInv

(* The variables of the monitor and the history of what really happened keep *)
(* their types.                                                              *)
THEOREM LedgerTypeCorrect == LSpec => []LTypeOK
<1>1. LedgerInv => LTypeOK
  BY DEF LedgerInv
<1> QED BY <1>1, LedgerInit, LedgerStep, PTL DEF LSpec

(* The failure counter never runs ahead of the probes that really failed     *)
(* since the last reset with none in flight.                                 *)
THEOREM CounterIsSound == LSpec => []CounterSound
<1>1. LedgerInv => CounterSound
  BY DEF LedgerInv
<1> QED BY <1>1, LedgerInit, LedgerStep, PTL DEF LSpec

(* Only LogDown writes a down entry.                                         *)
LEMMA DownEntry ==
  ASSUME TypeOK, Next, logged' # logged, logged' \in DownStates
  PROVE  \E p \in Tasks : task[p].pc = "logdown" /\ LogDown(p)
BY DEF Next, TaskStep, Work, StartLoop, StartRequest, PingProbe, TcpProbe, CollectProbe,
       CountFailure, MarkDown, LogDown, LogUp, SetOnline, TestProbe, ManualProbe,
       InjectPassword, InjectVerify, HandlerWrite, ClientGone, CreateServer, DeleteServer,
       HostChange, Restart, recordStatusChange, DownStates

(* A server enters the timeline as down only after Threshold failed probes   *)
(* since its last success, unless a goroutine that had read the row before   *)
(* that success has written since: no other interleaving of goroutines,      *)
(* crash or failing statement brings an alarm forward.                       *)
THEOREM NoOtherFalseAlarm == LSpec => AlarmIsDeserved
<1>1. LedgerInv /\ [LNext]_lvars =>
        [logged' # logged /\ logged' \in DownStates => recent >= Threshold \/ undone']_lvars
  <2> SUFFICES ASSUME LedgerInv, LNext, logged' # logged, logged' \in DownStates
               PROVE  recent >= Threshold \/ undone'
    OBVIOUS
  <2>1. PICK p \in Tasks : task[p].pc = "logdown" /\ LogDown(p)
    BY DownEntry DEF LTypeOK, LNext, LedgerInv
  <2>2. ~Reset
    <3>1. ASSUME NEW q \in Tasks, task[q].pc \in {"online", "say_online"},
                 SetOnline(q) \/ HandlerWrite(q)
          PROVE  FALSE
      BY <2>1, <3>1 DEF SetOnline, HandlerWrite
    <3> QED BY <3>1 DEF Reset, SetOnline
  <2>3. CASE undone
    BY <2>2, <2>3 DEF LNext
  <2>4. CASE p \in old
    <3>1. task'[p] # task[p]
      BY <2>1 DEF LogDown, Finish, Idle, LedgerInv, LTypeOK, TypeOK
    <3> QED BY <2>2, <2>4, <3>1 DEF LNext, OldWrite
  <2>5. CASE ~undone /\ p \notin old
    BY <2>1, <2>5, CapFacts DEF LedgerInv, NewSound, Within, LTypeOK
  <2> QED BY <2>3, <2>4, <2>5
<1> QED BY <1>1, LedgerInit, LedgerStep, PTL DEF LSpec, AlarmIsDeserved

-----------------------------------------------------------------------------
(* A goroutine of a loop has read a row that was past pending_setup; the     *)
(* row never goes back there.                                                *)
LoopsPastSetup ==
  status \in {"absent", "pending_setup"} =>
    \A p \in Tasks : KindOf[p] \in Loops => task[p].pc = "idle"

(* LoopsPastSetup is inductive: no goroutine of a loop runs while the server *)
(* waits for its key.                                                        *)
LEMMA PastSetupStep == TypeOK /\ LoopsPastSetup /\ [Next]_vars => LoopsPastSetup'
<1> SUFFICES ASSUME TypeOK, LoopsPastSetup, [Next]_vars PROVE LoopsPastSetup'
  OBVIOUS
<1>u. CASE UNCHANGED vars
  BY <1>u DEF LoopsPastSetup, vars
<1>o. CASE CreateServer \/ DeleteServer \/ HostChange
  BY <1>o DEF CreateServer, DeleteServer, HostChange, LoopsPastSetup, Exists, Rowless
<1>r. CASE Restart
  BY <1>r DEF Restart, LoopsPastSetup, Idle
<1>t. ASSUME NEW p \in Tasks, TaskStep(p) PROVE LoopsPastSetup'
  <2>1. status' \in {"absent", "pending_setup"} => status' = status
    BY <1>t DEF TaskStep, Work, StartLoop, StartRequest, PingProbe, TcpProbe, CollectProbe,
       CountFailure, MarkDown, LogDown, LogUp, SetOnline, TestProbe, ManualProbe,
       InjectPassword, InjectVerify, HandlerWrite, ClientGone, UpdateRow, downStatus
  <2>2. ASSUME status' \in {"absent", "pending_setup"}, KindOf[p] \in Loops
        PROVE  FALSE
    <3>1. status \in {"absent", "pending_setup"} /\ task[p].pc = "idle"
      BY <2>1, <2>2 DEF LoopsPastSetup
    <3>2. ~(KindOf[p] \in Requests)
      BY <2>2
    <3> QED BY <1>t, <3>1, <3>2 DEF TaskStep, Work, StartLoop, StartRequest, PingProbe, TcpProbe,
       CollectProbe, CountFailure, MarkDown, LogDown, LogUp, SetOnline, TestProbe, ManualProbe,
       InjectPassword, InjectVerify, HandlerWrite, ClientGone, Running, Monitored, Exists, Rowless
  <2>3. ASSUME NEW q \in Tasks, KindOf[q] \in Loops, status' \in {"absent", "pending_setup"}
        PROVE  task'[q].pc = "idle"
    BY <1>t, <2>1, <2>2, <2>3, OthersStay DEF LoopsPastSetup
  <2> QED BY <2>3 DEF LoopsPastSetup
<1> QED BY <1>u, <1>o, <1>r, <1>t DEF Next

(* A server leaves pending_setup only by a step of a user's request.         *)
THEOREM PendingIsLeftByUser == Spec => PendingOnlyByUser
<1> DEFINE Left == status = "pending_setup" /\ status' \notin {"pending_setup", "deleted"}
           ByUser == \E p \in Tasks : KindOf[p] \in Requests /\ task'[p] # task[p]
<1>1. TypeOK /\ LoopsPastSetup /\ [Next]_vars => [Left => ByUser]_vars
  <2> SUFFICES ASSUME TypeOK, LoopsPastSetup, Next, Left PROVE ByUser
    OBVIOUS
  <2>1. PICK p \in Tasks : TaskStep(p)
    BY DEF Next, CreateServer, DeleteServer, HostChange, Restart
  <2>2. task[p].pc # "idle" /\ task'[p].pc # task[p].pc
    BY <2>1 DEF TaskStep, Work, StartLoop, StartRequest, PingProbe, TcpProbe, CollectProbe,
       CountFailure, MarkDown, LogDown, LogUp, SetOnline, TestProbe, ManualProbe,
       InjectPassword, InjectVerify, HandlerWrite, ClientGone, Finish, Goto, Idle, TypeOK
  <2>3. KindOf[p] \in Requests
    BY <2>2, KindAssumption DEF LoopsPastSetup
  <2> QED BY <2>2, <2>3
<1>2. Init => LoopsPastSetup
  BY DEF Init, LoopsPastSetup, Idle
<1> QED BY <1>1, <1>2, TypeInit, TypeStep, PastSetupStep, PTL DEF Spec, PendingOnlyByUser

-----------------------------------------------------------------------------
(* With a secret that does not decrypt, no goroutine gets past its probe.    *)
SealedStops ==
  Sealed => \A p \in Tasks :
    \/ task[p].pc = "idle"
    \/ task[p].pc = "probe" /\ KindOf[p] \in {"metrics", "collect", "test", "manual"}

(* No goroutine gets past its probe without the secret.                      *)
LEMMA SealedStep == TypeOK /\ SealedStops /\ [Next]_vars => SealedStops'
<1> SUFFICES ASSUME TypeOK, SealedStops, [Next]_vars, Sealed' PROVE SealedStops'
  BY DEF SealedStops
<1>s. Sealed
  BY DEF Sealed, vars, Next, TaskStep, Work, StartLoop, StartRequest, PingProbe, TcpProbe,
     CollectProbe, CountFailure, MarkDown, LogDown, LogUp, SetOnline, TestProbe, ManualProbe,
     InjectPassword, InjectVerify, HandlerWrite, ClientGone, CreateServer, DeleteServer,
     HostChange, Restart
<1>u. CASE UNCHANGED vars \/ CreateServer \/ DeleteServer \/ HostChange
  BY <1>s, <1>u DEF SealedStops, vars, CreateServer, DeleteServer, HostChange
<1>r. CASE Restart
  <2>1. \A p \in Tasks : task'[p].pc = "idle"
    BY <1>r DEF Restart, Idle
  <2> QED BY <2>1 DEF SealedStops
<1>t. ASSUME NEW p \in Tasks, TaskStep(p) PROVE SealedStops'
  <2>1. mode = "sealed" /\ mode # "direct" /\ mode # "gsocket"
    BY <1>s DEF Sealed
  <2>2. \/ task'[p].pc = "idle"
        \/ task'[p].pc = "probe" /\ KindOf[p] \in {"metrics", "collect", "test", "manual"}
    <3>1. CASE StartLoop(p)
      BY <2>1, <3>1, KindAssumption DEF StartLoop, ReadRow, Running, TypeOK
    <3>2. CASE StartRequest(p)
      BY <2>1, <3>2, KindAssumption DEF StartRequest, ReadRow, Goto, Running, TypeOK
    <3>3. CASE Work(p) \/ ClientGone(p)
      BY <1>s, <2>1, <3>3 DEF SealedStops, Sealed, Work, PingProbe, TcpProbe, CollectProbe,
         CountFailure, MarkDown, LogDown, LogUp, SetOnline, TestProbe, ManualProbe,
         InjectPassword, InjectVerify, HandlerWrite, ClientGone, Running, Finish, Idle, TypeOK
    <3> QED BY <1>t, <3>1, <3>2, <3>3 DEF TaskStep
  <2> QED BY <1>s, <1>t, <2>2, OthersStay DEF SealedStops
<1> QED BY <1>u, <1>r, <1>t DEF Next

(* A server whose gs-netcat secret cannot be decrypted keeps its status, its *)
(* counter and its timeline until it is removed.                             *)
THEOREM SealedIsNotJudged == Spec => NoVerdictWithoutSecret
<1>1. TypeOK /\ SealedStops /\ [Next]_vars =>
        [Sealed /\ Exists =>
           UNCHANGED logged /\ (status' = "deleted" \/ UNCHANGED <<status, fails>>)]_vars
  <2> SUFFICES ASSUME SealedStops, Next, Sealed, Exists
               PROVE  UNCHANGED logged /\ (status' = "deleted" \/ UNCHANGED <<status, fails>>)
    OBVIOUS
  <2>1. CASE CreateServer \/ DeleteServer \/ HostChange \/ Restart
    BY <2>1 DEF CreateServer, DeleteServer, HostChange, Restart, Exists, Rowless
  <2>2. ASSUME NEW p \in Tasks, TaskStep(p) PROVE UNCHANGED <<status, fails, logged>>
    BY <2>2 DEF SealedStops, TaskStep, Work, StartLoop, StartRequest, PingProbe, TcpProbe,
       CollectProbe, CountFailure, MarkDown, LogDown, LogUp, SetOnline, TestProbe, ManualProbe,
       InjectPassword, InjectVerify, HandlerWrite, ClientGone, Running
  <2> QED BY <2>1, <2>2 DEF Next
<1>2. Init => SealedStops
  <2>1. ASSUME Init, NEW p \in Tasks PROVE task[p].pc = "idle"
    BY <2>1 DEF Init, Idle
  <2> QED BY <2>1 DEF SealedStops
<1> QED BY <1>1, <1>2, TypeInit, TypeStep, SealedStep, PTL DEF Spec, NoVerdictWithoutSecret

-----------------------------------------------------------------------------
(* Induction over the numbers up to n, from the well-foundedness of <.       *)
LEMMA NatSets ==
  ASSUME NEW S \in SUBSET Nat, 0 \in S, \A n \in S : n + 1 \in S
  PROVE  S = Nat
<1> DEFINE R == OpToRel(<, Nat)
<1>1. SUFFICES ASSUME Nat \ S # {} PROVE FALSE
  OBVIOUS
<1>2. IsWellFoundedOn(R, Nat)
  BY NatLessThanWellFounded
<1>3. \A x \in Nat : x - 1 \in Nat => <<x - 1, x>> \in R
  BY DEF OpToRel
<1> HIDE DEF R
<1>4. PICK x \in Nat \ S : \A y \in Nat \ S : ~(<<y, x>> \in R)
  BY <1>1, <1>2, WFMin
<1>5. x # 0 /\ x - 1 \in Nat
  BY <1>4
<1>6. x - 1 \in S
  BY <1>3, <1>4, <1>5
<1> QED BY <1>4, <1>5, <1>6

(* The same for the numbers from 0 to n.                                     *)
LEMMA UpTo ==
  ASSUME NEW n \in Nat, NEW S, 0 \in S,
         \A i \in 0 .. n : i < n /\ i \in S => i + 1 \in S
  PROVE  0 .. n \subseteq S
<1> DEFINE T == {i \in Nat : i <= n => i \in S}
<1>1. 0 \in T
  OBVIOUS
<1>2. \A i \in T : i + 1 \in T
  OBVIOUS
<1>3. T \in SUBSET Nat
  BY DEF T
<1>4. T = Nat
  <2> HIDE DEF T
  <2> QED BY <1>1, <1>2, <1>3, NatSets
<1> QED BY <1>4

(* A non-empty set of indices has a largest element, and Max is it.          *)
LEMMA MaxFacts ==
  ASSUME NEW n \in Nat, NEW S \in SUBSET (1 .. n), S # {}
  PROVE  Max(S) \in S /\ \A i \in S : i <= Max(S)
<1> DEFINE T == {k \in Nat : \A U \in SUBSET (1 .. k) :
                     U # {} => \E x \in U : \A y \in U : x >= y}
<1>1. 0 \in T
  <2>1. 1 .. 0 = {}
    OBVIOUS
  <2> QED BY <2>1
<1>2. ASSUME NEW k \in T PROVE k + 1 \in T
  <2> SUFFICES ASSUME NEW U \in SUBSET (1 .. k + 1), U # {}
               PROVE  \E x \in U : \A y \in U : x >= y
    OBVIOUS
  <2>1. CASE k + 1 \in U
    BY <2>1
  <2>2. CASE k + 1 \notin U
    <3>1. U \in SUBSET (1 .. k)
      BY <2>2
    <3> QED BY <3>1
  <2> QED BY <2>1, <2>2
<1>3. T = Nat
  <2>1. T \in SUBSET Nat /\ \A k \in T : k + 1 \in T
    BY <1>2
  <2> HIDE DEF T
  <2> QED BY <1>1, <2>1, NatSets
<1>4. \E x \in S : \A y \in S : x >= y
  BY <1>3
<1>5. Max(S) \in S /\ \A y \in S : Max(S) >= y
  BY <1>4 DEF Max
<1> QED BY <1>5

-----------------------------------------------------------------------------
(* Ticks of O between a and c: all of those after b, or none of them.        *)
LEMMA FullSpan ==
  ASSUME NEW O, NEW a \in Int, NEW b \in Int, NEW c \in Int, a <= b, b <= c,
         b .. c - 1 \subseteq O
  PROVE  Cardinality((a .. c - 1) \cap O) = Cardinality((a .. b - 1) \cap O) + (c - b)
<1> DEFINE S == (a .. b - 1) \cap O
           T == b .. c - 1
<1>1. (a .. c - 1) \cap O = S \cup T /\ S \cap T = {}
  OBVIOUS
<1>2. /\ IsFiniteSet(a .. b - 1) /\ IsFiniteSet(T)
      /\ Cardinality(T) = c - b
  <2>1. b \in Int /\ c - 1 \in Int /\ b - 1 \in Int
    OBVIOUS
  <2>2. Cardinality(T) = IF b > c - 1 THEN 0 ELSE c - 1 - b + 1
    BY <2>1, FS_Interval
  <2>3. IsFiniteSet(a .. b - 1) /\ IsFiniteSet(T)
    BY <2>1, FS_Interval
  <2> QED BY <2>2, <2>3
<1>3. IsFiniteSet(S)
  BY <1>2, FS_Subset
<1>4. Cardinality(S) \in Nat
  BY <1>3, FS_CardinalityType
<1>5. Cardinality(S \cup T) = Cardinality(S) + Cardinality(T) - Cardinality(S \cap T)
  <2> HIDE DEF S, T
  <2> QED BY <1>2, <1>3, FS_Union
<1>6. Cardinality(S \cap T) = 0
  BY <1>1, FS_EmptySet
<1>7. Cardinality(S \cup T) = Cardinality(S) + (c - b)
  <2> HIDE DEF S, T
  <2> QED BY <1>2, <1>4, <1>5, <1>6
<1> QED BY <1>1, <1>7

(* When none of the ticks after b is one of O, those before c are those      *)
(* before b.                                                                 *)
LEMMA EmptySpan ==
  ASSUME NEW O, NEW a \in Int, NEW b \in Int, NEW c \in Int, a <= b, b <= c,
         (b .. c - 1) \cap O = {}
  PROVE  Cardinality((a .. c - 1) \cap O) = Cardinality((a .. b - 1) \cap O)
<1>1. (a .. c - 1) \cap O = (a .. b - 1) \cap O
  OBVIOUS
<1> QED BY <1>1

(* An interval holds finitely many ticks.                                    *)
LEMMA TickCount ==
  ASSUME NEW O, NEW a \in Int, NEW b \in Int
  PROVE  Cardinality((a .. b) \cap O) \in Nat
BY FS_Interval, FS_Subset, FS_CardinalityType
-----------------------------------------------------------------------------
(* The entries of the history have numbers for times.                        *)
LEMMA EntryFacts ==
  ASSUME ATypeOK
  PROVE  /\ DOMAIN history = 1 .. Len(history)
         /\ Len(history) \in Nat
         /\ \A i \in DOMAIN history : history[i].at \in Nat
<1>1. \A i \in DOMAIN history : history[i] \in Entry
  BY DEF ATypeOK
<1>2. DOMAIN history = 1 .. Len(history) /\ Len(history) \in Nat
  BY DEF ATypeOK
<1> QED BY <1>1, <1>2 DEF Entry

(* Types and the order of the timeline are kept by every step.               *)
LEMMA ReportStep ==
  ATypeOK /\ TimeOrdered /\ [ReportNext]_reportVars => ATypeOK' /\ TimeOrdered'
<1> SUFFICES ASSUME ATypeOK, TimeOrdered, [ReportNext]_reportVars
             PROVE  ATypeOK' /\ TimeOrdered'
  OBVIOUS
<1> USE BoundsAssumption DEF ATypeOK, TimeOrdered
<1>1. CASE Tick
  <2>1. now \in Int /\ now' = now + 1 /\ now' \in 0 .. MaxTime /\ history' = history
    BY <1>1 DEF Tick
  <2>2. DOMAIN shown' = 0 .. now' - 1
    BY <1>1 DEF Tick
  <2>3. TimeOrdered'
    BY <2>1, EntryFacts
  <2> QED BY <1>1, <2>1, <2>2, <2>3 DEF Tick
<1>2. ASSUME NEW st \in Outages \cup {"online"}, recordEntry(st), UNCHANGED now
      PROVE  /\ history' \in Seq(Entry) /\ Len(history') <= MaxEntries
             /\ TimeOrdered'
  <2> DEFINE e == [status |-> st, at |-> now]
  <2>1. e \in Entry
    BY DEF Entry
  <2>2. /\ history' = Append(history, e) /\ now' = now
        /\ Len(history) < MaxEntries
    BY <1>2 DEF recordEntry
  <2>3. /\ history' \in Seq(Entry)
        /\ Len(history') = Len(history) + 1
        /\ \A i \in 1 .. Len(history) : history'[i] = history[i]
        /\ history'[Len(history) + 1] = e
    BY <2>1, <2>2
  <2>4. \A i \in DOMAIN history : history[i].at \in Nat
    BY EntryFacts
  <2> QED BY <2>2, <2>3, <2>4
<1>3. CASE MonitorDown
  BY <1>2, <1>3 DEF MonitorDown
<1>4. CASE MonitorUp
  BY <1>2, <1>4 DEF MonitorUp
<1>5. CASE HandlerSets
  BY <1>5 DEF HandlerSets, Outages
<1>6. CASE UNCHANGED reportVars
  BY <1>6 DEF reportVars
<1> QED BY <1>1, <1>3, <1>4, <1>5, <1>6 DEF ReportNext

(* They hold at the beginning.                                               *)
LEMMA ReportStart == ReportInit => ATypeOK /\ TimeOrdered
BY BoundsAssumption DEF ReportInit, ATypeOK, TimeOrdered

(* Clock, row and history keep their types, whatever is written.             *)
THEOREM ReportTyped == ReportSpec => []ATypeOK
<1>1. ATypeOK /\ TimeOrdered /\ [ReportNext]_reportVars => ATypeOK' /\ TimeOrdered'
  BY ReportStep
<1> QED BY ReportStart, <1>1, PTL DEF ReportSpec

-----------------------------------------------------------------------------
(* The recursive function of Scanned exists, so its equation holds of it.    *)
LEMMA ScanFacts ==
  ASSUME ATypeOK, NEW since \in Int
  PROVE  \E acc :
           /\ acc[0] = Start(since, Statements)
           /\ \A i \in 1 .. Len(history) :
                acc[i] = IF i \in Later(since) THEN Scan(acc[i - 1], history[i])
                         ELSE acc[i - 1]
           /\ Scanned(since, Statements) = acc[Len(history)]
<1> DEFINE n == Len(history)
           Body(f, i) == IF i = 0 THEN Start(since, Statements)
                         ELSE IF i \in Later(since) THEN Scan(f[i - 1], history[i])
                         ELSE f[i - 1]
           S == {k \in Nat : \E f : f = [i \in 0 .. k |-> Body(f, i)]}
<1>1. 0 \in S
  <2> DEFINE f == [i \in 0 .. 0 |-> Start(since, Statements)]
  <2>1. f = [i \in 0 .. 0 |-> Body(f, i)]
    OBVIOUS
  <2> QED BY <2>1
<1>2. ASSUME NEW k \in S PROVE k + 1 \in S
  <2>1. PICK f : f = [i \in 0 .. k |-> Body(f, i)]
    OBVIOUS
  <2> DEFINE g == [i \in 0 .. k + 1 |-> IF i <= k THEN f[i] ELSE Body(f, k + 1)]
  <2>2. \A i \in 0 .. k + 1 : g[i] = Body(g, i)
    <3> SUFFICES ASSUME NEW i \in 0 .. k + 1 PROVE g[i] = Body(g, i)
      OBVIOUS
    <3>1. i # 0 => g[i - 1] = f[i - 1]
      OBVIOUS
    <3>2. i <= k => g[i] = Body(f, i)
      BY <2>1
    <3>3. i > k => i = k + 1 /\ g[i] = Body(f, i)
      OBVIOUS
    <3> QED BY <3>1, <3>2, <3>3
  <2>3. g = [i \in 0 .. k + 1 |-> Body(g, i)]
    BY <2>2
  <2> HIDE DEF g
  <2> QED BY <2>3
<1>3. n \in S
  <2>1. S \in SUBSET Nat /\ \A k \in S : k + 1 \in S
    BY <1>2
  <2>2. n \in Nat
    BY DEF ATypeOK
  <2> HIDE DEF S
  <2> QED BY <1>1, <2>1, <2>2, NatSets
<1> DEFINE acc == CHOOSE f : f = [i \in 0 .. n |-> Body(f, i)]
<1>4. acc = [i \in 0 .. n |-> Body(acc, i)]
  BY <1>3
<1>5. Scanned(since, Statements) = acc[n]
  BY DEF Scanned
<1>6. n \in Nat
  BY DEF ATypeOK
<1> HIDE DEF acc
<1> QED BY <1>4, <1>5, <1>6
-----------------------------------------------------------------------------
OnlineTold == {t \in Int : Told(t) = "online"}

(* The loop of calcAvailability has, after the first i entries, counted the  *)
(* ticks the timeline calls online up to the last of them.                   *)
LEMMA ScanCounts ==
  ASSUME ATypeOK, TimeOrdered, NEW since \in Int, since <= now
  PROVE  onlineSec(since, Statements) = Cardinality((since .. now - 1) \cap OnlineTold)
<1>1. PICK acc :
        /\ acc[0] = Start(since, Statements)
        /\ \A i \in 1 .. Len(history) :
             acc[i] = IF i \in Later(since) THEN Scan(acc[i - 1], history[i])
                      ELSE acc[i - 1]
        /\ Scanned(since, Statements) = acc[Len(history)]
  BY ScanFacts
<1> DEFINE n == Len(history)
           O == OnlineTold
           Known(i) == {j \in 1 .. n : j <= i \/ history[j].at < since}
           Place(i) == /\ acc[i].at \in Int /\ since <= acc[i].at /\ acc[i].at <= now
                       /\ \A j \in 1 .. n : j <= i => history[j].at <= acc[i].at
                       /\ \A j \in Later(since) : j > i => acc[i].at <= history[j].at
           Counted(i) == acc[i].online = Cardinality((since .. acc[i].at - 1) \cap O)
           Good(i) == /\ Place(i)
                      /\ acc[i].status = StatusAfter(Known(i))
                      /\ Counted(i)
           S == {i \in 0 .. n : Good(i)}
<1>2. /\ DOMAIN history = 1 .. n /\ n \in Nat /\ now \in Int
      /\ \A j \in 1 .. n : history[j].at \in Int /\ history[j].at <= now
      /\ \A j, k \in 1 .. n : j <= k => history[j].at <= history[k].at
  BY EntryFacts DEF ATypeOK, TimeOrdered
<1>3. \A j \in 1 .. n : j \in Later(since) <=> history[j].at >= since
  BY <1>2 DEF Later
<1>4. Later(since) \subseteq 1 .. n
  BY <1>2 DEF Later
<1>5. ASSUME NEW i \in S, NEW t \in Int, acc[i].at <= t,
             \A j \in Later(since) : j > i => t < history[j].at
      PROVE  Told(t) = acc[i].status
  <2>1. {j \in 1 .. n : history[j].at <= t} = Known(i)
    BY <1>2, <1>3, <1>5
  <2>2. Told(t) = StatusAfter(Known(i))
    BY <1>2, <2>1 DEF Told
  <2> QED BY <1>5, <2>2
<1>6. 0 \in S
  <2>1. acc[0].at = since /\ acc[0].online = 0 /\ acc[0].status = StatusAfter(Before(since))
    BY <1>1 DEF Start, Statements
  <2>2. Before(since) = Known(0)
    BY <1>2 DEF Before
  <2>3. Place(0)
    BY <1>2, <1>3, <1>4, <2>1
  <2>4. (since .. since - 1) \cap O = {}
    OBVIOUS
  <2>5. Counted(0)
    BY <2>1, <2>4, FS_EmptySet
  <2>6. 0 \in 0 .. n
    BY <1>2
  <2>7. Good(0)
    BY <2>1, <2>2, <2>3, <2>5
  <2> HIDE DEF Good
  <2> QED BY <2>6, <2>7
<1>7. ASSUME NEW i \in 0 .. n, i < n, i \in S
      PROVE  i + 1 \in S
  <2>1. i + 1 \in 1 .. n /\ i + 1 \in 0 .. n /\ (i + 1) - 1 = i
    BY <1>2, <1>7
  <2>2. CASE i + 1 \notin Later(since)
    <3>1. acc[i + 1] = acc[i]
      BY <1>1, <2>1, <2>2
    <3>2. Known(i + 1) = Known(i)
      BY <1>2, <1>3, <2>1, <2>2
    <3>3. Place(i + 1)
      BY <1>2, <1>3, <1>4, <1>7, <2>1, <2>2, <3>1
    <3> QED BY <1>7, <2>1, <3>1, <3>2, <3>3
  <2>3. CASE i + 1 \in Later(since)
    <3> DEFINE e == history[i + 1]
               a == acc[i]
    <3>1. acc[i + 1] = Scan(a, e)
      BY <1>1, <2>1, <2>3
    <3>2. /\ acc[i + 1].at = e.at /\ acc[i + 1].status = e.status
          /\ acc[i + 1].online = a.online + (IF a.status = "online" THEN e.at - a.at ELSE 0)
      BY <3>1 DEF Scan
    <3>3. /\ e.at \in Int /\ since <= e.at /\ e.at <= now
          /\ a.at \in Int /\ since <= a.at /\ a.at <= e.at
      BY <1>2, <1>3, <1>7, <2>1, <2>3
    <3>4. Place(i + 1)
      BY <1>2, <1>4, <2>1, <3>2, <3>3
    <3>5. e.status = StatusAfter(Known(i + 1))
      <4>1. i + 1 \in Known(i + 1) /\ \A j \in Known(i + 1) : j <= i + 1
        BY <1>2, <2>1, <3>3
      <4>2. Known(i + 1) \subseteq 1 .. n /\ Known(i + 1) # {}
        BY <4>1
      <4>3. Max(Known(i + 1)) = i + 1
        <5> HIDE DEF Known
        <5>1. Max(Known(i + 1)) \in Known(i + 1) /\ i + 1 <= Max(Known(i + 1))
          BY <1>2, <4>1, <4>2, MaxFacts
        <5>2. Max(Known(i + 1)) \in Int
          BY <1>2, <4>2, <5>1
        <5> QED BY <4>1, <5>1, <5>2
      <4> QED BY <4>2, <4>3 DEF StatusAfter
    <3>6. \A t \in a.at .. e.at - 1 : Told(t) = a.status
      <4> SUFFICES ASSUME NEW t \in a.at .. e.at - 1 PROVE Told(t) = a.status
        OBVIOUS
      <4>1. t \in Int /\ a.at <= t /\ t < e.at
        BY <3>3
      <4>2. \A j \in Later(since) : j > i => t < history[j].at
        BY <1>2, <1>4, <2>1, <4>1
      <4> QED BY <1>5, <1>7, <4>1, <4>2
    <3>7. Counted(i + 1)
      <4>0. a.online = Cardinality((since .. a.at - 1) \cap O)
        BY <1>7
      <4>1. CASE a.status = "online"
        <5>1. a.at .. e.at - 1 \subseteq O
          BY <3>3, <3>6, <4>1 DEF OnlineTold
        <5>2. Cardinality((since .. e.at - 1) \cap O)
                = Cardinality((since .. a.at - 1) \cap O) + (e.at - a.at)
          BY <3>3, <5>1, FullSpan
        <5> QED BY <3>2, <4>0, <4>1, <5>2
      <4>2. CASE a.status # "online"
        <5>1. (a.at .. e.at - 1) \cap O = {}
          BY <3>3, <3>6, <4>2 DEF OnlineTold
        <5>2. Cardinality((since .. e.at - 1) \cap O)
                = Cardinality((since .. a.at - 1) \cap O)
          BY <3>3, <5>1, EmptySpan
        <5>3. Cardinality((since .. a.at - 1) \cap O) \in Nat
          <6>1. a.at - 1 \in Int
            BY <3>3
          <6> QED BY <6>1, TickCount
        <5> QED BY <3>2, <4>0, <4>2, <5>2, <5>3
      <4> QED BY <4>1, <4>2
    <3> QED BY <2>1, <3>2, <3>4, <3>5, <3>7
  <2> QED BY <2>2, <2>3
<1>8. n \in S
  <2>1. 0 .. n \subseteq S
    <3> HIDE DEF S
    <3> QED BY <1>2, <1>6, <1>7, UpTo
  <2>2. n \in 0 .. n
    BY <1>2
  <2> HIDE DEF S
  <2> QED BY <2>1, <2>2
<1> DEFINE a == acc[n]
<1>9. /\ a.at \in Int /\ since <= a.at /\ a.at <= now
      /\ a.online = Cardinality((since .. a.at - 1) \cap O)
      /\ onlineSec(since, Statements) = a.online + (IF a.status = "online" THEN now - a.at ELSE 0)
  BY <1>1, <1>8 DEF onlineSec
<1>10. \A t \in a.at .. now - 1 : Told(t) = a.status
  <2> SUFFICES ASSUME NEW t \in a.at .. now - 1 PROVE Told(t) = a.status
    OBVIOUS
  <2>1. t \in Int /\ a.at <= t
    BY <1>2, <1>9
  <2>2. \A j \in Later(since) : ~(j > n)
    BY <1>2, <1>4
  <2> QED BY <1>5, <1>8, <2>1, <2>2
<1>11. CASE a.status = "online"
  <2>1. a.at .. now - 1 \subseteq O
    BY <1>2, <1>9, <1>10, <1>11 DEF OnlineTold
  <2>2. Cardinality((since .. now - 1) \cap O)
          = Cardinality((since .. a.at - 1) \cap O) + (now - a.at)
    <3>1. a.at \in Int /\ since <= a.at /\ a.at <= now /\ now \in Int
      BY <1>2, <1>9
    <3> HIDE DEF a
    <3> QED BY <2>1, <3>1, FullSpan
  <2> QED BY <1>9, <1>11, <2>2
<1>12. CASE a.status # "online"
  <2>1. (a.at .. now - 1) \cap O = {}
    BY <1>2, <1>9, <1>10, <1>12 DEF OnlineTold
  <2>2. Cardinality((since .. now - 1) \cap O) = Cardinality((since .. a.at - 1) \cap O)
    BY <1>2, <1>9, <2>1, EmptySpan
  <2>3. Cardinality((since .. a.at - 1) \cap O) \in Nat
    <3>1. a.at - 1 \in Int
      BY <1>9
    <3> QED BY <3>1, TickCount
  <2> QED BY <1>9, <1>12, <2>2, <2>3
<1> QED BY <1>11, <1>12
-----------------------------------------------------------------------------
(* A window without an entry: the timeline tells one status all through it.  *)
LEMMA QuietWindow ==
  ASSUME ATypeOK, TimeOrdered, NEW since \in Int, since <= now, Later(since) = {}
  PROVE  \A t \in since .. now : Told(t) = Told(now)
<1>1. /\ now \in Int
      /\ \A i \in DOMAIN history : history[i].at \in Int /\ history[i].at < since
  BY EntryFacts DEF ATypeOK, Later
<1>2. ASSUME NEW t \in since .. now
      PROVE  {i \in DOMAIN history : history[i].at <= t} = DOMAIN history
  BY <1>1
<1>3. {i \in DOMAIN history : history[i].at <= now} = DOMAIN history
  BY <1>1
<1> QED BY <1>2, <1>3 DEF Told

(* In every state whose timeline is in order the report follows it.          *)
LEMMA AgreesAlways == ATypeOK /\ TimeOrdered => AgreesWithTimeline
<1> SUFFICES ASSUME ATypeOK, TimeOrdered, NEW w \in Windows, Later(now - w) # {}
             PROVE  GetAvailability(w, Statements) =
                      (Cardinality({t \in Window(w) : Told(t) = "online"}) * 10000) \div w
  BY DEF AgreesWithTimeline
<1>1. now \in Int /\ w \in Int /\ w > 0 /\ now - w <= now /\ now - (now - w) = w
  BY WindowsAssumption DEF ATypeOK
<1>2. onlineSec(now - w, Statements) = Cardinality((now - w .. now - 1) \cap OnlineTold)
  BY <1>1, ScanCounts
<1>3. (now - w .. now - 1) \cap OnlineTold = {t \in Window(w) : Told(t) = "online"}
  BY <1>1 DEF OnlineTold, Window
<1>4. GetAvailability(w, Statements) = (onlineSec(now - w, Statements) * 10000) \div (now - (now - w))
  BY DEF GetAvailability, calcAvailability, Statements
<1>5. onlineSec(now - w, Statements) = Cardinality({t \in Window(w) : Told(t) = "online"})
  BY <1>2, <1>3
<1>6. PICK n : n = onlineSec(now - w, Statements)
  OBVIOUS
<1>7. GetAvailability(w, Statements) = (n * 10000) \div w
  BY <1>1, <1>4, <1>6
<1> QED BY <1>5, <1>6, <1>7

(* All of a window is 10000 hundredths of a percent, none of it is 0.        *)
LEMMA WholePercent ==
  ASSUME NEW w \in Nat \ {0}
  PROVE  (w * 10000) \div w = 10000 /\ (0 * 10000) \div w = 0
OBVIOUS

(* In every state whose timeline is in order and told the truth the report   *)
(* is exact: windows with an entry by AgreesAlways, those without by         *)
(* QuietWindow.                                                              *)
LEMMA ExactAlways == ATypeOK /\ TimeOrdered => ExactWhenRecorded
<1> SUFFICES ASSUME ATypeOK, TimeOrdered, NEW w \in Windows,
                    \A t \in Window(w) : t \in DOMAIN shown /\ shown[t] = Told(t),
                    rowStatus = Told(now)
             PROVE  GetAvailability(w, Statements) = RealUptime(w)
  BY DEF ExactWhenRecorded
<1>1. /\ now \in Int /\ w \in Nat \ {0} /\ now - w \in Int /\ now - w <= now
      /\ Window(w) = now - w .. now - 1
  BY WindowsAssumption DEF ATypeOK, Window
<1>2. OnlineTicks(w) = {t \in Window(w) : Told(t) = "online"}
  BY DEF OnlineTicks
<1>3. CASE Later(now - w) # {}
  <2>1. AgreesWithTimeline
    BY AgreesAlways
  <2> QED BY <1>2, <1>3, <2>1 DEF AgreesWithTimeline, RealUptime
<1>4. CASE Later(now - w) = {}
  <2>1. \A t \in Window(w) : Told(t) = rowStatus
    BY <1>1, <1>4, QuietWindow
  <2>2. GetAvailability(w, Statements) = IF rowStatus = "online" THEN 10000 ELSE 0
    BY <1>4 DEF GetAvailability, calcAvailability, Statements
  <2>3. CASE rowStatus = "online"
    <3>1. OnlineTicks(w) = now - w .. now - 1
      BY <1>1, <1>2, <2>1, <2>3
    <3>2. Cardinality(now - w .. now - 1) = w
      <4>1. now - 1 \in Int
        BY <1>1
      <4>2. Cardinality(now - w .. now - 1) =
              IF now - w > now - 1 THEN 0 ELSE (now - 1) - (now - w) + 1
        BY <1>1, <4>1, FS_Interval
      <4> QED BY <1>1, <4>2
    <3> QED BY <1>1, <2>2, <2>3, <3>1, <3>2, WholePercent DEF RealUptime
  <2>4. CASE rowStatus # "online"
    <3>1. OnlineTicks(w) = {}
      BY <1>2, <2>1, <2>4
    <3> QED BY <1>1, <2>2, <2>4, <3>1, FS_EmptySet, WholePercent DEF RealUptime
  <2> QED BY <2>3, <2>4
<1> QED BY <1>3, <1>4

(* For windows and timelines of any length, with entries on any border and   *)
(* several in one tick: a window with an entry reports the share of it the   *)
(* timeline calls online.                                                    *)
THEOREM ReportFollowsTimeline == ReportSpec => []AgreesWithTimeline
<1> QED BY ReportStart, ReportStep, AgreesAlways, PTL DEF ReportSpec

(* Where the timeline recorded what the server was shown with, the           *)
(* percentage is the share of the window it was really shown online, for     *)
(* windows and timelines of any length.                                      *)
THEOREM ReportIsExact == ReportSpec => []ExactWhenRecorded
<1> QED BY ReportStart, ReportStep, ExactAlways, PTL DEF ReportSpec
=============================================================================
