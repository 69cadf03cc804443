----------------------------- MODULE HealthMonitor -----------------------------
(***************************************************************************)
(* The life of ONE managed server in SynCent: its row in table servers,    *)
(* its entries in table status_history, and every goroutine that writes    *)
(* either of them.  The three loops of HealthChecker start one goroutine   *)
(* per server and tick; the HTTP handlers that add, test, set up or remove *)
(* the server run beside them.  Each goroutine reads the row ONCE, talks   *)
(* to the host for seconds, and then issues its UPDATE and INSERT          *)
(* statements one by one, outside any transaction, from the row it read.   *)
(*                                                                         *)
(* Servers are independent in this code: no statement of these goroutines  *)
(* touches two rows, so one server with several goroutines is the general  *)
(* case.  The SSH slots the goroutines share are in SshSlots.              *)
(***************************************************************************)
EXTENDS Naturals

CONSTANTS
  Tasks,        \* goroutine slots; a slot is used again once it is idle
  KindOf,       \* [Tasks -> Kinds]: which code a slot runs
  Modes,        \* connection_mode of the server; "sealed" is gsocket with a
                \* secret that cannot be decrypted
  Threshold,    \* HEALTH_CHECK_CONSECUTIVE_FAILURES
  FailCap,      \* bound: the failure counter saturates here
  Hosts,        \* the conditions the managed host may be in
  InitStatus,   \* what the database holds when SynCent starts
  MaxRestarts,  \* bound: how often the SynCent process restarts
  DbMayFail     \* TRUE: any single statement may fail (the code ignores it)

Loops    == {"ping", "tcp", "metrics"}
Requests == {"collect", "test", "manual", "inject"}
Kinds    == Loops \cup Requests

ASSUME ThresholdAssumption == Threshold \in Nat \ {0}
ASSUME FailCapAssumption   == FailCap \in Nat /\ FailCap >= Threshold
ASSUME KindAssumption      == KindOf \in [Tasks -> Kinds]
ASSUME ModesAssumption     == Modes \subseteq {"direct", "gsocket", "sealed"}
ASSUME HostsAssumption     ==
  Hosts \subseteq {"up", "noauth", "noicmp", "noport", "down", "stalled"}
ASSUME RestartAssumption   == MaxRestarts \in Nat
ASSUME DbAssumption        == DbMayFail \in BOOLEAN

VARIABLES
  status,    \* servers.status, or "absent" / "deleted" when there is no row
  fails,     \* servers.consecutive_failures
  logged,    \* the newest status_history entry, "none" before the first
  mode,      \* one of Modes; no handler changes it
  host,      \* the managed host, as its probes would find it
  task,      \* what each goroutine does and the row it has read
  restarts   \* restarts of the process so far

vars == <<status, fails, logged, mode, host, task, restarts>>

Statuses    == {"absent", "pending_setup", "online", "unreachable",
                "ssh_down", "auth_failed", "deleted"}
DownStates  == {"unreachable", "ssh_down"}
Rowless     == {"absent", "deleted"}
Steps       == {"idle", "probe", "verify", "count", "mark", "logdown",
                "logup", "online", "say_online", "say_unreachable", "say_auth_failed"}

ASSUME InitAssumption == InitStatus \in Statuses \ DownStates

Snapshot    == [status : Statuses, fails : 0 .. FailCap]
NoSnapshot  == [status |-> "absent", fails |-> 0]
Idle        == [pc |-> "idle", seen |-> NoSnapshot]

Sealed      == mode = "sealed"
Exists      == status \notin Rowless

(* Mutants: getActiveServers with a stale list, and without its filter.     *)
MonitoredForEver == status # "pending_setup"
MonitoredAtOnce  == Exists

Monitored   == Exists /\ status # "pending_setup"

(***************************************************************************)
(* What a probe finds, by the condition of the host.                       *)
(***************************************************************************)
PingOk(h) == h \in {"up", "noauth", "noport", "stalled"}
TcpOk(h)  == h \in {"up", "noauth", "noicmp", "stalled"}
KeyOk(h)  == h \in {"up", "noicmp"}
PwOk(h)   == h \in {"up", "noauth", "noicmp"}
(* gs-netcat meets the host at a relay: it needs neither ICMP nor sshd.      *)
GsOk(h)   == h \in {"up", "noicmp", "noport", "stalled"}
(* A stalled sshd takes the TCP connection and never finishes the handshake: *)
(* the Timeout of ssh.Dial covers the connect alone.                         *)
Answers(h) == h # "stalled"

LoginOk   == IF mode = "direct" THEN KeyOk(host) ELSE GsOk(host)
(* An SSH call comes to no verdict as long as the host does not answer; over *)
(* gs-netcat every call has a deadline.                                      *)
HasVerdict == mode = "direct" => Answers(host)

(* The counter is only ever compared with Threshold, so saturating at       *)
(* FailCap >= Threshold loses nothing.                                      *)
Bump(n)   == IF n < FailCap THEN n + 1 ELSE n

Running(p, kinds, pc) == KindOf[p] \in kinds /\ task[p].pc = pc
Finish(p)             == task' = [task EXCEPT ![p] = Idle]
(* Go on with the row that was read, or, past its last use, without it.     *)
Keep(p, pc)           == task' = [task EXCEPT ![p].pc = pc]
Goto(p, pc)           == task' = [task EXCEPT ![p] = [pc |-> pc, seen |-> NoSnapshot]]

(* UPDATE servers ... WHERE id: no row, no effect; the error is dropped.    *)
UpdateRow(st, n) ==
  \/ status' = (IF Exists THEN st ELSE status) /\ fails' = (IF Exists THEN n ELSE fails)
  \/ DbMayFail /\ UNCHANGED <<status, fails>>

(* INSERT INTO status_history: no foreign key, so it also succeeds for a    *)
(* server that is gone.                                                     *)
recordStatusChange(st) ==
  \/ logged' = st
  \/ DbMayFail /\ UNCHANGED logged

-----------------------------------------------------------------------------
Init ==
  /\ status = InitStatus /\ fails = 0 /\ logged = "none"
  /\ mode \in Modes
  /\ host \in Hosts
  /\ task = [p \in Tasks |-> Idle]
  /\ restarts = 0

(***************************************************************************)
(* Start of a goroutine: the row is read.                                  *)
(***************************************************************************)
ReadRow(p) == task' = [task EXCEPT ![p] =
  [pc |-> "probe", seen |-> [status |-> status, fails |-> fails]]]

StartLoop(p) ==
  /\ Running(p, Loops, "idle")
  /\ Monitored
  /\ KindOf[p] \in {"ping", "tcp"} => mode = "direct"
  /\ ReadRow(p)
  /\ UNCHANGED <<status, fails, logged, mode, host, restarts>>

StartRequest(p) ==
  /\ Running(p, Requests, "idle")
  /\ Exists
  /\ KindOf[p] = "inject" => mode = "direct"
  /\ IF KindOf[p] = "collect" THEN ReadRow(p) ELSE Goto(p, "probe")
  /\ UNCHANGED <<status, fails, logged, mode, host, restarts>>

(***************************************************************************)
(* The probes.                                                             *)
(***************************************************************************)
PingProbe(p) ==
  /\ Running(p, {"ping"}, "probe")
  /\ IF PingOk(host) THEN Finish(p) ELSE Keep(p, "count")
  /\ UNCHANGED <<status, fails, logged, mode, host, restarts>>

(* Mutant: without the check of the status at the head of the TCP task.     *)
TcpProbeUnguarded(p) ==
  /\ Running(p, {"tcp"}, "probe")
  /\ IF TcpOk(host) THEN Finish(p) ELSE Keep(p, "count")
  /\ UNCHANGED <<status, fails, logged, mode, host, restarts>>

TcpProbe(p) ==
  /\ Running(p, {"tcp"}, "probe")
  /\ IF TcpOk(host) \/ task[p].seen.status = "unreachable"
     THEN Finish(p) ELSE Keep(p, "count")
  /\ UNCHANGED <<status, fails, logged, mode, host, restarts>>

(* Mutants: a failed login is logged and forgotten; a failed decryption is  *)
(* counted as a failure of the host.                                        *)
CollectProbeLenient(p) ==
  /\ Running(p, {"metrics", "collect"}, "probe")
  /\ HasVerdict
  /\ \/ (Sealed \/ ~LoginOk) /\ Finish(p)
     \/ /\ ~Sealed /\ LoginOk
        /\ Goto(p, IF task[p].seen.status # "online" THEN "logup" ELSE "online")
  /\ UNCHANGED <<status, fails, logged, mode, host, restarts>>

CollectProbeBlaming(p) ==
  /\ Running(p, {"metrics", "collect"}, "probe")
  /\ HasVerdict
  /\ \/ (Sealed \/ ~LoginOk) /\ Keep(p, "count")
     \/ /\ ~Sealed /\ LoginOk
        /\ Goto(p, IF task[p].seen.status # "online" THEN "logup" ELSE "online")
  /\ UNCHANGED <<status, fails, logged, mode, host, restarts>>

(* Over SSH this is ExecuteBatch as a whole: the wait for a slot of the      *)
(* global and one of the server's semaphore, the dial and the commands.  The *)
(* waits have no limit (SshSlots), so that nothing obliges this step to come.*)
CollectProbe(p) ==
  /\ Running(p, {"metrics", "collect"}, "probe")
  /\ HasVerdict
  /\ \/ Sealed /\ Finish(p)
     \/ ~Sealed /\ ~LoginOk /\ Keep(p, "count")
     \/ /\ ~Sealed /\ LoginOk
        /\ Goto(p, IF task[p].seen.status # "online" THEN "logup" ELSE "online")
  /\ UNCHANGED <<status, fails, logged, mode, host, restarts>>

(***************************************************************************)
(* handleFailure: three statements.                                        *)
(***************************************************************************)
downStatus(p) == IF KindOf[p] = "tcp" THEN "ssh_down" ELSE "unreachable"
(* Mutant: counted in SQL and again in Go.                                  *)
newFailsTwice(p) == Bump(Bump(task[p].seen.fails))
newFails(p)   == Bump(task[p].seen.fails)

(* Mutant: alarm one failure early.                                         *)
CountFailureEarly(p) ==
  /\ task[p].pc = "count"
  /\ UpdateRow(status, newFails(p))
  /\ IF newFails(p) + 1 >= Threshold /\ task[p].seen.status # downStatus(p)
     THEN Goto(p, "mark") ELSE Finish(p)
  /\ UNCHANGED <<logged, mode, host, restarts>>

CountFailure(p) ==
  /\ task[p].pc = "count"
  /\ UpdateRow(status, newFails(p))
  /\ IF newFails(p) >= Threshold /\ task[p].seen.status # downStatus(p)
     THEN Goto(p, "mark") ELSE Finish(p)
  /\ UNCHANGED <<logged, mode, host, restarts>>

MarkDown(p) ==
  /\ task[p].pc = "mark"
  /\ UpdateRow(downStatus(p), fails)
  /\ Goto(p, "logdown")
  /\ UNCHANGED <<logged, mode, host, restarts>>

LogDown(p) ==
  /\ task[p].pc = "logdown"
  /\ recordStatusChange(downStatus(p))
  /\ Finish(p)
  /\ UNCHANGED <<status, fails, mode, host, restarts>>

(***************************************************************************)
(* saveMetrics: the history entry first, the row after it.                 *)
(***************************************************************************)
LogUp(p) ==
  /\ task[p].pc = "logup"
  /\ recordStatusChange("online")
  /\ Goto(p, "online")
  /\ UNCHANGED <<status, fails, mode, host, restarts>>

(* Mutant: the counter is reset, the status is not written.                 *)
SetOnlinePartly(p) ==
  /\ task[p].pc = "online"
  /\ UpdateRow(status, 0)
  /\ Finish(p)
  /\ UNCHANGED <<logged, mode, host, restarts>>

SetOnline(p) ==
  /\ task[p].pc = "online"
  /\ UpdateRow("online", 0)
  /\ Finish(p)
  /\ UNCHANGED <<logged, mode, host, restarts>>

(***************************************************************************)
(* The handlers of one user request.                                       *)
(***************************************************************************)
TestProbe(p) ==
  /\ Running(p, {"test"}, "probe")
  /\ HasVerdict
  /\ \/ Sealed /\ Finish(p)
     \/ ~Sealed /\ Goto(p, IF LoginOk THEN "say_online" ELSE "say_unreachable")
  /\ UNCHANGED <<status, fails, logged, mode, host, restarts>>

ManualProbe(p) ==
  /\ Running(p, {"manual"}, "probe")
  /\ HasVerdict
  /\ \/ ~Sealed /\ LoginOk /\ Goto(p, "say_online")
     \/ mode = "gsocket" /\ ~LoginOk /\ Goto(p, "say_unreachable")
     \/ (Sealed \/ (mode = "direct" /\ ~LoginOk)) /\ Finish(p)
  /\ UNCHANGED <<status, fails, logged, mode, host, restarts>>

(* InjectKey logs in with the password the user typed (it may be wrong),    *)
(* writes the key, hangs up and dials again with the key.                   *)
InjectPassword(p) ==
  /\ Running(p, {"inject"}, "probe")
  /\ HasVerdict
  /\ \/ PwOk(host) /\ Goto(p, "verify")
     \/ Finish(p)
  /\ UNCHANGED <<status, fails, logged, mode, host, restarts>>

InjectVerify(p) ==
  /\ Running(p, {"inject"}, "verify")
  /\ HasVerdict
  /\ Goto(p, IF KeyOk(host) THEN "say_online" ELSE "say_auth_failed")
  /\ UNCHANGED <<status, fails, logged, mode, host, restarts>>

HandlerWrite(p) ==
  /\ \/ /\ task[p].pc = "say_online"
        /\ UpdateRow("online", IF KindOf[p] = "test" THEN 0 ELSE fails)
     \/ task[p].pc = "say_unreachable" /\ UpdateRow("unreachable", fails)
     \/ task[p].pc = "say_auth_failed" /\ UpdateRow("auth_failed", fails)
  /\ Finish(p)
  /\ UNCHANGED <<logged, mode, host, restarts>>

(* The client hangs up: r.Context() is cancelled and every later statement  *)
(* of the request fails unnoticed.                                          *)
ClientGone(p) ==
  /\ KindOf[p] \in Requests /\ task[p].pc # "idle"
  /\ Finish(p)
  /\ UNCHANGED <<status, fails, logged, mode, host, restarts>>

CreateServer ==
  /\ status = "absent"
  /\ status' = "pending_setup"
  /\ UNCHANGED <<fails, logged, mode, host, task, restarts>>

(* The id is a random UUID: a server that is removed never comes back.      *)
DeleteServer ==
  /\ Exists
  /\ status' = "deleted" /\ fails' = 0
  /\ UNCHANGED <<logged, mode, host, task, restarts>>

HostChange ==
  /\ host' \in Hosts \ {host}
  /\ UNCHANGED <<status, fails, logged, mode, task, restarts>>

(* os.Exit on a signal, or a crash: goroutines vanish between statements.   *)
Restart ==
  /\ restarts < MaxRestarts
  /\ restarts' = restarts + 1
  /\ task' = [p \in Tasks |-> Idle]
  /\ UNCHANGED <<status, fails, logged, mode, host>>

Work(p) ==
  \/ PingProbe(p) \/ TcpProbe(p) \/ CollectProbe(p)
  \/ CountFailure(p) \/ MarkDown(p) \/ LogDown(p)
  \/ LogUp(p) \/ SetOnline(p)
  \/ TestProbe(p) \/ ManualProbe(p) \/ InjectPassword(p) \/ InjectVerify(p)
  \/ HandlerWrite(p)

TaskStep(p) == StartLoop(p) \/ StartRequest(p) \/ Work(p) \/ ClientGone(p)

Next ==
  \/ \E p \in Tasks : TaskStep(p)
  \/ CreateServer \/ DeleteServer
  \/ HostChange \/ Restart

Spec == Init /\ [][Next]_vars

(* In an SSH call, or waiting for a slot to make it.                        *)
InSsh(p) == /\ mode = "direct" /\ KindOf[p] \in {"metrics"} \cup Requests
            /\ task[p].pc \in {"probe", "verify"}

(***************************************************************************)
(* Fairness: the tickers start the loops again and again, and a goroutine  *)
(* goes on with what has a deadline: ping (3 s), the TCP check (5 s),      *)
(* gs-netcat (10 to 20 s), a statement (the database answers or fails).    *)
(* An SSH call has none: it waits for its slots, for the handshake and, in *)
(* RunOnClient, for the command as long as it takes.  No user is obliged   *)
(* to press a button and no host to change.                                *)
(***************************************************************************)
Fairness ==
  /\ \A p \in Tasks : WF_vars(StartLoop(p))
  /\ \A p \in Tasks : WF_vars(Work(p) /\ ~InSsh(p))

FairSpec == Spec /\ Fairness

(* What the code does not see to, and two properties need as a hypothesis:  *)
(* no SSH call hangs for ever, in the handshake or for want of a slot.       *)
SshReturns == \A p \in Tasks : []<>~InSsh(p)
-----------------------------------------------------------------------------
TypeOK ==
  /\ status \in Statuses /\ fails \in 0 .. FailCap
  /\ logged \in DownStates \cup {"none", "online"}
  /\ mode \in Modes /\ host \in Hosts
  /\ task \in [Tasks -> [pc : Steps, seen : Snapshot]]
  /\ restarts \in 0 .. MaxRestarts

(* A server waiting for its key leaves that state only by a step of a user's *)
(* request: no loop goroutine, however stale its snapshot, activates it.     *)
(* (getActiveServers leaves pending_setup out.)                              *)
PendingOnlyByUser ==
  [][status = "pending_setup" /\ status' \notin {"pending_setup", "deleted"}
       => \E p \in Tasks : KindOf[p] \in Requests /\ task'[p] # task[p]]_vars

Unwatched == Rowless \cup {"pending_setup"}

(* A host that is gone for good ends up, and stays, "unreachable": neither   *)
(* lost counter updates nor a late "ssh_down" or "online" of a goroutine     *)
(* that read the row earlier keep it from settling, and no collection that   *)
(* hangs in an SSH call.  (The loops do not look at a host whose secret they *)
(* cannot decrypt.)                                                          *)
OutageSettles ==
  ~Sealed /\ <>[](host = "down") => <>[](status \in Unwatched \cup {"unreachable"})

(* A host that refuses the stored key or secret is not shown online for      *)
(* ever, whatever handlers and collections write late; over SSH if SSH calls *)
(* return.  A host whose sshd stalls refuses nothing: it answers ping and    *)
(* TCP, hangs every collection and stays online.                             *)
LoginLossNoticed ==
  (mode = "direct" => SshReturns) =>
    (~Sealed /\ <>[](~LoginOk) => <>[](status # "online"))

(* A host that stays healthy is shown online again, and stays so; over SSH   *)
(* if SSH calls return, since only a collection brings such a server back.   *)
RecoverySettles ==
  (mode = "direct" => SshReturns) =>
    (~Sealed /\ <>[](host = "up") => <>[](status \in Unwatched \cup {"online"}))

(* After a server is removed its goroutines run out and none is started      *)
(* anew; what is left of them at most are those that hang in an SSH call.    *)
RemovalDrains ==
  status = "deleted" ~> [](\A p \in Tasks : task[p].pc = "idle" \/ InSsh(p))

(* The statements and probes a goroutine has at most before it.              *)
StepsLeft(pc) ==
  CASE pc = "idle"              -> 0
    [] pc = "probe"             -> 4
    [] pc = "count"             -> 3
    [] pc \in {"verify", "mark", "logup"} -> 2
    [] OTHER                    -> 1

(* The safety half of RemovalDrains: a server that is removed stays removed, *)
(* no goroutine starts for it, and each that runs only gets nearer its end.  *)
RemovalHolds ==
  [][status = "deleted" =>
       /\ status' = "deleted"
       /\ \A p \in Tasks : task'[p].pc = task[p].pc
             \/ StepsLeft(task'[p].pc) < StepsLeft(task[p].pc)]_vars

(* Nobody decides anything about a server whose gs-netcat secret cannot be   *)
(* decrypted: such a server is neither counted down nor reported, it keeps   *)
(* the status, the counter and the timeline it had.                          *)
NoVerdictWithoutSecret ==
  [][Sealed /\ Exists =>
       UNCHANGED logged /\ (status' = "deleted" \/ UNCHANGED <<status, fails>>)]_vars
=============================================================================
