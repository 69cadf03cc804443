-------------------------------- MODULE SshSlots --------------------------------
(***************************************************************************)
(* SSHManager: how ExecuteCommand and ExecuteBatch share SSH connections.  *)
(* A call takes a slot of the global semaphore, THEN one of its server's   *)
(* semaphore, dials, runs, and its deferred functions give everything back *)
(* in reverse order.  Both semaphores are buffered channels; their lengths *)
(* are the variables globalSem and serverSem.                              *)
(*                                                                         *)
(* Handlers that dial on their own (key injection, connection test,        *)
(* terminals, log streams) are the callers outside Managed.                *)
(***************************************************************************)
EXTENDS Naturals, FiniteSets

CONSTANTS
  Callers,       \* goroutines that use SSH
  Managed,       \* those that go through SSHManager
  Servers,
  ServerOf,      \* [Callers -> Servers]
  MaxGlobal,     \* SSH_MAX_CONCURRENT_GLOBAL
  MaxPerServer,  \* SSH_MAX_CONCURRENT_PER_SERVER
  Stallable      \* servers that may accept TCP and then never answer

ASSUME CallersAssumption   == IsFiniteSet(Callers) /\ Managed \subseteq Callers
ASSUME ServerOfAssumption  == ServerOf \in [Callers -> Servers]
ASSUME MaxAssumption       == MaxGlobal \in Nat /\ MaxPerServer \in Nat
ASSUME StallableAssumption == Stallable \subseteq Servers

VARIABLES
  pc,         \* where each call is
  globalSem,  \* len(m.globalSem)
  serverSem,  \* len of each server's channel in m.serverSems
  stalled     \* servers whose sshd does not answer at the moment

vars == <<pc, globalSem, serverSem, stalled>>

CallSteps == {"idle", "want_global", "want_server", "key", "dial", "session",
              "run", "close", "give_server", "give_global"}

HasGlobal(p) == pc[p] \in {"want_server", "key", "dial", "session", "run",
                           "close", "give_server", "give_global"} /\ p \in Managed
HasServer(p) == pc[p] \in {"key", "dial", "session", "run",
                           "close", "give_server"} /\ p \in Managed
Connected(p) == pc[p] \in {"session", "run", "close"}

GlobalHolders    == {p \in Callers : HasGlobal(p)}
ServerHolders(s) == {p \in Callers : HasServer(p) /\ ServerOf[p] = s}

Step(p, from, to) == pc[p] = from /\ pc' = [pc EXCEPT ![p] = to]

Init ==
  /\ pc = [p \in Callers |-> "idle"]
  /\ globalSem = 0
  /\ serverSem = [s \in Servers |-> 0]
  /\ stalled = {}

Call(p) ==
  /\ Step(p, "idle", IF p \in Managed THEN "want_global" ELSE "dial")
  /\ UNCHANGED <<globalSem, serverSem, stalled>>

(* Mutant: a buffer that is one too long.                                   *)
AcquireGlobalOver(p) ==
  /\ globalSem <= MaxGlobal
  /\ Step(p, "want_global", "want_server")
  /\ globalSem' = globalSem + 1
  /\ UNCHANGED <<serverSem, stalled>>

(* m.globalSem <- struct{}{}                                                *)
AcquireGlobal(p) ==
  /\ globalSem < MaxGlobal
  /\ Step(p, "want_global", "want_server")
  /\ globalSem' = globalSem + 1
  /\ UNCHANGED <<serverSem, stalled>>

(* Mutant: getServerSem makes a new channel for every call.                 *)
AcquireServerAlone(p) ==
  /\ Step(p, "want_server", "key")
  /\ serverSem' = [serverSem EXCEPT ![ServerOf[p]] = @ + 1]
  /\ UNCHANGED <<globalSem, stalled>>

(* srvSem := m.getServerSem(serverID); srvSem <- struct{}{}                 *)
AcquireServer(p) ==
  /\ serverSem[ServerOf[p]] < MaxPerServer
  /\ Step(p, "want_server", "key")
  /\ serverSem' = [serverSem EXCEPT ![ServerOf[p]] = @ + 1]
  /\ UNCHANGED <<globalSem, stalled>>

(* Mutant: the return on a bad key runs before the releases are deferred.   *)
ParseKeyLeaking(p) ==
  /\ Step(p, "key", "dial") \/ Step(p, "key", "idle")
  /\ UNCHANGED <<globalSem, serverSem, stalled>>

(* ParsePrivateKey fails: return, the deferred releases run.                *)
ParseKey(p) ==
  /\ Step(p, "key", "dial") \/ Step(p, "key", "give_server")
  /\ UNCHANGED <<globalSem, serverSem, stalled>>

(* ssh.Dial: its Timeout bounds the TCP connect, not the handshake, so that *)
(* a dial to a stalled server neither succeeds nor fails.                   *)
Dial(p) ==
  /\ ServerOf[p] \notin stalled
  /\ \/ Step(p, "dial", "session")
     \/ Step(p, "dial", IF p \in Managed THEN "give_server" ELSE "idle")
  /\ UNCHANGED <<globalSem, serverSem, stalled>>

(* client.NewSession waits for the answer of the server.                    *)
NewSession(p) ==
  /\ ServerOf[p] \notin stalled
  /\ Step(p, "session", "run") \/ Step(p, "session", "close")
  /\ UNCHANGED <<globalSem, serverSem, stalled>>

(* The command ends or its timeout fires; a batch goes on to its next       *)
(* command with a new session.                                              *)
Run(p) ==
  /\ Step(p, "run", "close") \/ Step(p, "run", "session")
  /\ UNCHANGED <<globalSem, serverSem, stalled>>

CloseClient(p) ==
  /\ Step(p, "close", IF p \in Managed THEN "give_server" ELSE "idle")
  /\ UNCHANGED <<globalSem, serverSem, stalled>>

ReleaseServer(p) ==
  /\ Step(p, "give_server", "give_global")
  /\ serverSem' = [serverSem EXCEPT ![ServerOf[p]] = @ - 1]
  /\ UNCHANGED <<globalSem, stalled>>

ReleaseGlobal(p) ==
  /\ Step(p, "give_global", "idle")
  /\ globalSem' = globalSem - 1
  /\ UNCHANGED <<serverSem, stalled>>

(* A server that stalls stays so here: waking up would only help.           *)
Stall ==
  /\ \E s \in Stallable \ stalled : stalled' = stalled \cup {s}
  /\ UNCHANGED <<pc, globalSem, serverSem>>

Release(p) == CloseClient(p) \/ ReleaseServer(p) \/ ReleaseGlobal(p)
Work(p)    == ParseKey(p) \/ Dial(p) \/ NewSession(p) \/ Release(p)

Next ==
  \/ \E p \in Callers :
       Call(p) \/ AcquireGlobal(p) \/ AcquireServer(p) \/ Work(p) \/ Run(p)
  \/ Stall

Spec == Init /\ [][Next]_vars

(***************************************************************************)
(* Fairness.  A goroutine that can go on does: a server that answers, or   *)
(* refuses, lets the dial end, and commands have a deadline.  Nothing is   *)
(* assumed of a handshake with a server that stalls.  A batch is finite,   *)
(* so that it does not open sessions for ever (EndRun), and the senders    *)
(* blocked on a Go channel are served in order of arrival: strong fairness *)
(* of these, of which a call has at most one enabled at a time.            *)
(***************************************************************************)
EndRun(p) == Step(p, "run", "close") /\ UNCHANGED <<globalSem, serverSem, stalled>>
Served(p) == EndRun(p) \/ AcquireGlobal(p) \/ AcquireServer(p)

Fairness == \A p \in Callers : WF_vars(Work(p)) /\ SF_vars(Served(p))

FairSpec == Spec /\ Fairness
-----------------------------------------------------------------------------
TypeOK ==
  /\ pc \in [Callers -> CallSteps]
  /\ globalSem \in 0 .. MaxGlobal
  /\ serverSem \in [Servers -> 0 .. MaxPerServer]
  /\ stalled \subseteq Stallable

(* No return path keeps a slot or gives one back twice: a semaphore counts  *)
(* exactly the calls between its acquire and its release.                   *)
SlotsConserved ==
  /\ globalSem = Cardinality(GlobalHolders)
  /\ \A s \in Servers : serverSem[s] = Cardinality(ServerHolders(s))

(* The calls that go through the manager never hold more connections than   *)
(* it is configured for, in all and per server; a connection is closed      *)
(* before its slot is given back.                                           *)
ManagedConnectionsBounded ==
  /\ Cardinality({p \in Managed : Connected(p)}) <= MaxGlobal
  /\ \A s \in Servers :
       Cardinality({p \in Managed : Connected(p) /\ ServerOf[p] = s}) <= MaxPerServer

(***************************************************************************)
(* What the manager promises of its channels: one for all calls, and one   *)
(* per server.                                                             *)
(***************************************************************************)
Global == INSTANCE Semaphore WITH
            Pools <- {"all"}, Users <- Managed, Capacity <- MaxGlobal,
            holders <- [c \in {"all"} |-> GlobalHolders]

PerServer == INSTANCE Semaphore WITH
            Pools <- Servers, Users <- Managed, Capacity <- MaxPerServer,
            holders <- [s \in Servers |-> ServerHolders(s)]

(* Both levels implement semaphores: no step of any call, whichever return   *)
(* path of ExecuteCommand or ExecuteBatch it takes, takes a slot beyond the  *)
(* capacity, gives one back that it does not hold, or moves two at once.     *)
SlotsImplementSemaphores == Global!Spec /\ PerServer!Spec

(* As long as every server answers, every call returns, although it waits   *)
(* for a second semaphore while it holds the first.                         *)
EveryCallReturns ==
  [](stalled = {}) => \A p \in Callers : pc[p] # "idle" ~> pc[p] = "idle"

(* What a call waits for is there: its server answers, the channel it sends  *)
(* on has room.                                                              *)
CanGoOn(p) ==
  \/ pc[p] \in {"key", "run", "close", "give_server", "give_global"}
  \/ pc[p] \in {"dial", "session"} /\ ServerOf[p] \notin stalled
  \/ pc[p] = "want_global" /\ globalSem < MaxGlobal
  \/ pc[p] = "want_server" /\ serverSem[ServerOf[p]] < MaxPerServer

(* Calls to servers that hang hold every global slot, the one that dials and *)
(* those that wait behind it for the server's slot alike.                    *)
Exhausted == Cardinality({p \in GlobalHolders : ServerOf[p] \in stalled}) = MaxGlobal

(* The safety half of EveryCallReturns and OnlyExhaustionBlocks, that nobody *)
(* waits in a circle: while a call to a healthy server is under way, some    *)
(* call to a healthy server can go on, unless calls to servers that hang     *)
(* hold all global slots.                                                    *)
NoCircularWait ==
  Cardinality({p \in GlobalHolders : ServerOf[p] \in stalled}) < MaxGlobal /\ MaxPerServer > 0 =>
    \A p \in Callers : pc[p] # "idle" /\ ServerOf[p] \notin stalled =>
      \E q \in Callers : ServerOf[q] \notin stalled /\ CanGoOn(q)

(* A call to a server that always answers returns, whatever the other        *)
(* servers do, unless calls to servers that hang come to hold every global   *)
(* slot.  That does happen, and one such server is enough: its limit is no   *)
(* protection, since a call takes its global slot first and keeps it while   *)
(* it waits for the server's, and metricsLoop adds a call at every tick.     *)
OnlyExhaustionBlocks ==
  \/ <>[]Exhausted
  \/ \A p \in Callers : ServerOf[p] \notin Stallable =>
       (pc[p] # "idle" ~> pc[p] = "idle")
=============================================================================
