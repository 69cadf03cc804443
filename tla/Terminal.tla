-------------------------------- MODULE Terminal --------------------------------
(***************************************************************************)
(* Interactive terminals: HandleTerminal (SSH) and HandleGSTerminal        *)
(* (gs-netcat).  A handler looks at two counters, waits for a TOTP code    *)
(* and for the remote host, and only then counts itself; from there on it  *)
(* waits on stopCh, which any of its goroutines closes.  Its deferred      *)
(* functions take the count back and close the connections, which ends     *)
(* the goroutines that are left.                                           *)
(***************************************************************************)
EXTENDS Integers, FiniteSets

CONSTANTS
  Sessions,     \* requests for a terminal; one is made anew when it is over
  Servers,
  KindOf,       \* [Servers -> {"ssh", "gs"}]: connection_mode, which handler
  Deployments   \* the limits and the wishes of the users to look at

ASSUME SessionsAssumption   == IsFiniteSet(Sessions)
ASSUME KindOfAssumption     == KindOf \in [Servers -> {"ssh", "gs"}]
ASSUME DeploymentAssumption ==
  Deployments \subseteq [limit : Nat, server : [Sessions -> Servers]]

VARIABLES
  deployed,        \* one of Deployments; it does not change
  pc,              \* where each handler is
  activeSessions,  \* the atomic counter
  serverSessions,  \* the counters under serverSessionsMu; 0: no map entry
  stopped,         \* sessions whose stopCh is closed
  live,            \* [Sessions -> SUBSET Goroutines]
  over,            \* [Sessions -> SUBSET Ends]: what has come to an end
  raced            \* history: a handler was let in while another was between
                   \* its check and its count

vars == <<deployed, pc, activeSessions, serverSessions, stopped, live, over, raced>>
counters == <<activeSessions, serverSessions>>

HandlerSteps == {"idle", "check", "check_server", "auth", "dial", "count",
                 "count_server", "start", "run", "uncount", "uncount_server", "release"}
Goroutines   == {"out", "err", "in", "tick", "wait"}
Ends         == {"client", "shell", "token"}

maxSessions == deployed.limit
ServerOf(p) == deployed.server[p]
Kind(p)     == KindOf[ServerOf(p)]

Opening(p) == pc[p] \in {"check_server", "auth", "dial", "count", "count_server"}
Goto(p, to) == pc' = [pc EXCEPT ![p] = to]

Init ==
  /\ deployed \in Deployments
  /\ pc = [p \in Sessions |-> "idle"]
  /\ activeSessions = 0
  /\ serverSessions = [s \in Servers |-> 0]
  /\ stopped = {}
  /\ live = [p \in Sessions |-> {}]
  /\ over = [p \in Sessions |-> Ends]
  /\ raced = FALSE

(***************************************************************************)
(* Opening.                                                                *)
(***************************************************************************)
(* A request with a valid token for a server the user owns.                 *)
Open(p) ==
  /\ pc[p] = "idle" /\ live[p] = {}
  /\ Goto(p, "check")
  /\ stopped' = stopped \ {p}
  /\ over' = [over EXCEPT ![p] = {}]
  /\ UNCHANGED <<counters, live, raced, deployed>>

CheckCap(p) ==
  /\ pc[p] = "check"
  /\ IF activeSessions >= maxSessions
     THEN Goto(p, "idle") /\ UNCHANGED raced
     ELSE /\ Goto(p, "check_server")
          /\ raced' = (raced \/ \E q \in Sessions : Opening(q))
  /\ UNCHANGED <<counters, stopped, live, over, deployed>>

(* Mutant: off by one.                                                      *)
CheckServerOver(p) ==
  /\ pc[p] = "check_server"
  /\ Goto(p, IF serverSessions[ServerOf(p)] > 1 THEN "idle" ELSE "auth")
  /\ UNCHANGED <<counters, stopped, live, over, raced, deployed>>

CheckServer(p) ==
  /\ pc[p] = "check_server"
  /\ Goto(p, IF serverSessions[ServerOf(p)] >= 1 THEN "idle" ELSE "auth")
  /\ UNCHANGED <<counters, stopped, live, over, raced, deployed>>

(* The code is right, or: no answer in 60 s, a wrong code, a missing row.   *)
Authenticate(p) ==
  /\ pc[p] = "auth"
  /\ \/ "client" \notin over[p] /\ Goto(p, IF Kind(p) = "ssh" THEN "dial" ELSE "count")
     \/ Goto(p, "idle")
  /\ UNCHANGED <<counters, stopped, live, over, raced, deployed>>

(* ssh.Dial, NewSession, RequestPty, Shell.                                 *)
DialShell(p) ==
  /\ pc[p] = "dial"
  /\ Goto(p, "count") \/ Goto(p, "idle")
  /\ UNCHANGED <<counters, stopped, live, over, raced, deployed>>

CountActive(p) ==
  /\ pc[p] = "count"
  /\ activeSessions' = activeSessions + 1
  /\ Goto(p, "count_server")
  /\ UNCHANGED <<serverSessions, stopped, live, over, raced, deployed>>

CountServer(p) ==
  /\ pc[p] = "count_server"
  /\ serverSessions' = [serverSessions EXCEPT ![ServerOf(p)] = @ + 1]
  /\ \/ Kind(p) = "ssh" /\ Goto(p, "run")
        /\ live' = [live EXCEPT ![p] = {"out", "in", "tick", "wait"}]
     \/ Kind(p) = "gs" /\ Goto(p, "start") /\ UNCHANGED live
  /\ UNCHANGED <<activeSessions, stopped, over, raced, deployed>>

(* cmd.Start of gs-netcat, after the session was counted.                   *)
StartGs(p) ==
  /\ pc[p] = "start"
  /\ \/ Goto(p, "run") /\ live' = [live EXCEPT ![p] = Goroutines]
     \/ Goto(p, "uncount") /\ UNCHANGED live
  /\ UNCHANGED <<counters, stopped, over, raced, deployed>>

(***************************************************************************)
(* The goroutines of an open session.  conn, the SSH client and the        *)
(* process are closed when the handler is past its release.                *)
(***************************************************************************)
Quit(p, g)       == g \in live[p] /\ live' = [live EXCEPT ![p] = @ \ {g}]
stop(p)          == stopped' = stopped \cup {p}
FrameGoroutine   == UNCHANGED <<pc, counters, over, raced, deployed>>

(* stdout: end of file, or writing to the browser keeps failing.            *)
OutEnds(p)  == over[p] \cap {"shell", "client"} # {} /\ Quit(p, "out") /\ stop(p) /\ FrameGoroutine

(* stderr of gs-netcat: ends alone.                                         *)
ErrEnds(p)  == "shell" \in over[p] /\ Quit(p, "err") /\ UNCHANGED stopped /\ FrameGoroutine

(* The browser closed the socket.                                           *)
InEnds(p)   == "client" \in over[p] /\ Quit(p, "in") /\ stop(p) /\ FrameGoroutine

(* session.Wait or cmd.Wait.                                                *)
WaitEnds(p) == "shell" \in over[p] /\ Quit(p, "wait") /\ stop(p) /\ FrameGoroutine

(* Mutant: the ticker returns without closing stopCh.                       *)
TickEndsAlone(p) ==
  /\ p \in stopped \/ "token" \in over[p]
  /\ Quit(p, "tick") /\ UNCHANGED stopped /\ FrameGoroutine

(* The ticker sees stopCh, an expired token or silence.                     *)
TickEnds(p) ==
  /\ p \in stopped \/ "token" \in over[p]
  /\ Quit(p, "tick") /\ stop(p) /\ FrameGoroutine

(***************************************************************************)
(* Closing.                                                                *)
(***************************************************************************)
(* <-stopCh; HandleGSTerminal kills the process.                            *)
Close(p) ==
  /\ pc[p] = "run" /\ p \in stopped
  /\ Goto(p, "uncount")
  /\ over' = IF Kind(p) = "gs" THEN [over EXCEPT ![p] = @ \cup {"shell"}] ELSE over
  /\ UNCHANGED <<counters, stopped, live, raced, deployed>>

UncountActive(p) ==
  /\ pc[p] = "uncount"
  /\ activeSessions' = activeSessions - 1
  /\ Goto(p, "uncount_server")
  /\ UNCHANGED <<serverSessions, stopped, live, over, raced, deployed>>

(* Mutant: the entry is deleted whatever its value.                         *)
UncountServerAll(p) ==
  /\ pc[p] = "uncount_server"
  /\ serverSessions' = [serverSessions EXCEPT ![ServerOf(p)] = 0]
  /\ Goto(p, "release")
  /\ UNCHANGED <<activeSessions, stopped, live, over, raced, deployed>>

UncountServer(p) ==
  /\ pc[p] = "uncount_server"
  /\ serverSessions' = [serverSessions EXCEPT ![ServerOf(p)] = @ - 1]
  /\ Goto(p, "release")
  /\ UNCHANGED <<activeSessions, stopped, live, over, raced, deployed>>

(* session.Close, sshClient.Close, conn.Close.                              *)
Release(p) ==
  /\ pc[p] = "release"
  /\ Goto(p, "idle")
  /\ over' = [over EXCEPT ![p] = @ \cup {"shell", "client"}]
  /\ UNCHANGED <<counters, stopped, live, raced, deployed>>

(* The browser goes away, the shell exits, the access token expires or (in  *)
(* an SSH terminal) nothing is typed for 15 minutes.                        *)
Happens(p, e) ==
  /\ pc[p] # "idle" /\ e \notin over[p]
  /\ e = "client" \/ pc[p] = "run"
  /\ over' = [over EXCEPT ![p] = @ \cup {e}]
  /\ UNCHANGED <<pc, counters, stopped, live, raced, deployed>>

Handler(p) ==
  \/ CheckCap(p) \/ CheckServer(p) \/ Authenticate(p) \/ DialShell(p)
  \/ CountActive(p) \/ CountServer(p) \/ StartGs(p)
  \/ Close(p) \/ UncountActive(p) \/ UncountServer(p) \/ Release(p)

Goroutine(p) == OutEnds(p) \/ ErrEnds(p) \/ InEnds(p) \/ WaitEnds(p) \/ TickEnds(p)

Next == \E p \in Sessions :
  Open(p) \/ Handler(p) \/ Goroutine(p) \/ \E e \in Ends : Happens(p, e)

Spec == Init /\ [][Next]_vars

(* Goroutines run; the dial and the wait for the code have deadlines.       *)
Fairness == \A p \in Sessions : WF_vars(Handler(p)) /\ WF_vars(Goroutine(p))
FairSpec == Spec /\ Fairness
-----------------------------------------------------------------------------
Counted(p)       == pc[p] \in {"count_server", "start", "run", "uncount"}
CountedServer(p) == pc[p] \in {"start", "run", "uncount", "uncount_server"}

TypeOK ==
  /\ deployed \in Deployments
  /\ pc \in [Sessions -> HandlerSteps]
  /\ activeSessions \in Nat
  /\ serverSessions \in [Servers -> Nat]
  /\ stopped \subseteq Sessions
  /\ live \in [Sessions -> SUBSET Goroutines]
  /\ over \in [Sessions -> SUBSET Ends]
  /\ raced \in BOOLEAN

(* The two counters never drift from the sessions between their increment   *)
(* and their decrement, so neither a failed start nor any way for a session *)
(* to end locks a user out of terminals, or lets one in too many.           *)
CountersExact ==
  /\ activeSessions = Cardinality({p \in Sessions : Counted(p)})
  /\ \A s \in Servers : serverSessions[s] =
       Cardinality({p \in Sessions : CountedServer(p) /\ ServerOf(p) = s})

(* When terminals are opened one after the other the limits hold.           *)
SerialOpensBounded ==
  ~raced => /\ activeSessions <= maxSessions
            /\ \A s \in Servers : serverSessions[s] <= 1

(* The safety half of SessionTornDown.  As long as stopCh is open, everybody *)
(* who may close it is there; and whoever is left when the handler has       *)
(* returned finds stopCh, the shell and the socket closed, so that he ends.  *)
TeardownReady ==
  \A p \in Sessions :
    /\ pc[p] = "run" /\ p \notin stopped => {"out", "in", "tick", "wait"} \subseteq live[p]
    /\ pc[p] = "idle" /\ live[p] # {} => p \in stopped /\ {"client", "shell"} \subseteq over[p]

(* A session whose browser is gone, whose shell has exited or whose token   *)
(* has expired is torn down, with every goroutine it started.               *)
SessionTornDown ==
  \A p \in Sessions : (pc[p] = "run" /\ over[p] # {}) ~> (pc[p] = "idle" /\ live[p] = {})
=============================================================================
