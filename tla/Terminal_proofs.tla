----------------------------- MODULE Terminal_proofs -----------------------------
(***************************************************************************)
(* Proofs about Terminal: the two counters are exact, for any number of    *)
(* sessions, servers and limits, and terminals opened one after the other  *)
(* keep the limits.                                                        *)
(***************************************************************************)
EXTENDS Terminal, FiniteSetTheorems, TLAPS

ActiveSteps == {"count_server", "start", "run", "uncount"}
ServerSteps == {"start", "run", "uncount", "uncount_server"}

ActiveOnes  == {p \in Sessions : Counted(p)}
OnServer(s) == {p \in Sessions : CountedServer(p) /\ ServerOf(p) = s}

(* What every step of a session's handler does to pc and deployed.           *)
Moves(p, from, to) == Goto(p, to) /\ pc[p] = from /\ deployed' = deployed

Inv == TypeOK /\ CountersExact

-----------------------------------------------------------------------------
(* Every session is for one of the servers.                                  *)
LEMMA ServerTyped == ASSUME TypeOK PROVE \A p \in Sessions : ServerOf(p) \in Servers
BY DeploymentAssumption DEF TypeOK, ServerOf

(* Finitely many sessions are counted.                                       *)
LEMMA CountedFinite ==
  /\ IsFiniteSet(ActiveOnes)
  /\ \A s \in Servers : IsFiniteSet(OnServer(s))
<1>1. ActiveOnes \subseteq Sessions /\ \A s \in Servers : OnServer(s) \subseteq Sessions
  BY DEF ActiveOnes, OnServer
<1> QED BY <1>1, SessionsAssumption, FS_Subset

(* Who is counted after a session has moved on.                              *)
LEMMA CountedAfter ==
  ASSUME TypeOK, NEW p \in Sessions, NEW from, NEW to, Moves(p, from, to)
  PROVE  /\ ActiveOnes' =
              IF to \in ActiveSteps THEN ActiveOnes \cup {p} ELSE ActiveOnes \ {p}
         /\ \A s \in Servers : OnServer(s)' =
              IF to \in ServerSteps /\ ServerOf(p) = s THEN OnServer(s) \cup {p} ELSE OnServer(s) \ {p}
         /\ p \in ActiveOnes <=> from \in ActiveSteps
         /\ \A s \in Servers : p \in OnServer(s) <=> (from \in ServerSteps /\ ServerOf(p) = s)
<1>1. \A q \in Sessions : pc'[q] = IF q = p THEN to ELSE pc[q]
  BY DEF TypeOK, Moves, Goto
<1>2. pc[p] = from /\ \A q \in Sessions : ServerOf(q)' = ServerOf(q)
  BY DEF Moves, ServerOf
<1>3. ActiveOnes' = IF to \in ActiveSteps THEN ActiveOnes \cup {p} ELSE ActiveOnes \ {p}
  BY <1>1 DEF ActiveOnes, Counted, ActiveSteps
<1>4. \A s \in Servers : OnServer(s)' =
        IF to \in ServerSteps /\ ServerOf(p) = s THEN OnServer(s) \cup {p} ELSE OnServer(s) \ {p}
  <2> SUFFICES ASSUME NEW s \in Servers
               PROVE  OnServer(s)' =
                 IF to \in ServerSteps /\ ServerOf(p) = s THEN OnServer(s) \cup {p} ELSE OnServer(s) \ {p}
    OBVIOUS
  <2>1. OnServer(s)' = {q \in Sessions : CountedServer(q)' /\ ServerOf(q) = s}
    BY <1>2 DEF OnServer
  <2>2. \A q \in Sessions : CountedServer(q)' = IF q = p THEN to \in ServerSteps ELSE CountedServer(q)
    BY <1>1 DEF CountedServer, ServerSteps
  <2>3. CASE to \in ServerSteps /\ ServerOf(p) = s
    BY <2>1, <2>2, <2>3 DEF OnServer
  <2>4. CASE ~(to \in ServerSteps /\ ServerOf(p) = s)
    BY <2>1, <2>2, <2>4 DEF OnServer
  <2> QED BY <2>3, <2>4
<1>5. p \in ActiveOnes <=> from \in ActiveSteps
  BY <1>2 DEF ActiveOnes, Counted, ActiveSteps
<1>6. \A s \in Servers : p \in OnServer(s) <=> (from \in ServerSteps /\ ServerOf(p) = s)
  BY <1>2 DEF OnServer, CountedServer, ServerSteps
<1> QED BY <1>3, <1>4, <1>5, <1>6

(* A move that neither enters nor leaves the steps between count and uncount.*)
LEMMA SameCounted ==
  ASSUME TypeOK, NEW p \in Sessions, NEW from, NEW to, Moves(p, from, to)
  PROVE  /\ (from \in ActiveSteps <=> to \in ActiveSteps) => ActiveOnes' = ActiveOnes
         /\ \A s \in Servers :
              (ServerOf(p) = s => (from \in ServerSteps <=> to \in ServerSteps))
              => OnServer(s)' = OnServer(s)
<1>1. ASSUME from \in ActiveSteps <=> to \in ActiveSteps
      PROVE  ActiveOnes' = ActiveOnes
  <2>1. CASE p \in ActiveOnes
    BY <1>1, <2>1, CountedAfter
  <2>2. CASE p \notin ActiveOnes
    BY <1>1, <2>2, CountedAfter
  <2> QED BY <2>1, <2>2
<1>2. ASSUME NEW s \in Servers, ServerOf(p) = s => (from \in ServerSteps <=> to \in ServerSteps)
      PROVE  OnServer(s)' = OnServer(s)
  <2>1. /\ OnServer(s)' =
             IF to \in ServerSteps /\ ServerOf(p) = s THEN OnServer(s) \cup {p} ELSE OnServer(s) \ {p}
        /\ p \in OnServer(s) <=> (from \in ServerSteps /\ ServerOf(p) = s)
    BY CountedAfter
  <2>2. CASE p \in OnServer(s)
    BY <1>2, <2>1, <2>2
  <2>3. CASE p \notin OnServer(s)
    BY <1>2, <2>1, <2>3
  <2> QED BY <2>2, <2>3
<1> QED BY <1>1, <1>2

(* CountersExact in terms of the sets that are counted.                      *)
LEMMA ExactIs ==
  CountersExact <=> /\ activeSessions = Cardinality(ActiveOnes)
                    /\ \A s \in Servers : serverSessions[s] = Cardinality(OnServer(s))
BY DEF CountersExact, ActiveOnes, OnServer

(* The same in the next state.                                               *)
LEMMA ExactIsNext ==
  CountersExact' <=> /\ activeSessions' = Cardinality(ActiveOnes')
                     /\ \A s \in Servers : serverSessions'[s] = Cardinality(OnServer(s)')
BY DEF CountersExact, ActiveOnes, OnServer

-----------------------------------------------------------------------------
(* A move that counts nothing keeps the counters exact.                      *)
LEMMA MoveKeeps ==
  ASSUME Inv, NEW p \in Sessions, NEW from, NEW to, Moves(p, from, to), UNCHANGED counters,
         from \in ActiveSteps <=> to \in ActiveSteps, from \in ServerSteps <=> to \in ServerSteps
  PROVE  CountersExact' /\ activeSessions' \in Nat /\ serverSessions' \in [Servers -> Nat]
BY SameCounted, ExactIs, ExactIsNext DEF Inv, TypeOK, counters

(* The four steps that count change a counter and the set it counts alike.   *)
(* Entering the global count:                                                *)
LEMMA CountActiveKeeps ==
  ASSUME Inv, NEW p \in Sessions, CountActive(p)
  PROVE  CountersExact' /\ activeSessions' \in Nat /\ serverSessions' \in [Servers -> Nat]
<1>1. Moves(p, "count", "count_server")
  BY DEF CountActive, Moves
<1>2. ActiveOnes' = ActiveOnes \cup {p} /\ p \notin ActiveOnes
  BY <1>1, CountedAfter DEF Inv, ActiveSteps
<1>3. \A s \in Servers : OnServer(s)' = OnServer(s)
  BY <1>1, SameCounted DEF Inv, ServerSteps
<1>4. Cardinality(ActiveOnes') = Cardinality(ActiveOnes) + 1
  BY <1>2, CountedFinite, FS_AddElement
<1> QED BY <1>3, <1>4, ExactIs, ExactIsNext DEF Inv, TypeOK, CountActive

(* Leaving the global count.                                                 *)
LEMMA UncountActiveKeeps ==
  ASSUME Inv, NEW p \in Sessions, UncountActive(p)
  PROVE  CountersExact' /\ activeSessions' \in Nat /\ serverSessions' \in [Servers -> Nat]
<1>1. Moves(p, "uncount", "uncount_server")
  BY DEF UncountActive, Moves
<1>2. ActiveOnes' = ActiveOnes \ {p} /\ p \in ActiveOnes
  BY <1>1, CountedAfter DEF Inv, ActiveSteps
<1>3. \A s \in Servers : OnServer(s)' = OnServer(s)
  BY <1>1, SameCounted DEF Inv, ServerSteps
<1>4. Cardinality(ActiveOnes') = Cardinality(ActiveOnes) - 1 /\ Cardinality(ActiveOnes') \in Nat
  BY <1>2, CountedFinite, FS_RemoveElement, FS_CardinalityType
<1> QED BY <1>3, <1>4, ExactIs, ExactIsNext DEF Inv, TypeOK, UncountActive

(* Entering the count of the server.                                         *)
LEMMA CountServerKeeps ==
  ASSUME Inv, NEW p \in Sessions, CountServer(p)
  PROVE  CountersExact' /\ activeSessions' \in Nat /\ serverSessions' \in [Servers -> Nat]
<1>1. PICK to \in {"start", "run"} : Moves(p, "count_server", to)
  BY DEF CountServer, Moves
<1>s. PICK s \in Servers : s = ServerOf(p)
  BY ServerTyped DEF Inv
<1>2. OnServer(s)' = OnServer(s) \cup {p} /\ p \notin OnServer(s)
  BY <1>1, <1>s, CountedAfter DEF Inv, ServerSteps
<1>3. ActiveOnes' = ActiveOnes /\ \A r \in Servers \ {s} : OnServer(r)' = OnServer(r)
  BY <1>1, <1>s, SameCounted DEF Inv, ActiveSteps
<1>4. Cardinality(OnServer(s)') = Cardinality(OnServer(s)) + 1
  BY <1>2, <1>s, CountedFinite, FS_AddElement
<1>5. serverSessions' = [serverSessions EXCEPT ![s] = @ + 1] /\ activeSessions' = activeSessions
  BY <1>s DEF CountServer
<1> QED BY <1>s, <1>3, <1>4, <1>5, ExactIs, ExactIsNext DEF Inv, TypeOK

(* Leaving the count of the server.                                          *)
LEMMA UncountServerKeeps ==
  ASSUME Inv, NEW p \in Sessions, UncountServer(p)
  PROVE  CountersExact' /\ activeSessions' \in Nat /\ serverSessions' \in [Servers -> Nat]
<1>1. Moves(p, "uncount_server", "release")
  BY DEF UncountServer, Moves
<1>s. PICK s \in Servers : s = ServerOf(p)
  BY ServerTyped DEF Inv
<1>2. OnServer(s)' = OnServer(s) \ {p} /\ p \in OnServer(s)
  BY <1>1, <1>s, CountedAfter DEF Inv, ServerSteps
<1>3. ActiveOnes' = ActiveOnes /\ \A r \in Servers \ {s} : OnServer(r)' = OnServer(r)
  BY <1>1, <1>s, SameCounted DEF Inv, ActiveSteps
<1>4. /\ Cardinality(OnServer(s)') = Cardinality(OnServer(s)) - 1
      /\ Cardinality(OnServer(s)') \in Nat
  BY <1>2, <1>s, CountedFinite, FS_RemoveElement, FS_CardinalityType
<1>5. serverSessions' = [serverSessions EXCEPT ![s] = @ - 1] /\ activeSessions' = activeSessions
  BY <1>s DEF UncountServer
<1>6. serverSessions[s] - 1 \in Nat
  BY <1>s, <1>4, ExactIs DEF Inv
<1> QED BY <1>s, <1>3, <1>4, <1>5, <1>6, ExactIs, ExactIsNext DEF Inv, TypeOK

(* The steps that count nothing.                                             *)
LEMMA OtherMovesKeep ==
  ASSUME Inv, NEW p \in Sessions,
         \/ Open(p) \/ CheckCap(p) \/ CheckServer(p) \/ Authenticate(p) \/ DialShell(p)
         \/ StartGs(p) \/ Close(p) \/ Release(p)
  PROVE  CountersExact' /\ activeSessions' \in Nat /\ serverSessions' \in [Servers -> Nat]
<1>1. PICK from, to :
        /\ Moves(p, from, to) /\ UNCHANGED counters
        /\ \/ from \in {"idle", "check", "check_server", "auth", "dial", "release"}
              /\ to \in {"idle", "check", "check_server", "auth", "dial", "count"}
           \/ from \in {"start", "run"} /\ to \in {"run", "uncount"}
  BY DEF Open, CheckCap, CheckServer, Authenticate, DialShell, StartGs, Close, Release, Moves, counters
<1> QED BY <1>1, MoveKeeps DEF ActiveSteps, ServerSteps

(* Steps that leave pc and the counters alone.                               *)
LEMMA StandsStill ==
  ASSUME Inv, UNCHANGED <<pc, counters, deployed>>
  PROVE  CountersExact' /\ activeSessions' \in Nat /\ serverSessions' \in [Servers -> Nat]
BY DEF Inv, TypeOK, CountersExact, Counted, CountedServer, ServerOf, counters

(* Every step keeps the counters exact.                                      *)
LEMMA CountersStep ==
  ASSUME Inv, [Next]_vars
  PROVE  CountersExact' /\ activeSessions' \in Nat /\ serverSessions' \in [Servers -> Nat]
<1>1. CASE UNCHANGED vars
  BY <1>1, StandsStill DEF vars, counters
<1>2. ASSUME NEW p \in Sessions, Goroutine(p) \/ \E e \in Ends : Happens(p, e)
      PROVE  UNCHANGED <<pc, counters, deployed>>
  BY <1>2 DEF Goroutine, OutEnds, ErrEnds, InEnds, WaitEnds, TickEnds, FrameGoroutine, Happens
<1>3. ASSUME NEW p \in Sessions,
             Open(p) \/ Handler(p) \/ Goroutine(p) \/ \E e \in Ends : Happens(p, e)
      PROVE  CountersExact' /\ activeSessions' \in Nat /\ serverSessions' \in [Servers -> Nat]
  BY <1>2, <1>3, StandsStill, OtherMovesKeep, CountActiveKeeps, CountServerKeeps,
     UncountActiveKeeps, UncountServerKeeps DEF Handler
<1> QED BY <1>1, <1>3 DEF Next

(* The other variables keep their types in every step.                       *)
LEMMA TypeStep ==
  ASSUME TypeOK, [Next]_vars, activeSessions' \in Nat, serverSessions' \in [Servers -> Nat]
  PROVE  TypeOK'
<1> USE DEF TypeOK
<1>1. CASE UNCHANGED vars
  BY <1>1 DEF vars
<1>2. ASSUME NEW p \in Sessions, Goroutine(p)
      PROVE  TypeOK'
  BY <1>2 DEF Goroutine, OutEnds, ErrEnds, InEnds, WaitEnds, TickEnds, FrameGoroutine, Quit, stop
<1>3. ASSUME NEW p \in Sessions, NEW e \in Ends, Happens(p, e)
      PROVE  TypeOK'
  BY <1>3 DEF Happens
<1>4. ASSUME NEW p \in Sessions,
             Open(p) \/ CheckCap(p) \/ CheckServer(p) \/ Authenticate(p) \/ DialShell(p)
      PROVE  TypeOK'
  BY <1>4 DEF Open, CheckCap, CheckServer, Authenticate, DialShell, Goto, HandlerSteps, counters
<1>5. ASSUME NEW p \in Sessions, CountActive(p) \/ CountServer(p) \/ StartGs(p)
      PROVE  TypeOK'
  BY <1>5 DEF CountActive, CountServer, StartGs, Goto, HandlerSteps, Goroutines, counters
<1>6. ASSUME NEW p \in Sessions, Close(p) \/ UncountActive(p) \/ UncountServer(p) \/ Release(p)
      PROVE  TypeOK'
  BY <1>6 DEF Close, UncountActive, UncountServer, Release, Goto, HandlerSteps, Ends, counters
<1> QED BY <1>1, <1>2, <1>3, <1>4, <1>5, <1>6 DEF Next, Handler

(* The invariant is inductive.                                               *)
LEMMA InvStep == Inv /\ [Next]_vars => Inv'
BY CountersStep, TypeStep DEF Inv

(* The invariant holds at the beginning.                                     *)
LEMMA InvInit == Init => Inv
<1> SUFFICES ASSUME Init PROVE Inv
  OBVIOUS
<1>1. ActiveOnes = {} /\ \A s \in Servers : OnServer(s) = {}
  BY DEF Init, ActiveOnes, OnServer, Counted, CountedServer
<1>2. CountersExact
  BY <1>1, ExactIs, FS_EmptySet DEF Init
<1>3. TypeOK
  BY DEF Init, TypeOK, HandlerSteps
<1> QED BY <1>2, <1>3 DEF Inv

(* The invariant holds in every reachable state.                             *)
LEMMA InvAlways == Spec => []Inv
BY InvInit, InvStep, PTL DEF Spec

(* The variables keep their types; in particular no counter falls below 0.   *)
THEOREM TerminalTypeCorrect == Spec => []TypeOK
<1>1. Inv => TypeOK
  BY DEF Inv
<1> QED BY <1>1, InvAlways, PTL

(* However sessions fail to open or end, the counters are those of the       *)
(* sessions between their increment and their decrement.                     *)
THEOREM CountersAreExact == Spec => []CountersExact
<1>1. Inv => CountersExact
  BY DEF Inv
<1> QED BY <1>1, InvAlways, PTL
-----------------------------------------------------------------------------
(* Why the limits hold when nobody was let in while another session was      *)
(* opening: then at most one session opens, and what it found at its checks  *)
(* is still true when it is counted.                                         *)
Limits     == activeSessions <= maxSessions /\ \A s \in Servers : serverSessions[s] <= 1
OneOpening == \A p, q \in Sessions : Opening(p) /\ Opening(q) => p = q
RoomLeft   == \A p \in Sessions :
                pc[p] \in {"check_server", "auth", "dial", "count"} => activeSessions < maxSessions
ServerFree == \A p \in Sessions :
                pc[p] \in {"auth", "dial", "count", "count_server"} => serverSessions[ServerOf(p)] = 0

Alone     == Limits /\ OneOpening /\ RoomLeft /\ ServerFree
SerialInv == ~raced => Alone

(* A session that leaves, or does not begin to open, while nothing is        *)
(* counted.                                                                  *)
LEMMA AwayKeeps ==
  ASSUME TypeOK, Alone, UNCHANGED <<counters, deployed>>,
         \A q \in Sessions : Opening(q)' => pc'[q] = pc[q]
  PROVE  Alone'
<1>1. Limits' /\ \A q \in Sessions : ServerOf(q)' = ServerOf(q)
  BY DEF Alone, Limits, counters, maxSessions, ServerOf
<1>2. OneOpening'
  BY DEF Alone, OneOpening, Opening
<1>3. RoomLeft'
  BY DEF Alone, RoomLeft, Opening, counters, maxSessions
<1>4. ServerFree'
  BY <1>1 DEF Alone, ServerFree, Opening, counters
<1> QED BY <1>1, <1>2, <1>3, <1>4 DEF Alone

(* A session that goes on from one step of opening to another.               *)
LEMMA OnwardKeeps ==
  ASSUME TypeOK, Alone, UNCHANGED <<counters, deployed>>,
         NEW p \in Sessions, NEW to \in {"auth", "dial", "count"}, Goto(p, to),
         pc[p] \in {"check_server", "auth", "dial"},
         serverSessions[ServerOf(p)] = 0
  PROVE  Alone'
<1>1. \A q \in Sessions : pc'[q] = IF q = p THEN to ELSE pc[q]
  BY DEF TypeOK, Goto
<1>2. Limits' /\ \A q \in Sessions : ServerOf(q)' = ServerOf(q)
  BY DEF Alone, Limits, counters, maxSessions, ServerOf
<1>3. OneOpening'
  BY <1>1 DEF Alone, OneOpening, Opening
<1>4. RoomLeft'
  BY <1>1 DEF Alone, RoomLeft, counters, maxSessions
<1>5. ServerFree'
  BY <1>1, <1>2 DEF Alone, ServerFree, counters
<1> QED BY <1>2, <1>3, <1>4, <1>5 DEF Alone

(* A session that passes the first check alone finds room.                   *)
LEMMA CheckCapKeeps ==
  ASSUME TypeOK, Alone, NEW p \in Sessions, CheckCap(p), ~raced'
  PROVE  Alone'
<1>1. CASE activeSessions >= maxSessions
  <2>1. Goto(p, "idle") /\ UNCHANGED <<counters, deployed>>
    BY <1>1 DEF CheckCap
  <2> QED BY <2>1, AwayKeeps DEF Goto, TypeOK, Opening
<1>2. CASE ~(activeSessions >= maxSessions)
  <2>1. Goto(p, "check_server") /\ UNCHANGED <<counters, deployed>> /\ ~\E q \in Sessions : Opening(q)
    BY <1>2 DEF CheckCap
  <2>2. \A q \in Sessions : pc'[q] = IF q = p THEN "check_server" ELSE pc[q]
    BY <2>1 DEF TypeOK, Goto
  <2>3. maxSessions \in Nat /\ activeSessions < maxSessions
    BY <1>2, DeploymentAssumption DEF TypeOK, maxSessions
  <2>4. Limits'
    BY <2>1 DEF Alone, Limits, counters, maxSessions
  <2>5. OneOpening' /\ ServerFree'
    BY <2>1, <2>2 DEF OneOpening, ServerFree, Opening
  <2>6. RoomLeft'
    BY <2>1, <2>3 DEF RoomLeft, counters, maxSessions
  <2> QED BY <2>4, <2>5, <2>6 DEF Alone
<1> QED BY <1>1, <1>2

(* At the second check it finds its server free.                             *)
LEMMA CheckServerKeeps ==
  ASSUME TypeOK, Alone, NEW p \in Sessions, CheckServer(p)
  PROVE  Alone'
<1>1. UNCHANGED <<counters, deployed>> /\ pc[p] = "check_server"
  BY DEF CheckServer
<1>2. CASE serverSessions[ServerOf(p)] >= 1
  <2>1. Goto(p, "idle")
    BY <1>2 DEF CheckServer
  <2> QED BY <1>1, <2>1, AwayKeeps DEF Goto, TypeOK, Opening
<1>3. CASE ~(serverSessions[ServerOf(p)] >= 1)
  <2>1. Goto(p, "auth")
    BY <1>3 DEF CheckServer
  <2>2. serverSessions[ServerOf(p)] = 0
    BY <1>3, ServerTyped DEF TypeOK
  <2> QED BY <1>1, <2>1, <2>2, OnwardKeeps
<1> QED BY <1>2, <1>3

(* Both stay so while it authenticates and dials.                            *)
LEMMA DialKeeps ==
  ASSUME TypeOK, Alone, NEW p \in Sessions, Authenticate(p) \/ DialShell(p)
  PROVE  Alone'
<1>1. UNCHANGED <<counters, deployed>> /\ pc[p] \in {"auth", "dial"}
  BY DEF Authenticate, DialShell
<1>2. CASE Goto(p, "idle")
  BY <1>1, <1>2, AwayKeeps DEF Goto, TypeOK, Opening
<1>3. ASSUME NEW to \in {"dial", "count"}, Goto(p, to)
      PROVE  Alone'
  <2>1. serverSessions[ServerOf(p)] = 0
    BY <1>1 DEF Alone, ServerFree
  <2> QED BY <1>1, <1>3, <2>1, OnwardKeeps
<1> QED BY <1>2, <1>3 DEF Authenticate, DialShell

(* Both still hold when it is counted.                                       *)
LEMMA CountKeeps ==
  ASSUME TypeOK, Alone, NEW p \in Sessions, CountActive(p) \/ CountServer(p)
  PROVE  Alone'
<1>1. deployed' = deployed /\ \A q \in Sessions : ServerOf(q)' = ServerOf(q)
  BY DEF CountActive, CountServer, ServerOf
<1>2. PICK s \in Servers : s = ServerOf(p)
  BY ServerTyped
<1>3. Opening(p)
  BY DEF CountActive, CountServer, Opening
<1>4. \A q \in Sessions \ {p} : ~Opening(q)
  BY <1>3 DEF Alone, OneOpening
<1>5. CASE CountActive(p)
  <2>1. \A q \in Sessions : pc'[q] = IF q = p THEN "count_server" ELSE pc[q]
    BY <1>5 DEF CountActive, Goto, TypeOK
  <2>2. pc[p] = "count" /\ activeSessions' = activeSessions + 1 /\ serverSessions' = serverSessions
    BY <1>5 DEF CountActive
  <2>3. maxSessions \in Nat /\ maxSessions' = maxSessions
    BY <1>1, DeploymentAssumption DEF TypeOK, maxSessions
  <2>4. Limits'
    BY <2>2, <2>3 DEF Alone, Limits, RoomLeft, TypeOK
  <2>5. OneOpening' /\ RoomLeft'
    BY <1>4, <2>1 DEF OneOpening, RoomLeft, Opening
  <2>6. ServerFree'
    BY <1>1, <1>4, <2>1, <2>2 DEF Alone, ServerFree, Opening
  <2> QED BY <2>4, <2>5, <2>6 DEF Alone
<1>6. CASE CountServer(p)
  <2>1. PICK to \in {"start", "run"} : \A q \in Sessions : pc'[q] = IF q = p THEN to ELSE pc[q]
    BY <1>6 DEF CountServer, Goto, TypeOK
  <2>2. /\ pc[p] = "count_server" /\ activeSessions' = activeSessions
        /\ serverSessions' = [serverSessions EXCEPT ![s] = @ + 1]
    BY <1>2, <1>6 DEF CountServer
  <2>3. serverSessions[s] = 0
    BY <1>2, <2>2 DEF Alone, ServerFree
  <2>4. Limits'
    BY <1>1, <2>2, <2>3 DEF Alone, Limits, TypeOK, maxSessions
  <2>5. \A q \in Sessions : ~Opening(q)'
    BY <1>4, <2>1 DEF Opening
  <2>6. OneOpening' /\ RoomLeft' /\ ServerFree'
    BY <2>5 DEF OneOpening, RoomLeft, ServerFree, Opening
  <2> QED BY <2>4, <2>6 DEF Alone
<1> QED BY <1>5, <1>6

(* A session that is taken off the counts only makes room.                   *)
LEMMA UncountKeeps ==
  ASSUME TypeOK, TypeOK', Alone, NEW p \in Sessions, UncountActive(p) \/ UncountServer(p)
  PROVE  Alone'
<1>1. deployed' = deployed /\ \A q \in Sessions : ServerOf(q)' = ServerOf(q)
  BY DEF UncountActive, UncountServer, ServerOf
<1>2. maxSessions \in Nat /\ maxSessions' = maxSessions
  BY <1>1, DeploymentAssumption DEF TypeOK, maxSessions
<1>3. \A q \in Sessions : Opening(q)' => pc'[q] = pc[q]
  BY DEF UncountActive, UncountServer, Goto, TypeOK, Opening
<1>4. activeSessions' <= activeSessions /\ \A s \in Servers : serverSessions'[s] <= serverSessions[s]
  <2>1. CASE UncountActive(p)
    BY <2>1 DEF UncountActive, TypeOK
  <2>2. CASE UncountServer(p)
    BY <2>2 DEF UncountServer, TypeOK
  <2> QED BY <2>1, <2>2
<1>5. Limits'
  BY <1>2, <1>4 DEF Alone, Limits, TypeOK
<1>6. OneOpening'
  BY <1>3 DEF Alone, OneOpening, Opening
<1>7. RoomLeft'
  BY <1>2, <1>3, <1>4 DEF Alone, RoomLeft, Opening, TypeOK
<1>8. ServerFree'
  <2> SUFFICES ASSUME NEW q \in Sessions, pc'[q] \in {"auth", "dial", "count", "count_server"}
               PROVE  serverSessions'[ServerOf(q)] = 0
    BY <1>1 DEF ServerFree
  <2>1. serverSessions[ServerOf(q)] = 0 /\ ServerOf(q) \in Servers
    BY <1>3, ServerTyped DEF Alone, ServerFree, Opening
  <2> QED BY <1>4, <2>1 DEF TypeOK
<1> QED BY <1>5, <1>6, <1>7, <1>8 DEF Alone

(* SerialInv is inductive.                                                   *)
LEMMA SerialStep == TypeOK /\ TypeOK' /\ SerialInv /\ [Next]_vars => SerialInv'
<1> SUFFICES ASSUME TypeOK, TypeOK', SerialInv, [Next]_vars, ~raced' PROVE Alone'
  BY DEF SerialInv
<1>1. ~raced
  BY DEF Next, Handler, Goroutine, Open, CheckCap, CheckServer, Authenticate, DialShell, CountActive,
         CountServer, StartGs, Close, UncountActive, UncountServer, Release, OutEnds, ErrEnds, InEnds,
         WaitEnds, TickEnds, FrameGoroutine, Happens, vars
<1>2. Alone
  BY <1>1 DEF SerialInv
<1>3. CASE UNCHANGED vars
  BY <1>2, <1>3, AwayKeeps DEF vars, counters
<1>4. ASSUME NEW p \in Sessions, Goroutine(p) \/ \E e \in Ends : Happens(p, e)
      PROVE  Alone'
  <2>1. UNCHANGED <<pc, counters, deployed>>
    BY <1>4 DEF Goroutine, OutEnds, ErrEnds, InEnds, WaitEnds, TickEnds, FrameGoroutine, Happens
  <2> QED BY <1>2, <2>1, AwayKeeps
<1>5. ASSUME NEW p \in Sessions, Open(p) \/ StartGs(p) \/ Close(p) \/ Release(p)
      PROVE  Alone'
  <2>1. UNCHANGED <<counters, deployed>>
    BY <1>5 DEF Open, StartGs, Close, Release
  <2>2. PICK to \in {"check", "run", "uncount", "idle"} : Goto(p, to)
    BY <1>5 DEF Open, StartGs, Close, Release
  <2>3. \A q \in Sessions : Opening(q)' => pc'[q] = pc[q]
    BY <2>2 DEF Goto, TypeOK, Opening
  <2> QED BY <1>2, <2>1, <2>3, AwayKeeps
<1>6. ASSUME NEW p \in Sessions,
             Open(p) \/ Handler(p) \/ Goroutine(p) \/ \E e \in Ends : Happens(p, e)
      PROVE  Alone'
  BY <1>2, <1>4, <1>5, <1>6, CheckCapKeeps, CheckServerKeeps, DialKeeps, CountKeeps, UncountKeeps
     DEF Handler
<1> QED BY <1>3, <1>6 DEF Next

(* SerialInv holds at the beginning.                                         *)
LEMMA SerialInit == Init => SerialInv
<1> SUFFICES ASSUME Init PROVE Alone
  BY DEF SerialInv
<1>1. maxSessions \in Nat
  BY DeploymentAssumption DEF Init, maxSessions
<1> QED BY <1>1 DEF Init, Alone, Limits, OneOpening, RoomLeft, ServerFree, Opening

(* Terminals that are opened one after the other keep the limit, and there   *)
(* is at most one per server, for any limit and any number of sessions.      *)
THEOREM SerialOpensKeepLimits == Spec => []SerialOpensBounded
<1>1. Spec => []TypeOK
  BY TerminalTypeCorrect
<1>2. SerialInv => SerialOpensBounded
  BY DEF SerialInv, Alone, Limits, SerialOpensBounded
<1> QED BY <1>1, <1>2, SerialInit, SerialStep, PTL DEF Spec
-----------------------------------------------------------------------------
(* Where the goroutines of a session are: none before it runs; while it runs *)
(* and stopCh is open, everybody who may close it; after that, only with     *)
(* stopCh closed.                                                            *)
Closers   == {"out", "in", "tick", "wait"}
Before    == {"check", "check_server", "auth", "dial", "count", "count_server", "start"}
After     == {"uncount", "uncount_server", "release", "idle"}

Placed(p) ==
  /\ pc[p] \in Before => live[p] = {}
  /\ pc[p] = "run" /\ p \notin stopped => Closers \subseteq live[p]
  /\ pc[p] \in After /\ live[p] # {} => p \in stopped
  /\ pc[p] = "idle" /\ live[p] # {} => {"client", "shell"} \subseteq over[p]

AllPlaced == \A p \in Sessions : Placed(p)

(* A session that takes no part in a step.                                   *)
Untouched(q) == /\ pc'[q] = pc[q] /\ live'[q] = live[q] /\ over'[q] = over[q]
                /\ q \in stopped' <=> q \in stopped

(* Who takes no part in a step stays placed.                                 *)
LEMMA UntouchedPlaced ==
  ASSUME NEW q \in Sessions, Placed(q), Untouched(q)
  PROVE  Placed(q)'
BY DEF Placed, Untouched

(* A step of one session touches no other.                                   *)
LEMMA OneSessionMoves ==
  ASSUME TypeOK, NEW p \in Sessions,
         Open(p) \/ Handler(p) \/ Goroutine(p) \/ \E e \in Ends : Happens(p, e),
         NEW q \in Sessions, q # p
  PROVE  Untouched(q)
<1> USE DEF TypeOK, Untouched, Goto
<1>1. CASE Open(p) \/ CheckCap(p) \/ CheckServer(p) \/ Authenticate(p) \/ DialShell(p)
  BY <1>1 DEF Open, CheckCap, CheckServer, Authenticate, DialShell
<1>2. CASE CountActive(p) \/ CountServer(p) \/ StartGs(p)
  BY <1>2 DEF CountActive, CountServer, StartGs
<1>3. CASE Close(p) \/ UncountActive(p) \/ UncountServer(p) \/ Release(p)
  BY <1>3 DEF Close, UncountActive, UncountServer, Release
<1>4. CASE Goroutine(p)
  BY <1>4 DEF Goroutine, OutEnds, ErrEnds, InEnds, WaitEnds, TickEnds, FrameGoroutine, Quit, stop
<1>5. CASE \E e \in Ends : Happens(p, e)
  BY <1>5 DEF Happens
<1> QED BY <1>1, <1>2, <1>3, <1>4, <1>5 DEF Handler

(* Who moves is placed after it: a goroutine that leaves while stopCh is     *)
(* open closes it, except the one of stderr, which nobody waits for.         *)
LEMMA MoverPlaced ==
  ASSUME TypeOK, NEW p \in Sessions, Placed(p),
         Open(p) \/ Handler(p) \/ Goroutine(p) \/ \E e \in Ends : Happens(p, e)
  PROVE  Placed(p)'
<1> USE DEF TypeOK, Placed, Before, After
<1>1. CASE Open(p)
  BY <1>1 DEF Open, Goto
<1>2. CASE CheckCap(p) \/ CheckServer(p) \/ Authenticate(p) \/ DialShell(p) \/ CountActive(p)
  BY <1>2 DEF CheckCap, CheckServer, Authenticate, DialShell, CountActive, Goto
<1>3. CASE CountServer(p)
  BY <1>3 DEF CountServer, Goto, Closers
<1>4. CASE StartGs(p)
  BY <1>4 DEF StartGs, Goto, Closers, Goroutines
<1>5. CASE Close(p)
  BY <1>5 DEF Close, Goto
<1>6. CASE UncountActive(p) \/ UncountServer(p)
  BY <1>6 DEF UncountActive, UncountServer, Goto
<1>7. CASE Release(p)
  BY <1>7 DEF Release, Goto
<1>8. CASE OutEnds(p) \/ InEnds(p) \/ WaitEnds(p) \/ TickEnds(p)
  <2>1. p \in stopped' /\ UNCHANGED <<pc, over>> /\ live'[p] \subseteq live[p]
    BY <1>8 DEF OutEnds, InEnds, WaitEnds, TickEnds, Quit, stop, FrameGoroutine
  <2> QED BY <2>1
<1>9. CASE ErrEnds(p)
  <2>1. UNCHANGED <<pc, over, stopped>> /\ live'[p] = live[p] \ {"err"}
    BY <1>9 DEF ErrEnds, Quit, FrameGoroutine
  <2> QED BY <2>1 DEF Closers
<1>10. CASE \E e \in Ends : Happens(p, e)
  BY <1>10 DEF Happens
<1> QED
  BY <1>1, <1>2, <1>3, <1>4, <1>5, <1>6, <1>7, <1>8, <1>9, <1>10 DEF Handler, Goroutine

(* AllPlaced is inductive.                                                   *)
LEMMA PlacedStep == TypeOK /\ AllPlaced /\ [Next]_vars => AllPlaced'
<1> SUFFICES ASSUME TypeOK, AllPlaced, [Next]_vars, NEW q \in Sessions PROVE Placed(q)'
  BY DEF AllPlaced
<1>1. CASE UNCHANGED vars
  BY <1>1 DEF vars, AllPlaced, Placed
<1>2. ASSUME NEW p \in Sessions,
             Open(p) \/ Handler(p) \/ Goroutine(p) \/ \E e \in Ends : Happens(p, e)
      PROVE  Placed(q)'
  BY <1>2, OneSessionMoves, UntouchedPlaced, MoverPlaced DEF AllPlaced
<1> QED BY <1>1, <1>2 DEF Next

(* While a terminal is open somebody is there who notices its end and closes *)
(* stopCh, and whoever outlives the handler finds everything closed.         *)
THEOREM TerminalsCanEnd == Spec => []TeardownReady
<1>1. Init => AllPlaced
  BY DEF Init, AllPlaced, Placed, Before, After
<1>2. Spec => []TypeOK
  BY TerminalTypeCorrect
<1>3. AllPlaced => TeardownReady
  BY DEF AllPlaced, Placed, TeardownReady, Closers, After
<1> QED BY <1>1, <1>2, <1>3, PlacedStep, PTL DEF Spec
=============================================================================
