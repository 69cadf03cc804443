----------------------------- MODULE SshSlots_proofs -----------------------------
(***************************************************************************)
(* Proofs about SshSlots: the semaphores count exactly the calls that hold *)
(* them, for any number of calls, servers and slots.                       *)
(***************************************************************************)
EXTENDS SshSlots, FiniteSetTheorems, TLAPS

GlobalSteps == {"want_server", "key", "dial", "session", "run",
                "close", "give_server", "give_global"}
ServerSteps == {"key", "dial", "session", "run", "close", "give_server"}

(* A caller outside the manager only ever dials, runs and hangs up.          *)
Outside == \A p \in Callers \ Managed : pc[p] \in {"idle", "dial", "session", "run", "close"}

Inv == TypeOK /\ SlotsConserved /\ Outside

-----------------------------------------------------------------------------
(* Finitely many calls hold slots.                                           *)
LEMMA HoldersFinite ==
  /\ IsFiniteSet(GlobalHolders)
  /\ \A s \in Servers : IsFiniteSet(ServerHolders(s))
<1>1. GlobalHolders \subseteq Callers /\ \A s \in Servers : ServerHolders(s) \subseteq Callers
  BY DEF GlobalHolders, ServerHolders
<1> QED BY <1>1, CallersAssumption, FS_Subset

(* Who holds a slot after a call has moved on.                               *)
LEMMA HoldersAfter ==
  ASSUME TypeOK, NEW p \in Callers, NEW from, NEW to, Step(p, from, to)
  PROVE  /\ GlobalHolders' =
              IF p \in Managed /\ to \in GlobalSteps THEN GlobalHolders \cup {p} ELSE GlobalHolders \ {p}
         /\ \A s \in Servers : ServerHolders(s)' =
              IF p \in Managed /\ to \in ServerSteps /\ ServerOf[p] = s
              THEN ServerHolders(s) \cup {p} ELSE ServerHolders(s) \ {p}
         /\ p \in GlobalHolders <=> (p \in Managed /\ from \in GlobalSteps)
         /\ \A s \in Servers :
              p \in ServerHolders(s) <=> (p \in Managed /\ from \in ServerSteps /\ ServerOf[p] = s)
<1>1. \A q \in Callers : pc'[q] = IF q = p THEN to ELSE pc[q]
  BY DEF TypeOK, Step
<1>2. pc[p] = from
  BY DEF Step
<1>3. \A q \in Callers : HasGlobal(q)' = IF q = p THEN p \in Managed /\ to \in GlobalSteps ELSE HasGlobal(q)
  BY <1>1 DEF HasGlobal, GlobalSteps
<1>4. \A q \in Callers : HasServer(q)' = IF q = p THEN p \in Managed /\ to \in ServerSteps ELSE HasServer(q)
  BY <1>1 DEF HasServer, ServerSteps
<1>5. GlobalHolders' =
        IF p \in Managed /\ to \in GlobalSteps THEN GlobalHolders \cup {p} ELSE GlobalHolders \ {p}
  BY <1>3 DEF GlobalHolders
<1>6. \A s \in Servers : ServerHolders(s)' =
        IF p \in Managed /\ to \in ServerSteps /\ ServerOf[p] = s
        THEN ServerHolders(s) \cup {p} ELSE ServerHolders(s) \ {p}
  <2> SUFFICES ASSUME NEW s \in Servers
               PROVE  ServerHolders(s)' =
                 IF p \in Managed /\ to \in ServerSteps /\ ServerOf[p] = s
                 THEN ServerHolders(s) \cup {p} ELSE ServerHolders(s) \ {p}
    OBVIOUS
  <2>1. ServerHolders(s)' = {q \in Callers : HasServer(q)' /\ ServerOf[q] = s}
    BY DEF ServerHolders
  <2>2. CASE p \in Managed /\ to \in ServerSteps /\ ServerOf[p] = s
    BY <1>4, <2>1, <2>2 DEF ServerHolders
  <2>3. CASE ~(p \in Managed /\ to \in ServerSteps /\ ServerOf[p] = s)
    BY <1>4, <2>1, <2>3 DEF ServerHolders
  <2> QED BY <2>2, <2>3
<1>7. p \in GlobalHolders <=> (p \in Managed /\ from \in GlobalSteps)
  BY <1>2 DEF GlobalHolders, HasGlobal, GlobalSteps
<1>8. \A s \in Servers :
        p \in ServerHolders(s) <=> (p \in Managed /\ from \in ServerSteps /\ ServerOf[p] = s)
  BY <1>2 DEF ServerHolders, HasServer, ServerSteps
<1> QED BY <1>5, <1>6, <1>7, <1>8

(* A move within, or outside, the steps that hold a slot.                    *)
LEMMA SameHolders ==
  ASSUME TypeOK, NEW p \in Callers, NEW from, NEW to, Step(p, from, to)
  PROVE  /\ (p \in Managed => (from \in GlobalSteps <=> to \in GlobalSteps))
              => GlobalHolders' = GlobalHolders
         /\ \A s \in Servers :
              (p \in Managed /\ ServerOf[p] = s => (from \in ServerSteps <=> to \in ServerSteps))
              => ServerHolders(s)' = ServerHolders(s)
<1>1. ASSUME p \in Managed => (from \in GlobalSteps <=> to \in GlobalSteps)
      PROVE  GlobalHolders' = GlobalHolders
  <2>1. CASE p \in GlobalHolders
    BY <1>1, <2>1, HoldersAfter
  <2>2. CASE p \notin GlobalHolders
    BY <1>1, <2>2, HoldersAfter
  <2> QED BY <2>1, <2>2
<1>2. ASSUME NEW s \in Servers,
             p \in Managed /\ ServerOf[p] = s => (from \in ServerSteps <=> to \in ServerSteps)
      PROVE  ServerHolders(s)' = ServerHolders(s)
  <2>1. CASE p \in ServerHolders(s)
    BY <1>2, <2>1, HoldersAfter
  <2>2. CASE p \notin ServerHolders(s)
    BY <1>2, <2>2, HoldersAfter
  <2> QED BY <2>1, <2>2
<1> QED BY <1>1, <1>2

(* A move that takes and gives no slot keeps the invariant.                  *)
LEMMA MoveKeeps ==
  ASSUME Inv, NEW p \in Callers, NEW from, NEW to \in CallSteps, Step(p, from, to),
         UNCHANGED <<globalSem, serverSem>>, stalled' \subseteq Stallable,
         p \in Managed => (from \in GlobalSteps <=> to \in GlobalSteps),
         p \in Managed => (from \in ServerSteps <=> to \in ServerSteps),
         p \notin Managed => to \in {"idle", "dial", "session", "run", "close"}
  PROVE  Inv'
<1>1. GlobalHolders' = GlobalHolders /\ \A s \in Servers : ServerHolders(s)' = ServerHolders(s)
  BY SameHolders DEF Inv
<1>2. TypeOK'
  BY DEF Inv, TypeOK, Step
<1>3. SlotsConserved'
  BY <1>1 DEF Inv, SlotsConserved
<1>4. Outside'
  BY DEF Inv, Outside, TypeOK, Step
<1> QED BY <1>2, <1>3, <1>4 DEF Inv

(* A caller outside the manager never stands where slots are taken.          *)
LEMMA IsManaged ==
  ASSUME Inv, NEW p \in Callers,
         pc[p] \in {"want_global", "want_server", "key", "give_server", "give_global"}
  PROVE  p \in Managed
BY DEF Inv, Outside

(* Taking a global slot keeps the counts exact and within the buffer.        *)
LEMMA AcquireGlobalKeeps == ASSUME Inv, NEW p \in Callers, AcquireGlobal(p) PROVE Inv'
<1>1. Step(p, "want_global", "want_server") /\ p \in Managed
  BY IsManaged DEF AcquireGlobal, Step
<1>2. /\ GlobalHolders' = GlobalHolders \cup {p} /\ p \notin GlobalHolders
      /\ \A s \in Servers : ServerHolders(s)' = ServerHolders(s)
  BY <1>1, HoldersAfter DEF Inv, GlobalSteps, ServerSteps
<1>3. Cardinality(GlobalHolders') = Cardinality(GlobalHolders) + 1
  BY <1>2, HoldersFinite, FS_AddElement
<1>4. SlotsConserved'
  BY <1>2, <1>3 DEF Inv, SlotsConserved, AcquireGlobal
<1>5. TypeOK'
  BY <1>1, MaxAssumption DEF Inv, TypeOK, AcquireGlobal, Step, CallSteps
<1>6. Outside'
  BY <1>1 DEF Inv, Outside, TypeOK, Step
<1> QED BY <1>4, <1>5, <1>6 DEF Inv

(* So does taking the slot of a server.                                      *)
LEMMA AcquireServerKeeps == ASSUME Inv, NEW p \in Callers, AcquireServer(p) PROVE Inv'
<1>1. Step(p, "want_server", "key") /\ p \in Managed
  BY IsManaged DEF AcquireServer, Step
<1>2. ServerOf[p] \in Servers
  BY ServerOfAssumption
<1>3. /\ GlobalHolders' = GlobalHolders
      /\ \A s \in Servers : s # ServerOf[p] => ServerHolders(s)' = ServerHolders(s)
  BY <1>1, SameHolders DEF Inv, GlobalSteps, ServerSteps
<1>h. /\ ServerHolders(ServerOf[p])' = ServerHolders(ServerOf[p]) \cup {p}
      /\ p \notin ServerHolders(ServerOf[p])
  BY <1>1, <1>2, HoldersAfter DEF Inv, ServerSteps
<1>4. Cardinality(ServerHolders(ServerOf[p]) \cup {p}) = Cardinality(ServerHolders(ServerOf[p])) + 1
  BY <1>2, <1>h, HoldersFinite, FS_AddElement
<1>5. SlotsConserved'
  BY <1>2, <1>3, <1>4, <1>h DEF Inv, SlotsConserved, AcquireServer, TypeOK
<1>6. TypeOK'
  BY <1>1, <1>2, MaxAssumption DEF Inv, TypeOK, AcquireServer, Step, CallSteps
<1>7. Outside'
  BY <1>1 DEF Inv, Outside, TypeOK, Step
<1> QED BY <1>5, <1>6, <1>7 DEF Inv

(* So does giving it back.                                                   *)
LEMMA ReleaseServerKeeps == ASSUME Inv, NEW p \in Callers, ReleaseServer(p) PROVE Inv'
<1>1. Step(p, "give_server", "give_global") /\ p \in Managed
  BY IsManaged DEF ReleaseServer, Step
<1>2. ServerOf[p] \in Servers
  BY ServerOfAssumption
<1>3. /\ GlobalHolders' = GlobalHolders
      /\ \A s \in Servers : s # ServerOf[p] => ServerHolders(s)' = ServerHolders(s)
  BY <1>1, SameHolders DEF Inv, GlobalSteps, ServerSteps
<1>h. /\ ServerHolders(ServerOf[p])' = ServerHolders(ServerOf[p]) \ {p}
      /\ p \in ServerHolders(ServerOf[p])
  BY <1>1, <1>2, HoldersAfter DEF Inv, ServerSteps
<1>4. /\ Cardinality(ServerHolders(ServerOf[p]) \ {p}) = Cardinality(ServerHolders(ServerOf[p])) - 1
      /\ Cardinality(ServerHolders(ServerOf[p]) \ {p}) \in Nat
  BY <1>2, <1>h, HoldersFinite, FS_RemoveElement, FS_CardinalityType
<1>5. SlotsConserved'
  BY <1>2, <1>3, <1>4, <1>h DEF Inv, SlotsConserved, ReleaseServer, TypeOK
<1>6. serverSem[ServerOf[p]] - 1 \in 0 .. MaxPerServer
  BY <1>2, <1>4, MaxAssumption DEF Inv, SlotsConserved, TypeOK
<1>7. TypeOK'
  BY <1>1, <1>6 DEF Inv, TypeOK, ReleaseServer, Step, CallSteps
<1>8. Outside'
  BY <1>1 DEF Inv, Outside, TypeOK, Step
<1> QED BY <1>5, <1>7, <1>8 DEF Inv

(* So does giving the global slot back.                                      *)
LEMMA ReleaseGlobalKeeps == ASSUME Inv, NEW p \in Callers, ReleaseGlobal(p) PROVE Inv'
<1>1. Step(p, "give_global", "idle") /\ p \in Managed
  BY IsManaged DEF ReleaseGlobal, Step
<1>h. GlobalHolders' = GlobalHolders \ {p} /\ p \in GlobalHolders
  BY <1>1, HoldersAfter DEF Inv, GlobalSteps
<1>2. \A s \in Servers : ServerHolders(s)' = ServerHolders(s)
  BY <1>1, SameHolders DEF Inv, ServerSteps
<1>3. Cardinality(GlobalHolders') = Cardinality(GlobalHolders) - 1 /\ Cardinality(GlobalHolders') \in Nat
  BY <1>h, HoldersFinite, FS_RemoveElement, FS_CardinalityType
<1>4. SlotsConserved'
  BY <1>2, <1>3 DEF Inv, SlotsConserved, ReleaseGlobal
<1>5. globalSem' \in 0 .. MaxGlobal
  BY <1>3, <1>4, MaxAssumption DEF Inv, SlotsConserved, TypeOK, ReleaseGlobal
<1>6. TypeOK'
  BY <1>1, <1>5 DEF Inv, TypeOK, ReleaseGlobal, Step, CallSteps
<1>7. Outside'
  BY <1>1 DEF Inv, Outside, TypeOK, Step
<1> QED BY <1>4, <1>6, <1>7 DEF Inv

(* The steps between an acquire and its release.                             *)
LEMMA WorkKeeps ==
  ASSUME Inv, NEW p \in Callers,
         Call(p) \/ ParseKey(p) \/ Dial(p) \/ NewSession(p) \/ Run(p) \/ CloseClient(p)
  PROVE  Inv'
<1> USE MoveKeeps DEF CallSteps, GlobalSteps, ServerSteps
<1>s. stalled \subseteq Stallable
  BY DEF Inv, TypeOK
<1>1. CASE Call(p)
  BY <1>1, <1>s DEF Call
<1>2. CASE ParseKey(p)
  <2>1. p \in Managed
    BY <1>2, IsManaged DEF ParseKey, Step
  <2> QED BY <1>2, <1>s, <2>1 DEF ParseKey
<1>3. CASE Dial(p)
  BY <1>3, <1>s DEF Dial
<1>4. CASE NewSession(p)
  BY <1>4, <1>s DEF NewSession
<1>5. CASE Run(p)
  BY <1>5, <1>s DEF Run
<1>6. CASE CloseClient(p)
  BY <1>6, <1>s DEF CloseClient
<1> QED BY <1>1, <1>2, <1>3, <1>4, <1>5, <1>6

(* Nothing the invariant speaks of changes but the stalled servers.          *)
LEMMA StandsStill ==
  ASSUME Inv, UNCHANGED <<pc, globalSem, serverSem>>, stalled' \subseteq Stallable
  PROVE  Inv'
BY DEF Inv, TypeOK, SlotsConserved, Outside, GlobalHolders, ServerHolders, HasGlobal, HasServer

(* The invariant is inductive.                                               *)
LEMMA InvStep == Inv /\ [Next]_vars => Inv'
<1> SUFFICES ASSUME Inv, [Next]_vars PROVE Inv'
  OBVIOUS
<1>1. CASE UNCHANGED vars
  BY <1>1, StandsStill DEF vars, Inv, TypeOK
<1>2. CASE Stall
  BY <1>2, StandsStill DEF Stall, Inv, TypeOK
<1>3. ASSUME NEW p \in Callers,
             Call(p) \/ AcquireGlobal(p) \/ AcquireServer(p) \/ Work(p) \/ Run(p)
      PROVE  Inv'
  BY <1>3, AcquireGlobalKeeps, AcquireServerKeeps, ReleaseServerKeeps, ReleaseGlobalKeeps, WorkKeeps
     DEF Work, Release
<1> QED BY <1>1, <1>2, <1>3 DEF Next

(* The invariant holds at the beginning.                                     *)
LEMMA InvInit == Init => Inv
<1> SUFFICES ASSUME Init PROVE Inv
  OBVIOUS
<1>1. GlobalHolders = {} /\ \A s \in Servers : ServerHolders(s) = {}
  BY DEF Init, GlobalHolders, ServerHolders, HasGlobal, HasServer
<1>2. SlotsConserved
  BY <1>1, FS_EmptySet DEF Init, SlotsConserved
<1>3. TypeOK /\ Outside
  BY MaxAssumption DEF Init, TypeOK, Outside, CallSteps
<1> QED BY <1>2, <1>3 DEF Inv

(* The invariant of every result below.                                      *)
LEMMA InvAlways == Spec => []Inv
BY InvInit, InvStep, PTL DEF Spec

(* The variables keep their types; in particular neither channel is ever     *)
(* filled beyond its buffer.                                                 *)
THEOREM SlotsTypeCorrect == Spec => []TypeOK
<1>1. Inv => TypeOK
  BY DEF Inv
<1> QED BY <1>1, InvAlways, PTL

(* Every return path gives back exactly the slots it took.                   *)
THEOREM NoSlotLost == Spec => []SlotsConserved
<1>1. Inv => SlotsConserved
  BY DEF Inv
<1> QED BY <1>1, InvAlways, PTL

(* The manager never holds more connections than it is configured for, in    *)
(* all and per server.                                                       *)
THEOREM ConnectionsBounded == Spec => []ManagedConnectionsBounded
<1>1. ASSUME Inv PROVE ManagedConnectionsBounded
  <2> DEFINE Open == {p \in Managed : Connected(p)}
             OpenTo(s) == {p \in Managed : Connected(p) /\ ServerOf[p] = s}
  <2>1. Open \subseteq GlobalHolders /\ \A s \in Servers : OpenTo(s) \subseteq ServerHolders(s)
    BY CallersAssumption DEF Connected, GlobalHolders, ServerHolders, HasGlobal, HasServer
  <2>2. Cardinality(Open) <= Cardinality(GlobalHolders)
    BY <2>1, HoldersFinite, FS_Subset
  <2>3. \A s \in Servers : Cardinality(OpenTo(s)) <= Cardinality(ServerHolders(s))
    BY <2>1, HoldersFinite, FS_Subset
  <2>4. Cardinality(Open) \in Nat /\ \A s \in Servers : Cardinality(OpenTo(s)) \in Nat
    BY <2>1, HoldersFinite, FS_Subset, FS_CardinalityType
  <2>5. Cardinality(Open) <= MaxGlobal
    BY <1>1, <2>2, <2>4, MaxAssumption DEF Inv, TypeOK, SlotsConserved
  <2>6. \A s \in Servers : Cardinality(OpenTo(s)) <= MaxPerServer
    BY <1>1, <2>3, <2>4, MaxAssumption DEF Inv, TypeOK, SlotsConserved
  <2> QED BY <2>5, <2>6 DEF ManagedConnectionsBounded
<1> QED BY <1>1, InvAlways, PTL

-----------------------------------------------------------------------------
(* A move changes at most one level, and by its own call only.               *)
LEMMA HoldersMove ==
  ASSUME Inv, NEW p \in Callers,
         Call(p) \/ AcquireGlobal(p) \/ AcquireServer(p) \/ Work(p) \/ Run(p)
  PROVE  /\ \/ GlobalHolders' = GlobalHolders
            \/ AcquireGlobal(p) /\ p \in Managed /\ p \notin GlobalHolders
               /\ GlobalHolders' = GlobalHolders \cup {p}
            \/ p \in Managed /\ p \in GlobalHolders /\ GlobalHolders' = GlobalHolders \ {p}
         /\ \/ \A s \in Servers : ServerHolders(s)' = ServerHolders(s)
            \/ /\ AcquireServer(p) /\ p \in Managed /\ p \notin ServerHolders(ServerOf[p])
               /\ \A s \in Servers : ServerHolders(s)' =
                    IF s = ServerOf[p] THEN ServerHolders(s) \cup {p} ELSE ServerHolders(s)
            \/ /\ p \in Managed /\ p \in ServerHolders(ServerOf[p])
               /\ \A s \in Servers : ServerHolders(s)' =
                    IF s = ServerOf[p] THEN ServerHolders(s) \ {p} ELSE ServerHolders(s)
<1> USE DEF CallSteps, GlobalSteps, ServerSteps
<1>t. TypeOK /\ ServerOf[p] \in Servers
  BY ServerOfAssumption DEF Inv
<1>n. \A s \in Servers : s # ServerOf[p] => p \notin ServerHolders(s)
  BY DEF ServerHolders
<1>1. CASE AcquireGlobal(p)
  <2>1. Step(p, "want_global", "want_server") /\ p \in Managed
    BY <1>1, IsManaged DEF AcquireGlobal, Step
  <2>2. p \notin GlobalHolders /\ GlobalHolders' = GlobalHolders \cup {p}
    BY <1>t, <2>1, HoldersAfter
  <2>3. \A s \in Servers : ServerHolders(s)' = ServerHolders(s)
    BY <1>t, <2>1, SameHolders
  <2> QED BY <1>1, <2>1, <2>2, <2>3
<1>2. CASE AcquireServer(p)
  <2>1. Step(p, "want_server", "key") /\ p \in Managed
    BY <1>2, IsManaged DEF AcquireServer, Step
  <2>2. GlobalHolders' = GlobalHolders
    BY <1>t, <2>1, SameHolders
  <2>3. \A s \in Servers : p \notin ServerHolders(s)
    BY <1>t, <2>1, HoldersAfter
  <2>4. ASSUME NEW s \in Servers
        PROVE  ServerHolders(s)' =
                 IF s = ServerOf[p] THEN ServerHolders(s) \cup {p} ELSE ServerHolders(s)
    <3>1. ServerHolders(s)' =
            IF ServerOf[p] = s THEN ServerHolders(s) \cup {p} ELSE ServerHolders(s) \ {p}
      BY <1>t, <2>1, HoldersAfter
    <3> QED BY <2>3, <3>1
  <2> QED BY <1>2, <1>t, <2>1, <2>2, <2>3, <2>4
<1>3. CASE ReleaseServer(p)
  <2>1. Step(p, "give_server", "give_global") /\ p \in Managed
    BY <1>3, IsManaged DEF ReleaseServer, Step
  <2>2. GlobalHolders' = GlobalHolders
    BY <1>t, <2>1, SameHolders
  <2>3. p \in ServerHolders(ServerOf[p])
    BY <1>t, <2>1, HoldersAfter
  <2>4. ASSUME NEW s \in Servers
        PROVE  ServerHolders(s)' =
                 IF s = ServerOf[p] THEN ServerHolders(s) \ {p} ELSE ServerHolders(s)
    <3>1. ServerHolders(s)' = ServerHolders(s) \ {p}
      BY <1>t, <2>1, HoldersAfter
    <3> QED BY <1>n, <3>1
  <2> QED BY <1>t, <2>1, <2>2, <2>3, <2>4
<1>4. CASE ReleaseGlobal(p)
  <2>1. Step(p, "give_global", "idle") /\ p \in Managed
    BY <1>4, IsManaged DEF ReleaseGlobal, Step
  <2>2. p \in GlobalHolders /\ GlobalHolders' = GlobalHolders \ {p}
    BY <1>t, <2>1, HoldersAfter
  <2>3. \A s \in Servers : ServerHolders(s)' = ServerHolders(s)
    BY <1>t, <2>1, SameHolders
  <2> QED BY <2>1, <2>2, <2>3
<1>5. ASSUME Call(p) \/ ParseKey(p) \/ Dial(p) \/ NewSession(p) \/ Run(p) \/ CloseClient(p)
      PROVE  GlobalHolders' = GlobalHolders /\ \A s \in Servers : ServerHolders(s)' = ServerHolders(s)
  <2>1. CASE Call(p)
    BY <1>t, <2>1, SameHolders DEF Call
  <2>2. CASE ParseKey(p)
    BY <1>t, <2>2, SameHolders DEF ParseKey
  <2>3. CASE Dial(p)
    BY <1>t, <2>3, SameHolders DEF Dial
  <2>4. CASE NewSession(p)
    BY <1>t, <2>4, SameHolders DEF NewSession
  <2>5. CASE Run(p)
    BY <1>t, <2>5, SameHolders DEF Run
  <2>6. CASE CloseClient(p)
    BY <1>t, <2>6, SameHolders DEF CloseClient
  <2> QED BY <1>5, <2>1, <2>2, <2>3, <2>4, <2>5, <2>6
<1> QED BY <1>1, <1>2, <1>3, <1>4, <1>5 DEF Work, Release

(* While no call moves nobody takes or gives back a slot.                    *)
LEMMA StillStands ==
  ASSUME UNCHANGED pc
  PROVE  GlobalHolders' = GlobalHolders /\ \A s \in Servers : ServerHolders(s)' = ServerHolders(s)
BY DEF GlobalHolders, ServerHolders, HasGlobal, HasServer

(* The instances of the abstract semaphore count as this module does.        *)
LEMMA SameCardinality ==
  ASSUME NEW S
  PROVE  Global!Cardinality(S) = Cardinality(S) /\ PerServer!Cardinality(S) = Cardinality(S)
BY DEF Global!Cardinality, PerServer!Cardinality, Cardinality

(* The channel all calls share behaves as a semaphore of MaxGlobal slots.    *)
THEOREM GlobalSlotsRefine == Spec => Global!Spec
<1> DEFINE H == [c \in {"all"} |-> GlobalHolders]
<1>1. Init => Global!Init
  BY DEF Init, Global!Init, GlobalHolders, HasGlobal
<1>2. Inv /\ [Next]_vars => [Global!Next]_H
  <2> SUFFICES ASSUME Inv, [Next]_vars PROVE [Global!Next]_H
    OBVIOUS
  <2>1. CASE UNCHANGED pc
    BY <2>1, StillStands
  <2>2. ASSUME NEW p \in Callers,
               Call(p) \/ AcquireGlobal(p) \/ AcquireServer(p) \/ Work(p) \/ Run(p)
        PROVE  [Global!Next]_H
    <3>1. CASE GlobalHolders' = GlobalHolders
      BY <3>1
    <3>2. CASE /\ AcquireGlobal(p) /\ p \in Managed /\ p \notin GlobalHolders
               /\ GlobalHolders' = GlobalHolders \cup {p}
      <4>1. Cardinality(GlobalHolders) < MaxGlobal
        BY <3>2 DEF Inv, SlotsConserved, AcquireGlobal
      <4>2. H["all"] = GlobalHolders /\ H' = [H EXCEPT !["all"] = @ \cup {p}]
        BY <3>2
      <4>3. Global!Acquire(p, "all")
        BY <3>2, <4>1, <4>2, SameCardinality, Zenon DEF Global!Acquire
      <4> QED BY <3>2, <4>3 DEF Global!Next
    <3>3. CASE p \in Managed /\ p \in GlobalHolders /\ GlobalHolders' = GlobalHolders \ {p}
      <4>1. Global!Release(p, "all")
        BY <3>3 DEF Global!Release
      <4> QED BY <3>3, <4>1 DEF Global!Next
    <3> QED BY <2>2, <3>1, <3>2, <3>3, HoldersMove
  <2> QED BY <2>1, <2>2 DEF Next, Stall, vars
<1> QED BY <1>1, <1>2, InvAlways, PTL DEF Spec, Global!Spec

(* The channel of each server behaves as a semaphore of MaxPerServer slots,  *)
(* and no step touches the channels of two servers.                          *)
THEOREM ServerSlotsRefine == Spec => PerServer!Spec
<1> DEFINE H == [s \in Servers |-> ServerHolders(s)]
<1>1. Init => PerServer!Init
  BY DEF Init, PerServer!Init, ServerHolders, HasServer
<1>2. Inv /\ [Next]_vars => [PerServer!Next]_H
  <2> SUFFICES ASSUME Inv, [Next]_vars PROVE [PerServer!Next]_H
    OBVIOUS
  <2>1. CASE UNCHANGED pc
    BY <2>1, StillStands
  <2>2. ASSUME NEW p \in Callers,
               Call(p) \/ AcquireGlobal(p) \/ AcquireServer(p) \/ Work(p) \/ Run(p)
        PROVE  [PerServer!Next]_H
    <3>s. ServerOf[p] \in Servers
      BY ServerOfAssumption
    <3>1. CASE \A s \in Servers : ServerHolders(s)' = ServerHolders(s)
      BY <3>1
    <3>2. CASE /\ AcquireServer(p) /\ p \in Managed /\ p \notin ServerHolders(ServerOf[p])
               /\ \A s \in Servers : ServerHolders(s)' =
                    IF s = ServerOf[p] THEN ServerHolders(s) \cup {p} ELSE ServerHolders(s)
      <4>1. Cardinality(ServerHolders(ServerOf[p])) < MaxPerServer
        BY <3>2, <3>s DEF Inv, SlotsConserved, AcquireServer
      <4>2. H[ServerOf[p]] = ServerHolders(ServerOf[p])
            /\ H' = [H EXCEPT ![ServerOf[p]] = @ \cup {p}]
        BY <3>2, <3>s
      <4>3. PerServer!Acquire(p, ServerOf[p])
        BY <3>2, <4>1, <4>2, SameCardinality, Zenon DEF PerServer!Acquire
      <4> QED BY <3>2, <3>s, <4>3 DEF PerServer!Next
    <3>3. CASE /\ p \in Managed /\ p \in ServerHolders(ServerOf[p])
               /\ \A s \in Servers : ServerHolders(s)' =
                    IF s = ServerOf[p] THEN ServerHolders(s) \ {p} ELSE ServerHolders(s)
      <4>1. PerServer!Release(p, ServerOf[p])
        BY <3>3, <3>s DEF PerServer!Release
      <4> QED BY <3>3, <3>s, <4>1 DEF PerServer!Next
    <3> QED BY <2>2, <3>1, <3>2, <3>3, HoldersMove
  <2> QED BY <2>1, <2>2 DEF Next, Stall, vars
<1> QED BY <1>1, <1>2, InvAlways, PTL DEF Spec, PerServer!Spec

(* Both levels of channels behave as semaphores, whichever return paths the  *)
(* calls take.                                                               *)
THEOREM SlotsRefine == Spec => SlotsImplementSemaphores
BY GlobalSlotsRefine, ServerSlotsRefine DEF SlotsImplementSemaphores

-----------------------------------------------------------------------------
(* A call that waits for a slot of its server waits for one that can go on.  *)
LEMMA ServerSlotComesFree ==
  ASSUME TypeOK, SlotsConserved, MaxPerServer > 0,
         NEW p \in Callers, pc[p] = "want_server", ServerOf[p] \notin stalled, ~CanGoOn(p)
  PROVE  \E q \in Callers : ServerOf[q] \notin stalled /\ CanGoOn(q)
<1> DEFINE s == ServerOf[p]
<1>1. s \in Servers /\ serverSem[s] = Cardinality(ServerHolders(s)) /\ serverSem[s] # 0
  BY ServerOfAssumption, MaxAssumption DEF TypeOK, SlotsConserved, CanGoOn
<1>2. ServerHolders(s) # {}
  BY <1>1, FS_EmptySet
<1>3. PICK q \in Callers : HasServer(q) /\ ServerOf[q] = s
  BY <1>2 DEF ServerHolders
<1>4. CanGoOn(q)
  BY <1>3 DEF HasServer, CanGoOn
<1> QED BY <1>3, <1>4

(* A call that waits for a full global channel waits for a holder whose      *)
(* server answers; that one can go on, or waits for its server, one of whose *)
(* holders can.                                                              *)
LEMMA NobodyWaitsInACircle == TypeOK /\ SlotsConserved => NoCircularWait
<1> DEFINE hung == {p \in GlobalHolders : ServerOf[p] \in stalled}
<1> SUFFICES ASSUME TypeOK, SlotsConserved, Cardinality(hung) < MaxGlobal, MaxPerServer > 0,
                    NEW p \in Callers, pc[p] # "idle", ServerOf[p] \notin stalled
             PROVE  \E q \in Callers : ServerOf[q] \notin stalled /\ CanGoOn(q)
  BY DEF NoCircularWait
<1>1. CASE CanGoOn(p)
  BY <1>1
<1>2. CASE pc[p] = "want_server" /\ ~CanGoOn(p)
  BY <1>2, ServerSlotComesFree
<1>3. CASE pc[p] = "want_global" /\ ~CanGoOn(p)
  <2>1. Cardinality(GlobalHolders) = MaxGlobal
    BY <1>3, MaxAssumption DEF TypeOK, SlotsConserved, CanGoOn
  <2>2. hung # GlobalHolders
    BY <2>1, MaxAssumption
  <2>3. PICK q \in GlobalHolders : ServerOf[q] \notin stalled
    BY <2>2
  <2>4. q \in Callers /\ (CanGoOn(q) \/ pc[q] = "want_server")
    BY <2>3 DEF GlobalHolders, HasGlobal, CanGoOn
  <2> QED BY <2>3, <2>4, ServerSlotComesFree
<1>4. pc[p] \in {"want_global", "want_server"} \/ CanGoOn(p)
  BY DEF TypeOK, CallSteps, CanGoOn
<1> QED BY <1>1, <1>2, <1>3, <1>4

(* For any number of calls, servers and slots: unless calls to servers that  *)
(* hang hold every global slot, nobody waits in a circle for the two         *)
(* semaphores, and a call to a server that answers can go on.                *)
THEOREM NobodyIsStuck == Spec => []NoCircularWait
<1> QED BY SlotsTypeCorrect, NoSlotLost, NobodyWaitsInACircle, PTL
=============================================================================
