------------------------------ MODULE Availability ------------------------------
(***************************************************************************)
(* The uptime percentage of one server: calcAvailability folds the entries *)
(* of status_history in a window that ends now.  Time is counted in ticks; *)
(* the statements of one status change fall into one tick (HealthMonitor   *)
(* has their interleavings).  Percentages are hundredths of a percent, cut *)
(* off, as in the code.                                                    *)
(*                                                                         *)
(* Of the three statements of a report each may fail: ok is the set of     *)
(* those that do not.  A read of the entries that breaks off in the middle *)
(* (the code does not look at rows.Err) is not modelled.                   *)
(***************************************************************************)
EXTENDS Sequences, FiniteSetsExt

CONSTANTS
  Windows,   \* the lengths of the windows (24h, 7d, 30d)
  MaxTime,   \* bound: ticks
  MaxEntries \* bound: entries of the history

ASSUME WindowsAssumption == Windows \subseteq Nat \ {0}
ASSUME BoundsAssumption  == MaxTime \in Nat /\ MaxEntries \in Nat

VARIABLES
  now,
  rowStatus, \* servers.status
  history,   \* the entries of status_history, oldest first
  shown      \* history variable: [tick -> the status during that tick]

reportVars == <<now, rowStatus, history, shown>>

Outages == {"unreachable", "ssh_down"}
Entry   == [status : Outages \cup {"online"}, at : Nat]

Statements == {"status", "entries", "before"}

Later(since)  == {i \in DOMAIN history : history[i].at >= since}
Before(since) == {i \in DOMAIN history : history[i].at < since}

(* The status the newest of the entries S tells.                            *)
StatusAfter(S) == IF S = {} THEN "unknown" ELSE history[Max(S)].status

(* Mutant: the status before the window is not looked up.                   *)
StartWithoutLookup(since, ok) == [online |-> 0, at |-> since, status |-> "unknown"]


(* The status before the window: unknown, too, when the statement fails.    *)
Start(since, ok) ==
  [online |-> 0, at |-> since,
   status |-> IF "before" \in ok THEN StatusAfter(Before(since)) ELSE "unknown"]

(* The scan over the transitions: the seconds online so far, the end of     *)
(* the last interval and the status since then.                             *)
Scan(acc, e) ==
  [online |-> acc.online + (IF acc.status = "online" THEN e.at - acc.at ELSE 0),
   status |-> e.status, at |-> e.at]

Scanned(since, ok) ==
  LET acc[i \in 0 .. Len(history)] ==
        IF i = 0 THEN Start(since, ok)
        ELSE IF i \in Later(since) THEN Scan(acc[i - 1], history[i])
        ELSE acc[i - 1]
  IN acc[Len(history)]

(* Mutant: the interval after the last transition is left out.              *)
onlineSecWithoutTail(since, ok) == Scanned(since, ok).online

onlineSec(since, ok) ==
  LET last == Scanned(since, ok)
  IN last.online + (IF last.status = "online" THEN now - last.at ELSE 0)

calcAvailability(since, currentStatus, ok) ==
  IF "entries" \notin ok THEN 0
  ELSE IF Later(since) = {}
  THEN IF currentStatus = "online" THEN 10000 ELSE 0
  ELSE (onlineSec(since, ok) * 10000) \div (now - since)

(* When the row cannot be read, the current status is the empty string.     *)
GetAvailability(w, ok) ==
  calcAvailability(now - w, IF "status" \in ok THEN rowStatus ELSE "", ok)

-----------------------------------------------------------------------------
ReportInit ==
  /\ now = 0
  /\ rowStatus = "pending_setup"
  /\ history = <<>>
  /\ shown = [t \in {} |-> rowStatus]

Tick ==
  /\ now < MaxTime
  /\ now' = now + 1
  /\ shown' = [t \in 0 .. now |-> IF t = now THEN rowStatus ELSE shown[t]]
  /\ UNCHANGED <<rowStatus, history>>

recordEntry(st) ==
  /\ Len(history) < MaxEntries
  /\ history' = Append(history, [status |-> st, at |-> now])

(* handleFailure                                                            *)
MonitorDown ==
  /\ rowStatus # "pending_setup"
  /\ \E st \in Outages \ {rowStatus} : rowStatus' = st /\ recordEntry(st)
  /\ UNCHANGED <<now, shown>>

(* saveMetrics                                                              *)
MonitorUp ==
  /\ rowStatus \notin {"pending_setup", "online"}
  /\ rowStatus' = "online"
  /\ recordEntry("online")
  /\ UNCHANGED <<now, shown>>

(* TestConnection, ManualKeySetup and InjectKey write the row alone.        *)
HandlerSets ==
  /\ rowStatus' \in {"online", "unreachable", "auth_failed"} \ {rowStatus}
  /\ UNCHANGED <<now, history, shown>>

ReportNext == Tick \/ MonitorDown \/ MonitorUp \/ HandlerSets
ReportSpec == ReportInit /\ [][ReportNext]_reportVars
-----------------------------------------------------------------------------
ATypeOK ==
  /\ now \in 0 .. MaxTime
  /\ rowStatus \in Outages \cup {"pending_setup", "online", "auth_failed"}
  /\ history \in Seq(Entry) /\ Len(history) <= MaxEntries
  /\ DOMAIN shown = 0 .. now - 1

(* The timeline is never ahead of the clock and never out of order.         *)
TimeOrdered ==
  /\ \A i \in DOMAIN history : history[i].at <= now
  /\ \A i, j \in DOMAIN history : i <= j => history[i].at <= history[j].at

Window(w) == (now - w) .. (now - 1)
OnlineTicks(w) == {t \in Window(w) \cap DOMAIN shown : shown[t] = "online"}
RealUptime(w)  == (Cardinality(OnlineTicks(w)) * 10000) \div w

(* The status the timeline tells for tick t: its newest entry by then.      *)
Told(t) == StatusAfter({i \in DOMAIN history : history[i].at <= t})

(* Where the timeline told, in every tick of the window and now, the status  *)
(* the server really was shown with, the percentage is exactly the share of  *)
(* the window it was shown online: entries on the border, several entries in *)
(* one tick and windows without an entry included.  The statements succeed.  *)
ExactWhenRecorded ==
  \A w \in Windows :
    (/\ \A t \in Window(w) : t \in DOMAIN shown /\ shown[t] = Told(t)
     /\ rowStatus = Told(now))
    => GetAvailability(w, Statements) = RealUptime(w)

(* Whatever the handlers leave out of the timeline, a window with an entry   *)
(* reports the time the timeline itself calls online.                        *)
AgreesWithTimeline ==
  \A w \in Windows :
    Later(now - w) # {} =>
      GetAvailability(w, Statements) =
        (Cardinality({t \in Window(w) : Told(t) = "online"}) * 10000) \div w

=============================================================================
