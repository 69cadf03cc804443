-------------------------------- MODULE Sessions --------------------------------
(***************************************************************************)
(* One account, the browser tab somebody uses it from, and other devices.  *)
(*                                                                         *)
(* The server keeps the hash of one refresh token (a session); the browser *)
(* keeps the token in a cookie.  The tab keeps an access token in a        *)
(* variable of api/client.js.  A call that is answered 401 asks once for a *)
(* new access token and is sent again; a refusal signs the tab out by      *)
(* loading the page anew, which begins with a refresh of its own.  Calls   *)
(* overlap, and logging out does not stop those that are under way.        *)
(*                                                                         *)
(* A session is a number; a call's `ref' is the session its access token   *)
(* is from, or that of the cookie sent with its refresh.                   *)
(***************************************************************************)
EXTENDS Naturals

CONSTANTS
  Calls,       \* requests of the tab that may be under way
  MaxLogins,   \* bound on logins
  MaxChanges,  \* bound on changes of the password
  DbMayFail    \* whether the UPDATE statements may fail

ASSUME BoundsAssumption  == MaxLogins \in Nat /\ MaxChanges \in Nat
ASSUME DbFailsAssumption == DbMayFail \in BOOLEAN

VARIABLES
  session,   \* users.refresh_token_hash
  last,      \* the newest session that was issued
  password,  \* number of changes of the password
  madeWith,  \* history: password in force when each session was stored
  cookie,    \* refresh_token in the browser
  token,     \* accessToken in client.js
  page,      \* what the tab shows
  call,      \* the calls of the tab
  boot,      \* the refresh with which a page begins (main.jsx)
  login      \* the answer to the tab's login that is under way

server  == <<session, last, password, madeWith>>
browser == <<cookie, token, page>>
vars    == <<server, browser, call, boot, login>>

None     == 0
Sessions == 1 .. MaxLogins
Refs     == 0 .. MaxLogins
Kinds    == {"data", "logout", "change"}
Steps    == {"idle", "sent", "ok", "error", "unauthorized", "refresh", "granted",
             "refused", "unread", "retry", "data"}

NoToken == [of |-> None, live |-> FALSE, stray |-> FALSE]
NoCall  == [pc |-> "idle", kind |-> "data", ref |-> None, stray |-> FALSE]

Fresh(s, stray) == [of |-> s, live |-> TRUE, stray |-> stray]
Header          == IF token.live THEN token.of ELSE None
AllStray(cs)    == [c \in Calls |-> IF cs[c].pc = "idle" THEN NoCall ELSE [cs[c] EXCEPT !.stray = TRUE]]

Init ==
  /\ session = None /\ last = 0
  /\ password = 0
  /\ madeWith = [s \in Sessions |-> 0]
  /\ cookie = None /\ token = NoToken /\ page = "login"
  /\ call = [c \in Calls |-> NoCall]
  /\ boot = NoCall
  /\ login = None

Go(c, pc, ref) == call' = [call EXCEPT ![c].pc = pc, ![c].ref = ref]
Drop(c)        == call' = [call EXCEPT ![c] = NoCall]
-----------------------------------------------------------------------------
(* The server.                                                              *)

(* Login issues a session and stores it in place of the one before; the     *)
(* error of the UPDATE is dropped.  The checks lie before: a login that was *)
(* let in by the password of before a change may be stored after it, and    *)
(* its session then counts as stored under the new one.                     *)
Issue ==
  /\ last < MaxLogins
  /\ last' = last + 1
  /\ \/ /\ session' = last'
        /\ madeWith' = [madeWith EXCEPT ![last'] = password]
     \/ DbMayFail /\ UNCHANGED <<session, madeWith>>
  /\ UNCHANGED password

(* refresh_token_hash=NULL, by Logout of whichever session                  *)
Revoke ==
  /\ session' = None \/ (DbMayFail /\ UNCHANGED session)
  /\ UNCHANGED <<last, password, madeWith>>

(* Mutant: the sessions survive the change.                                 *)
ChangePasswordOnly ==
  /\ password < MaxChanges
  /\ password' = password + 1
  /\ UNCHANGED <<session, last, madeWith>>

(* ResetPassword: one UPDATE sets the password and ends the session.        *)
ChangePassword ==
  /\ \/ password < MaxChanges /\ password' = password + 1 /\ session' = None
     \/ DbMayFail /\ UNCHANGED <<password, session>>
  /\ UNCHANGED <<last, madeWith>>

(* AuthMiddleware and the handler behind it.  "ok" is also the answer of a  *)
(* handler that fails in its own way, where that makes no difference here.  *)
(* An answer to the retry is delivered as data whatever its status.         *)
HandleCall(c) ==
  LET Answer(first, again) == Go(c, IF call[c].pc = "retry" THEN again ELSE first, None) IN
  /\ call[c].pc \in {"sent", "retry"}
  /\ \/ (* no token, one that has expired, or a wrong current password: 401 *)
        Answer("unauthorized", "data") /\ UNCHANGED server
     \/ /\ call[c].ref # None
        /\ \/ call[c].kind = "data" /\ Answer("ok", "ok") /\ UNCHANGED server
           \/ call[c].kind = "logout" /\ Answer("ok", "ok") /\ Revoke
           \/ call[c].kind = "change" /\ Answer("ok", "ok") /\ ChangePassword
           \/ call[c].kind = "change" /\ Answer("error", "data") /\ UNCHANGED server
  /\ UNCHANGED <<browser, boot, login>>

(* Mutant: the hash is not compared with the one that is stored.            *)
GrantsUnchecked(ref) == ref # None

(* Refresh: the hash of the cookie is the one that is stored.               *)
Grants(ref) == ref # None /\ ref = session

(* Mutant: every refresh puts a new token in place of the old one, which    *)
(* the browser has when the answer arrives.                                 *)
HandleRefreshRotating(c) ==
  /\ call[c].pc = "refresh"
  /\ IF Grants(call[c].ref) /\ last < MaxLogins
       THEN /\ session' = last + 1 /\ last' = last + 1 /\ cookie' = last + 1
            /\ Go(c, "granted", last + 1)
       ELSE Go(c, "refused", call[c].ref) /\ UNCHANGED <<session, last, cookie>>
  /\ UNCHANGED <<password, madeWith, token, page, boot, login>>

(* When the SELECT fails the token counts as revoked.                       *)
HandleRefresh(c) ==
  /\ call[c].pc = "refresh"
  /\ \/ Go(c, IF Grants(call[c].ref) THEN "granted" ELSE "refused", call[c].ref)
     \/ DbMayFail /\ Go(c, "unread", call[c].ref)
  /\ UNCHANGED <<server, browser, boot, login>>

HandleBoot ==
  /\ boot.pc = "refresh"
  /\ \/ boot' = [boot EXCEPT !.pc = IF Grants(boot.ref) THEN "granted" ELSE "refused"]
     \/ DbMayFail /\ boot' = [boot EXCEPT !.pc = "unread"]
  /\ UNCHANGED <<server, browser, call, login>>

HandleLogin ==
  /\ page = "login" /\ login = None
  /\ Issue
  /\ login' = last'
  /\ UNCHANGED <<browser, call, boot>>

(* Somebody logs in, logs out or changes the password on another device.    *)
OtherDevice ==
  /\ \/ Issue
     \/ Revoke /\ session # None
     \/ ChangePassword
  /\ UNCHANGED <<browser, call, boot, login>>
-----------------------------------------------------------------------------
(* The tab.                                                                 *)

(* request(...): the header is the token of now.                            *)
Send(c, kind) ==
  /\ page = "dashboard"
  /\ call[c].pc = "idle"
  /\ call' = [call EXCEPT ![c] = [pc |-> "sent", kind |-> kind, ref |-> Header, stray |-> FALSE]]
  /\ UNCHANGED <<server, browser, boot, login>>

(* Mutant: the answer clears the cookie, and nobody the token.              *)
LeaveAfterKeepingToken(c) ==
  /\ page' = "login"
  /\ call' = AllStray([call EXCEPT ![c] = NoCall])
  /\ UNCHANGED token

(* handleLogout after api.logout(), which may have failed: the token goes,  *)
(* the router shows the login form, calls under way stay under way.         *)
LeaveAfter(c) ==
  /\ token' = NoToken
  /\ page' = "login"
  /\ call' = AllStray([call EXCEPT ![c] = NoCall])

(* The call is over, for the page that made it.                             *)
Finish(c) ==
  \/ call[c].kind = "logout" /\ LeaveAfter(c)
  \/ call[c].kind # "logout" /\ Drop(c) /\ UNCHANGED <<token, page>>

(* The answer has come; that of a logout deletes the cookie.                *)
Receive(c) ==
  /\ call[c].pc \in {"ok", "error", "data"}
  /\ Finish(c)
  /\ cookie' = IF call[c].kind = "logout" /\ call[c].pc = "ok" THEN None ELSE cookie
  /\ UNCHANGED <<server, boot, login>>

(* No answer, or one that got lost: fetch throws.                           *)
Lose(c) ==
  /\ call[c].pc # "idle"
  /\ Finish(c)
  /\ UNCHANGED <<server, cookie, boot, login>>

(* res.status === 401: a refresh, with the cookie of now.                   *)
AskRefresh(c) ==
  /\ call[c].pc = "unauthorized"
  /\ Go(c, "refresh", cookie)
  /\ UNCHANGED <<server, browser, boot, login>>

(* setToken(d.access_token), and the request is sent again with it.         *)
Retry(c) ==
  /\ call[c].pc = "granted"
  /\ token' = Fresh(call[c].ref, call[c].stray)
  /\ Go(c, "retry", call[c].ref)
  /\ UNCHANGED <<server, cookie, page, boot, login>>

(* Mutant: a refusal is answered with another refresh.                      *)
SignOutInsisting(c) ==
  /\ call[c].pc = "refused"
  /\ Go(c, "refresh", cookie)
  /\ UNCHANGED <<server, browser, boot, login>>

(* Loading a page ends what the tab was doing and begins with a refresh.    *)
Load ==
  /\ token' = NoToken
  /\ page' = "loading"
  /\ call' = [c \in Calls |-> NoCall]
  /\ boot' = [NoCall EXCEPT !.pc = "refresh", !.ref = cookie]
  /\ login' = None
  /\ UNCHANGED <<server, cookie>>

(* clearToken(); onAuthFail(): window.location.href = '/login'              *)
SignOut(c) == call[c].pc \in {"refused", "unread"} /\ Load

Reload == page # "loading" /\ Load

(* main.jsx: with a token the dashboard, without one the login form.        *)
Boot ==
  /\ boot.pc # "idle"
  /\ boot' = NoCall
  /\ \/ boot.pc = "granted" /\ token' = Fresh(boot.ref, FALSE) /\ page' = "dashboard"
     \/ (* refused, or lost on the way *)
        token' = token /\ page' = "login"
  /\ UNCHANGED <<server, cookie, call, login>>

(* The answer to the login brings cookie and token.                         *)
EnterDashboard ==
  /\ login # None
  /\ login' = None
  /\ cookie' = login
  /\ token' = Fresh(login, FALSE)
  /\ page' = "dashboard"
  /\ call' = AllStray(call)
  /\ UNCHANGED <<server, boot>>

LoseLogin ==
  /\ login # None
  /\ login' = None
  /\ UNCHANGED <<server, browser, call, boot>>

(* The access token reaches its age.                                        *)
ExpireToken ==
  /\ token.live
  /\ token' = [token EXCEPT !.live = FALSE]
  /\ UNCHANGED <<server, cookie, page, call, boot, login>>

Work(c) == HandleCall(c) \/ Receive(c) \/ AskRefresh(c) \/ HandleRefresh(c) \/ Retry(c) \/ SignOut(c)
User    == Reload \/ HandleLogin \/ \E c \in Calls, k \in Kinds : Send(c, k)
Page    == HandleBoot \/ Boot \/ EnterDashboard

Next ==
  \/ User \/ OtherDevice \/ Page \/ LoseLogin \/ ExpireToken
  \/ \E c \in Calls : Work(c) \/ Lose(c)

Spec ==
  /\ Init /\ [][Next]_vars
  /\ WF_vars(ExpireToken) /\ WF_vars(Page)
  /\ \A c \in Calls : WF_vars(Work(c))
-----------------------------------------------------------------------------
CallType == [pc : Steps, kind : Kinds, ref : Refs, stray : BOOLEAN]

(* The variables keep their types; what the tab, the cookie or a call       *)
(* refers to is a session that was issued.                                  *)
TypeOK ==
  /\ last \in 0 .. MaxLogins /\ session \in 0 .. last
  /\ password \in 0 .. MaxChanges
  /\ madeWith \in [Sessions -> 0 .. MaxChanges]
  /\ cookie \in 0 .. last /\ login \in 0 .. last
  /\ token \in [of : 0 .. last, live : BOOLEAN, stray : BOOLEAN]
  /\ page \in {"login", "loading", "dashboard"}
  /\ call \in [Calls -> CallType] /\ boot \in CallType
  /\ boot.ref <= last /\ \A c \in Calls : call[c].ref <= last

(* The tab speaks for the session the browser holds: its access token is    *)
(* from the session of the cookie, so that logging out, on success or not,  *)
(* or logging in again leaves it with no other.  The exception is a token   *)
(* brought by a call that was already under way at the time.                *)
TabSpeaksForCookie == token.of # None => token.of = cookie \/ token.stray

(* Several calls may find the access token expired at once and refresh side *)
(* by side: none of them is refused, and signs the tab out, while the       *)
(* server still holds the session of this browser, unless the call is from  *)
(* before the login.  ("unread" is not a refusal but a server in trouble.)  *)
SignOutIsJustified ==
  \A c \in Calls :
    call[c].pc = "refused" /\ cookie # None /\ cookie = session => call[c].stray

LiveTokenOf(s) ==
  \/ token.live /\ token.of = s
  \/ boot.pc = "granted" /\ boot.ref = s
  \/ login = s
  \/ \E c \in Calls : call[c].pc \in {"sent", "granted", "retry"} /\ call[c].ref = s

(* A session that is no longer the stored one, because of a logout, a login *)
(* somewhere else or a change of the password, comes to an end: when its    *)
(* access tokens have expired no refresh brings another, for ever.          *)
RevokedSessionEnds ==
  \A s \in Sessions : (s <= last /\ s # session) ~> [](~LiveTokenOf(s))

(* The safety half of it: a session that is no longer stored is never stored *)
(* again, and no refresh, retry, login or page load, however late, makes a   *)
(* live token of it where there was none.                                    *)
RevokedStaysOut ==
  [][\A s \in Sessions :
       s <= last /\ s # session => s # session' /\ (LiveTokenOf(s)' => LiveTokenOf(s))]_vars

(* "All sessions revoked": whoever was in when the password was changed is  *)
(* out in the end.                                                          *)
ChangeShutsOut ==
  \A s \in Sessions : (s <= last /\ madeWith[s] < password) ~> [](~LiveTokenOf(s))

(* The safety half of it: the session that is stored was stored after the    *)
(* last change of the password, so that the others are revoked ones.         *)
StoredSinceChange == session # None => madeWith[session] = password

(* The steps a call is at most from its end.                                 *)
StepsLeft(pc) ==
  CASE pc = "idle"         -> 0
    [] pc = "sent"         -> 6
    [] pc = "unauthorized" -> 5
    [] pc = "refresh"      -> 4
    [] pc = "granted"      -> 3
    [] pc = "retry"        -> 2
    [] OTHER               -> 1

(* A call only ever gets nearer to its end, whatever the other calls, the    *)
(* page and the server do: it cannot refresh twice or be retried twice.      *)
CallsOnlyAdvance ==
  [][\A c \in Calls : call[c].pc # "idle" =>
       call'[c].pc = call[c].pc \/ StepsLeft(call'[c].pc) < StepsLeft(call[c].pc)]_vars

(* Every call comes to an end, after one refresh and one retry at most.     *)
CallsSettle == \A c \in Calls : call[c].pc # "idle" ~> call[c].pc = "idle"
=============================================================================
