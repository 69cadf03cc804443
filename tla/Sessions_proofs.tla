----------------------------- MODULE Sessions_proofs -----------------------------
(***************************************************************************)
(* For any number of calls under way, logins and changes of the password.  *)
(***************************************************************************)
EXTENDS Sessions, TLAPS

(* A page begins with nothing under way but its refresh.                    *)
FreshPage ==
  boot.pc # "idle" =>
    page = "loading" /\ login = None /\ \A c \in Calls : call[c].pc = "idle"

(* The cookie that was sent is still there, for a call that is not stray    *)
(* and for the refresh of a page.                                           *)
CookieSent ==
  /\ boot.pc # "idle" => boot.ref = cookie
  /\ \A c \in Calls :
       call[c].pc \in {"refresh", "granted", "refused"} => call[c].ref = cookie \/ call[c].stray

(* What was refused is not stored, and never will be again.                 *)
RefusedIsGone == \A c \in Calls : call[c].pc = "refused" => call[c].ref = None \/ call[c].ref # session

Inv == TypeOK /\ FreshPage /\ CookieSent /\ RefusedIsGone /\ TabSpeaksForCookie

USE BoundsAssumption, DbFailsAssumption

(* No call is a call, and idle.                                              *)
LEMMA NoCallType == NoCall \in CallType /\ NoCall.pc = "idle" /\ NoCall.ref = 0
BY DEF NoCall, CallType, Steps, Kinds, Refs, None

(* The literals of the tokens have their types.                              *)
LEMMA Literals ==
  /\ TRUE \in BOOLEAN /\ FALSE \in BOOLEAN
  /\ \A s \in Nat : \A b \in BOOLEAN : Fresh(s, b) \in [of : {s}, live : BOOLEAN, stray : BOOLEAN]
  /\ NoToken.of = 0 /\ NoToken \in [of : {0}, live : BOOLEAN, stray : BOOLEAN]
BY DEF Fresh, NoToken, None

(* What refers to a session still does when more have been issued.          *)
LEMMA TokenGrows ==
  ASSUME NEW m \in Nat, NEW n \in Nat, m <= n,
         NEW t \in [of : 0 .. m, live : BOOLEAN, stray : BOOLEAN]
  PROVE  t \in [of : 0 .. n, live : BOOLEAN, stray : BOOLEAN]
OBVIOUS

(* The server's side of a step: what was issued only grows, and what is not *)
(* stored any more is not stored again.                                     *)
ServerStep == /\ last' \in last .. MaxLogins /\ session' \in 0 .. last'
              /\ password' \in 0 .. MaxChanges
              /\ madeWith' \in [Sessions -> 0 .. MaxChanges]
              /\ session' \in {session, None} \cup {last + 1}
              /\ session' = last + 1 => last' = last + 1

(* A login moves the server to a new session.                                *)
LEMMA IssueStep == TypeOK /\ Issue => ServerStep
<1> SUFFICES ASSUME TypeOK, Issue PROVE ServerStep
  OBVIOUS
<1>1. last' = last + 1 /\ last' \in Sessions /\ last' \in last .. MaxLogins /\ password' = password
  BY DEF TypeOK, Issue, Sessions
<1>2. madeWith' \in [Sessions -> 0 .. MaxChanges]
  BY <1>1 DEF TypeOK, Issue
<1>3. session' = last' \/ session' = session
  BY DEF Issue
<1> QED
  BY <1>1, <1>2, <1>3 DEF TypeOK, ServerStep

(* A logout moves the server to no session.                                  *)
LEMMA RevokeStep == TypeOK /\ Revoke => ServerStep
BY DEF TypeOK, Revoke, ServerStep, Sessions, None

(* A change of the password moves the server to no session and a new         *)
(* password.                                                                 *)
LEMMA ChangeStep == TypeOK /\ ChangePassword => ServerStep
BY DEF TypeOK, ChangePassword, ServerStep, Sessions, None

(* A server that stands still has made a server step.                        *)
LEMMA StandStep == TypeOK /\ UNCHANGED server => ServerStep
BY DEF TypeOK, server, ServerStep, Sessions, None

(* A step of the server that leaves the browser alone.                      *)
LEMMA ServerInv ==
  ASSUME Inv, ServerStep, UNCHANGED <<browser, call, boot>>, login' \in 0 .. last',
         login' = login \/ page = "login"
  PROVE  Inv'
<1>0. last \in Nat /\ last' \in Nat /\ last <= last' /\ last' <= MaxLogins
  BY DEF Inv, TypeOK, ServerStep
<1>01. token' \in [of : 0 .. last', live : BOOLEAN, stray : BOOLEAN]
  BY <1>0, TokenGrows DEF Inv, TypeOK, browser
<1>02. call' \in [Calls -> CallType] /\ boot' \in CallType
       /\ boot'.ref <= last' /\ \A c \in Calls : call'[c].ref <= last'
  BY <1>0 DEF Inv, TypeOK, CallType, Refs
<1>1. TypeOK'
  BY <1>0, <1>01, <1>02 DEF Inv, TypeOK, ServerStep, browser
<1> USE DEF Inv, TypeOK, ServerStep, browser
<1>2. FreshPage'
  BY DEF FreshPage
<1>3. CookieSent' /\ TabSpeaksForCookie'
  BY DEF CookieSent, TabSpeaksForCookie
<1>4. RefusedIsGone'
  BY DEF RefusedIsGone, CallType, Refs, None
<1> QED
  BY <1>1, <1>2, <1>3, <1>4

(* A step with which one call goes on, whatever the server does.            *)
LEMMA GoInv ==
  ASSUME Inv, ServerStep, UNCHANGED <<browser, boot, login>>,
         NEW c \in Calls, call[c].pc # "idle", NEW pc \in Steps, NEW ref \in 0 .. last', Go(c, pc, ref),
         pc \in {"refresh", "granted", "refused"} => ref = cookie \/ call[c].stray,
         pc = "refused" => ref = None \/ (ref # session' /\ UNCHANGED server)
  PROVE  Inv'
<1>0. last \in Nat /\ last' \in Nat /\ last <= last' /\ last' <= MaxLogins
  BY DEF Inv, TypeOK, ServerStep
<1>01. token' \in [of : 0 .. last', live : BOOLEAN, stray : BOOLEAN]
  BY <1>0, TokenGrows DEF Inv, TypeOK, browser
<1>1. call' \in [Calls -> CallType] /\ \A d \in Calls : call'[d].ref <= last'
  <2>0. call[c] \in CallType /\ ref \in Refs
    BY <1>0 DEF Inv, TypeOK, Refs
  <2>1. [call[c] EXCEPT !.pc = pc, !.ref = ref] \in CallType
    BY <2>0 DEF CallType
  <2>2. call' = [call EXCEPT ![c] = [call[c] EXCEPT !.pc = pc, !.ref = ref]]
    BY DEF Go, Inv, TypeOK, CallType
  <2>3. [call[c] EXCEPT !.pc = pc, !.ref = ref].ref = ref
    BY DEF Inv, TypeOK, CallType
  <2>4. \A d \in Calls : call[d].ref \in Nat /\ call[d].ref <= last
    BY DEF Inv, TypeOK, CallType, Refs
  <2> QED
    BY <1>0, <2>1, <2>2, <2>3, <2>4 DEF Inv, TypeOK
<1>2. TypeOK'
  BY <1>0, <1>01, <1>1 DEF Inv, TypeOK, ServerStep, browser, CallType, Refs
<1> USE DEF Inv, TypeOK, ServerStep, browser
<1>3. /\ \A d \in Calls \ {c} : call'[d] = call[d]
      /\ call'[c].pc = pc /\ call'[c].ref = ref /\ call'[c].stray = call[c].stray
  BY DEF Go, CallType
<1>4. FreshPage'
  BY <1>3 DEF FreshPage
<1>5. CookieSent' /\ TabSpeaksForCookie'
  BY <1>3 DEF CookieSent, TabSpeaksForCookie
<1>6. RefusedIsGone'
  BY <1>3 DEF RefusedIsGone, CallType, Refs, None
<1> QED
  BY <1>2, <1>4, <1>5, <1>6

(* A step that ends calls, or all of them but some that become stray.       *)
Ended == /\ call' \in [Calls -> CallType]
         /\ \A c \in Calls : \/ call'[c].pc = "idle" /\ call'[c].ref = 0
                            \/ /\ call'[c].pc = call[c].pc /\ call'[c].ref = call[c].ref
                               /\ call[c].stray => call'[c].stray

(* What becomes of the calls under way when the tab changes hands.           *)
LEMMA AllStrayEnds ==
  ASSUME NEW cs \in [Calls -> CallType]
  PROVE  /\ AllStray(cs) \in [Calls -> CallType]
         /\ \A c \in Calls :
              IF cs[c].pc = "idle" THEN AllStray(cs)[c] = NoCall
              ELSE /\ AllStray(cs)[c].pc = cs[c].pc /\ AllStray(cs)[c].ref = cs[c].ref
                   /\ AllStray(cs)[c].stray = TRUE
<1>1. \A c \in Calls : [cs[c] EXCEPT !.stray = TRUE] \in CallType
  BY DEF CallType
<1>2. \A c \in Calls : /\ [cs[c] EXCEPT !.stray = TRUE].pc = cs[c].pc
                      /\ [cs[c] EXCEPT !.stray = TRUE].ref = cs[c].ref
                      /\ [cs[c] EXCEPT !.stray = TRUE].stray = TRUE
  BY DEF CallType
<1> QED
  BY <1>1, <1>2, NoCallType DEF AllStray

(* A step after which all calls are over or stray keeps the invariant.       *)
LEMMA EndedInv ==
  ASSUME Inv, UNCHANGED server, Ended, cookie' \in 0 .. last, login' \in 0 .. last,
         token' \in [of : 0 .. last, live : BOOLEAN, stray : BOOLEAN],
         page' \in {"login", "loading", "dashboard"},
         boot' \in CallType, boot'.ref <= last,
         FreshPage', TabSpeaksForCookie',
         boot'.pc # "idle" => boot'.ref = cookie',
         cookie' = cookie \/ \A c \in Calls : call'[c].pc # "idle" => call'[c].stray
  PROVE  Inv'
<1> USE DEF Inv, server, Ended
<1>1. \A c \in Calls : call'[c].ref <= last
  BY DEF TypeOK
<1>2. TypeOK'
  BY <1>1 DEF TypeOK
<1>3. CookieSent'
  BY DEF CookieSent
<1>4. RefusedIsGone'
  BY DEF RefusedIsGone
<1> QED
  BY <1>2, <1>3, <1>4

(* Loading a page keeps the invariant.                                       *)
LEMMA LoadInv == Inv /\ Load => Inv'
<1> SUFFICES ASSUME Inv, Load PROVE Inv'
  OBVIOUS
<1>1. Ended
  BY NoCallType DEF Load, Ended
<1>2. /\ boot' \in CallType /\ boot'.pc = "refresh" /\ boot'.ref = cookie
      /\ cookie \in 0 .. last /\ last \in Nat /\ last <= MaxLogins
  <2>1. cookie \in 0 .. last /\ last \in Nat /\ last <= MaxLogins
    BY DEF Inv, TypeOK
  <2>2. "refresh" \in Steps /\ cookie \in Refs
    BY <2>1 DEF Steps, Refs
  <2>3. boot' = [NoCall EXCEPT !.pc = "refresh", !.ref = cookie]
    BY DEF Load
  <2>4. boot' \in CallType /\ boot'.pc = "refresh" /\ boot'.ref = cookie
    BY <2>2, <2>3, NoCallType DEF CallType
  <2> QED
    BY <2>1, <2>4
<1>3. token' \in [of : 0 .. last, live : BOOLEAN, stray : BOOLEAN] /\ token'.of = 0
  BY <1>2, Literals, TokenGrows DEF Load
<1>4. FreshPage' /\ TabSpeaksForCookie'
  BY <1>3, NoCallType DEF Load, FreshPage, TabSpeaksForCookie, None
<1>5. UNCHANGED <<server, cookie>> /\ login' = 0 /\ page' = "loading"
  BY DEF Load, None
<1> QED
  BY <1>1, <1>2, <1>3, <1>4, <1>5, EndedInv

(* The end of a call keeps the invariant.                                    *)
LEMMA FinishInv ==
  ASSUME Inv, NEW c \in Calls, call[c].pc # "idle", Finish(c), UNCHANGED <<server, boot, login>>,
         cookie' = cookie \/ (call[c].kind = "logout" /\ cookie' = None)
  PROVE  Inv'
<1>1. /\ cookie' \in 0 .. last /\ boot.pc = "idle" /\ last \in Nat
      /\ call \in [Calls -> CallType]
  BY DEF Inv, TypeOK, FreshPage, None
<1>2. CASE call[c].kind = "logout" /\ LeaveAfter(c)
  <2>1. [call EXCEPT ![c] = NoCall] \in [Calls -> CallType]
    BY <1>1, NoCallType
  <2>2. Ended /\ \A d \in Calls : call'[d].pc # "idle" => call'[d].stray
    BY <1>1, <1>2, <2>1, NoCallType, AllStrayEnds DEF LeaveAfter, Ended
  <2>3. token' \in [of : 0 .. last, live : BOOLEAN, stray : BOOLEAN] /\ token'.of = 0
    BY <1>1, <1>2, Literals, TokenGrows DEF LeaveAfter
  <2>4. FreshPage' /\ TabSpeaksForCookie'
    BY <1>1, <2>3 DEF FreshPage, TabSpeaksForCookie, None
  <2> QED
    BY <1>1, <1>2, <2>2, <2>3, <2>4, EndedInv DEF LeaveAfter, Inv, TypeOK
<1>3. CASE call[c].kind # "logout" /\ Drop(c) /\ UNCHANGED <<token, page>>
  <2>1. Ended
    BY <1>1, <1>3, NoCallType DEF Drop, Ended
  <2>2. FreshPage' /\ TabSpeaksForCookie'
    BY <1>1, <1>3 DEF FreshPage, TabSpeaksForCookie, Inv
  <2> QED
    BY <1>1, <1>3, <2>1, <2>2, EndedInv DEF Inv, TypeOK
<1> QED
  BY <1>2, <1>3 DEF Finish

(* The invariant holds at the beginning.                                     *)
LEMMA InvInit == Init => Inv
<1> SUFFICES ASSUME Init PROVE Inv
  OBVIOUS
<1>1. token \in [of : 0 .. 0, live : BOOLEAN, stray : BOOLEAN] /\ token.of = 0
  BY Literals, TokenGrows DEF Init
<1>2. call \in [Calls -> CallType] /\ boot \in CallType /\ boot.pc = "idle" /\ boot.ref = 0
      /\ \A c \in Calls : call[c].pc = "idle" /\ call[c].ref = 0
  BY NoCallType DEF Init
<1>3. TypeOK
  BY <1>1, <1>2 DEF Init, TypeOK, None
<1> QED
  BY <1>1, <1>2, <1>3 DEF Inv, FreshPage, CookieSent, RefusedIsGone, TabSpeaksForCookie, None

(* The invariant is inductive.                                               *)
LEMMA InvStep == Inv /\ [Next]_vars => Inv'
<1> SUFFICES ASSUME Inv, [Next]_vars PROVE Inv'
  OBVIOUS
<1>t. /\ last \in Nat /\ last <= MaxLogins /\ login \in 0 .. last /\ cookie \in 0 .. last
      /\ call \in [Calls -> CallType] /\ boot \in CallType /\ boot.ref <= last
      /\ \A c \in Calls : call[c].ref \in 0 .. last
  BY DEF Inv, TypeOK, CallType, Refs
<1>0. UNCHANGED server => ServerStep /\ last' = last /\ session' = session
  BY StandStep DEF Inv, server
<1>1. ASSUME NEW c \in Calls, HandleCall(c) PROVE Inv'
  <2>1. PICK pc \in {"unauthorized", "data", "ok", "error"} : Go(c, pc, 0)
    BY <1>1, Zenon DEF HandleCall, None
  <2>2. ServerStep
    BY <1>1, <1>0, RevokeStep, ChangeStep, Zenon DEF HandleCall, Inv
  <2>3. 0 \in 0 .. last' /\ pc \in Steps
    BY <2>1, <2>2, <1>t DEF ServerStep, Steps
  <2>4. call[c].pc # "idle" /\ UNCHANGED <<browser, boot, login>>
    BY <1>1 DEF HandleCall
  <2> QED
    BY <2>1, <2>2, <2>3, <2>4, GoInv
<1>2. ASSUME NEW c \in Calls, HandleRefresh(c) PROVE Inv'
  <2>1. PICK pc \in {"granted", "refused", "unread"} :
          Go(c, pc, call[c].ref) /\ (pc = "refused" => ~Grants(call[c].ref))
    BY <1>2, Zenon DEF HandleRefresh
  <2>2. pc \in Steps /\ (pc = "refused" => call[c].ref = None \/ call[c].ref # session)
    BY <2>1 DEF Steps, Grants
  <2>3. call[c].pc = "refresh" /\ UNCHANGED <<server, browser, boot, login>>
    BY <1>2 DEF HandleRefresh
  <2>4. call[c].ref = cookie \/ call[c].stray
    BY <2>3 DEF Inv, CookieSent
  <2> QED
    BY <1>0, <1>t, <2>1, <2>2, <2>3, <2>4, GoInv
<1>3. ASSUME NEW c \in Calls, AskRefresh(c) PROVE Inv'
  BY <1>0, <1>t, <1>3, GoInv DEF AskRefresh, Steps
<1>4. ASSUME NEW c \in Calls, Retry(c) PROVE Inv'
  <2>1. /\ call[c].pc = "granted" /\ call'[c].pc = "retry" /\ call'[c].ref = call[c].ref
        /\ call'[c].stray = call[c].stray /\ call' \in [Calls -> CallType]
        /\ \A d \in Calls \ {c} : call'[d] = call[d]
    BY <1>4, <1>t DEF Retry, Go, CallType, Steps
  <2>3. token' \in [of : 0 .. last, live : BOOLEAN, stray : BOOLEAN]
        /\ token'.of = call[c].ref /\ token'.stray = call[c].stray
    BY <1>4, <1>t DEF Retry, Fresh, CallType
  <2>4. UNCHANGED <<server, cookie, page, boot, login>>
    BY <1>4 DEF Retry
  <2>5. TypeOK'
    BY <1>t, <2>1, <2>3, <2>4 DEF Inv, TypeOK, server
  <2>6. FreshPage'
    BY <2>1, <2>4 DEF Inv, FreshPage
  <2>7. CookieSent' /\ RefusedIsGone'
    BY <2>1, <2>4 DEF Inv, CookieSent, RefusedIsGone, server
  <2>8. TabSpeaksForCookie'
    BY <2>1, <2>3, <2>4 DEF Inv, CookieSent, TabSpeaksForCookie
  <2> QED
    BY <2>5, <2>6, <2>7, <2>8 DEF Inv
<1>5. ASSUME NEW c \in Calls, Receive(c) PROVE Inv'
  BY <1>5, FinishInv DEF Receive
<1>6. ASSUME NEW c \in Calls, Lose(c) PROVE Inv'
  BY <1>6, FinishInv DEF Lose
<1>7. CASE Load
  BY <1>7, LoadInv
<1>8. ASSUME NEW c \in Calls, NEW kind \in Kinds, Send(c, kind) PROVE Inv'
  <2>1. Header \in 0 .. last
    BY <1>t DEF Header, None, Inv, TypeOK
  <2>2. /\ call' \in [Calls -> CallType] /\ call'[c].pc = "sent" /\ call'[c].ref \in 0 .. last
        /\ \A d \in Calls \ {c} : call'[d] = call[d]
    BY <1>8, <1>t, <2>1 DEF Send, CallType, Steps, Refs
  <2>3. page = "dashboard" /\ UNCHANGED <<server, browser, boot, login>>
    BY <1>8 DEF Send
  <2>4. TypeOK'
    BY <1>t, <2>2, <2>3 DEF Inv, TypeOK, server, browser
  <2>5. FreshPage' /\ CookieSent' /\ RefusedIsGone' /\ TabSpeaksForCookie'
    BY <2>2, <2>3 DEF Inv, FreshPage, CookieSent, RefusedIsGone, TabSpeaksForCookie, server, browser
  <2> QED
    BY <2>4, <2>5 DEF Inv
<1>9. CASE HandleLogin
  BY <1>9, IssueStep, ServerInv DEF HandleLogin, Inv, ServerStep
<1>10. CASE OtherDevice
  <2>1. ServerStep
    BY <1>10, IssueStep, RevokeStep, ChangeStep DEF OtherDevice, Inv
  <2> QED
    BY <1>10, <1>t, <2>1, ServerInv DEF OtherDevice, ServerStep
<1>11. CASE HandleBoot
  <2>1. boot' \in CallType /\ boot'.ref = boot.ref /\ boot.pc # "idle"
    BY <1>11, <1>t DEF HandleBoot, CallType, Steps
  <2>2. UNCHANGED <<server, browser, call, login>>
    BY <1>11 DEF HandleBoot
  <2>3. TypeOK'
    BY <1>t, <2>1, <2>2 DEF Inv, TypeOK, server, browser
  <2>4. FreshPage' /\ CookieSent' /\ RefusedIsGone' /\ TabSpeaksForCookie'
    BY <2>1, <2>2 DEF Inv, FreshPage, CookieSent, RefusedIsGone, TabSpeaksForCookie, server, browser
  <2> QED
    BY <2>3, <2>4 DEF Inv
<1>12. CASE Boot
  <2>1. boot' \in CallType /\ boot'.pc = "idle" /\ boot'.ref = 0
    BY <1>12, NoCallType DEF Boot
  <2>2. token' = token \/ token' = Fresh(boot.ref, FALSE)
    BY <1>12 DEF Boot
  <2>3. boot.ref = cookie /\ boot.ref \in 0 .. last
    BY <1>12, <1>t DEF Boot, Inv, CookieSent
  <2>4. token' \in [of : 0 .. last, live : BOOLEAN, stray : BOOLEAN] /\ (token' = token \/ token'.of = cookie)
    <3>1. Fresh(boot.ref, FALSE) \in [of : 0 .. last, live : BOOLEAN, stray : BOOLEAN]
      BY <2>3 DEF Fresh
    <3>2. Fresh(boot.ref, FALSE).of = cookie
      BY <2>3 DEF Fresh
    <3>3. token \in [of : 0 .. last, live : BOOLEAN, stray : BOOLEAN]
      BY DEF Inv, TypeOK
    <3> QED
      BY <2>2, <3>1, <3>2, <3>3
  <2>5. UNCHANGED <<server, cookie, call, login>> /\ page' \in {"login", "loading", "dashboard"}
    BY <1>12 DEF Boot
  <2>6. TypeOK'
    BY <1>t, <2>1, <2>4, <2>5 DEF Inv, TypeOK, server
  <2>7. FreshPage' /\ CookieSent' /\ RefusedIsGone' /\ TabSpeaksForCookie'
    BY <2>1, <2>4, <2>5 DEF Inv, FreshPage, CookieSent, RefusedIsGone, TabSpeaksForCookie, server
  <2> QED
    BY <2>6, <2>7 DEF Inv
<1>13. CASE EnterDashboard
  <2>1. boot.pc = "idle"
    BY <1>13 DEF EnterDashboard, Inv, FreshPage
  <2>2. Ended /\ \A d \in Calls : call'[d].pc # "idle" => call'[d].stray
    BY <1>13, <1>t, NoCallType, AllStrayEnds DEF EnterDashboard, Ended
  <2>3. token' \in [of : 0 .. last, live : BOOLEAN, stray : BOOLEAN] /\ token'.of = cookie'
    BY <1>13, <1>t DEF EnterDashboard, Fresh
  <2>4. /\ cookie' = login /\ login' = 0 /\ page' = "dashboard"
        /\ UNCHANGED server /\ UNCHANGED boot
    BY <1>13 DEF EnterDashboard, None
  <2>5. FreshPage' /\ TabSpeaksForCookie'
    BY <2>1, <2>3, <2>4 DEF FreshPage, TabSpeaksForCookie
  <2> QED
    BY <1>t, <2>1, <2>2, <2>3, <2>4, <2>5, EndedInv
<1>14. CASE LoseLogin
  <2>1. login' = 0 /\ UNCHANGED <<server, browser, call, boot>>
    BY <1>14 DEF LoseLogin, None
  <2>2. TypeOK'
    BY <1>t, <2>1 DEF Inv, TypeOK, server, browser
  <2>3. FreshPage' /\ CookieSent' /\ RefusedIsGone' /\ TabSpeaksForCookie'
    BY <2>1 DEF Inv, FreshPage, CookieSent, RefusedIsGone, TabSpeaksForCookie, server, browser, None
  <2> QED
    BY <2>2, <2>3 DEF Inv
<1>15. CASE ExpireToken
  <2>1. token' \in [of : 0 .. last, live : BOOLEAN, stray : BOOLEAN]
        /\ token'.of = token.of /\ token'.stray = token.stray
    BY <1>15 DEF ExpireToken, Inv, TypeOK
  <2>2. UNCHANGED <<server, cookie, page, call, boot, login>>
    BY <1>15 DEF ExpireToken
  <2>3. TypeOK'
    BY <1>t, <2>1, <2>2 DEF Inv, TypeOK, server
  <2>4. FreshPage' /\ CookieSent' /\ RefusedIsGone' /\ TabSpeaksForCookie'
    BY <2>1, <2>2 DEF Inv, FreshPage, CookieSent, RefusedIsGone, TabSpeaksForCookie, server
  <2> QED
    BY <2>3, <2>4 DEF Inv
<1>16. CASE UNCHANGED vars
  BY <1>16 DEF vars, server, browser, Inv, TypeOK, FreshPage, CookieSent, RefusedIsGone, TabSpeaksForCookie
<1> QED
  BY <1>1, <1>2, <1>3, <1>4, <1>5, <1>6, <1>7, <1>8, <1>9, <1>10, <1>11, <1>12, <1>13, <1>14, <1>15, <1>16
  DEF Next, User, Page, Work, SignOut, Reload

(* The invariant holds in every reachable state.                             *)
LEMMA Invariance == Spec => []Inv
BY InvInit, InvStep, PTL DEF Spec

(* The variables keep their types, and nothing refers to a session that was *)
(* not issued.                                                              *)
THEOREM SessionTypeCorrect == Spec => []TypeOK
<1>1. Inv => TypeOK
  BY DEF Inv
<1> QED
  BY <1>1, Invariance, PTL

(* The token of the tab is from the session of the cookie, or stray.        *)
THEOREM TabTokenIsOwn == Spec => []TabSpeaksForCookie
<1>1. Inv => TabSpeaksForCookie
  BY DEF Inv
<1> QED
  BY <1>1, Invariance, PTL

(* Refreshing side by side signs nobody out whose session is stored.        *)
THEOREM NobodyIsSignedOut == Spec => []SignOutIsJustified
<1>1. Inv => SignOutIsJustified
  BY DEF Inv, CookieSent, RefusedIsGone, SignOutIsJustified
<1> QED
  BY <1>1, Invariance, PTL

-----------------------------------------------------------------------------
(* What a step may bring of session s without making a live token of it.     *)
Quiet(s) ==
  /\ token'.live /\ token'.of = s => LiveTokenOf(s)
  /\ boot'.pc = "granted" /\ boot'.ref = s => LiveTokenOf(s)
  /\ login' = s => LiveTokenOf(s)
  /\ \A c \in Calls : call'[c].pc \in {"sent", "granted", "retry"} /\ call'[c].ref = s
                     => LiveTokenOf(s)

(* Where nothing refers anew to a session it gets no live token.             *)
LEMMA QuietTokens ==
  ASSUME NEW s \in Sessions, Quiet(s)
  PROVE  LiveTokenOf(s)' => LiveTokenOf(s)
BY DEF Quiet, LiveTokenOf

(* What does not change is quiet.                                            *)
LEMMA QuietSame ==
  ASSUME NEW s \in Sessions
  PROVE  /\ token' = token => (token'.live /\ token'.of = s => LiveTokenOf(s))
         /\ boot' = boot => (boot'.pc = "granted" /\ boot'.ref = s => LiveTokenOf(s))
         /\ login' = login => (login' = s => LiveTokenOf(s))
         /\ call' = call =>
              \A c \in Calls : call'[c].pc \in {"sent", "granted", "retry"} /\ call'[c].ref = s
                               => LiveTokenOf(s)
<1>1. token.live /\ token.of = s => LiveTokenOf(s)
  BY DEF LiveTokenOf
<1>2. boot.pc = "granted" /\ boot.ref = s => LiveTokenOf(s)
  BY DEF LiveTokenOf
<1>3. login = s => LiveTokenOf(s)
  BY DEF LiveTokenOf
<1>4. \A c \in Calls : call[c].pc \in {"sent", "granted", "retry"} /\ call[c].ref = s
                       => LiveTokenOf(s)
  BY DEF LiveTokenOf
<1> QED BY <1>1, <1>2, <1>3, <1>4

(* One call goes on, and nothing else that could hold a token changes.       *)
LEMMA QuietGo ==
  ASSUME Inv, NEW s \in Sessions, NEW c \in Calls, NEW pc, NEW ref, Go(c, pc, ref),
         UNCHANGED <<token, boot, login>>,
         pc \in {"sent", "granted", "retry"} /\ ref = s => LiveTokenOf(s)
  PROVE  Quiet(s)
<1>1. call \in [Calls -> CallType]
  BY DEF Inv, TypeOK
<1>2. /\ call'[c].pc = pc /\ call'[c].ref = ref
      /\ \A d \in Calls \ {c} : call'[d] = call[d]
  BY <1>1 DEF Go, CallType
<1> QED BY <1>1, <1>2 DEF Quiet, LiveTokenOf

(* Calls end, and the page, the boot and the login bring nothing of s.       *)
LEMMA QuietEnd ==
  ASSUME NEW s \in Sessions, Ended,
         token' = token \/ token'.of # s \/ LiveTokenOf(s),
         boot' = boot \/ boot'.pc # "granted",
         login' \in {login, None}
  PROVE  Quiet(s)
<1>1. s # 0 /\ login' = s => LiveTokenOf(s)
  BY DEF LiveTokenOf, None
<1>2. s # 0
  BY DEF Sessions
<1> QED BY <1>1, <1>2 DEF Quiet, LiveTokenOf, Ended, None

(* No step makes a live token of a session that is not the stored one, and   *)
(* none stores it again.                                                     *)
LEMMA RevokedStep ==
  ASSUME Inv, [Next]_vars, NEW s \in Sessions, s <= last, s # session
  PROVE  s # session' /\ (LiveTokenOf(s)' => LiveTokenOf(s))
<1>t. /\ s \in Nat /\ s # 0 /\ last \in Nat
      /\ call \in [Calls -> CallType] /\ boot \in CallType
  BY DEF Sessions, Inv, TypeOK
<1>0. UNCHANGED server => ServerStep
  BY StandStep DEF Inv
<1>s. ServerStep => s # session'
  BY <1>t DEF ServerStep, None
<1> SUFFICES ServerStep /\ Quiet(s)
  BY <1>s, QuietTokens
<1>1. ASSUME NEW c \in Calls, HandleCall(c) PROVE ServerStep /\ Quiet(s)
  <2>1. PICK pc \in {"unauthorized", "data", "ok", "error"} : Go(c, pc, 0)
    BY <1>1, Zenon DEF HandleCall, None
  <2>2. ServerStep
    BY <1>1, <1>0, RevokeStep, ChangeStep, Zenon DEF HandleCall, Inv
  <2>3. UNCHANGED <<token, boot, login>>
    BY <1>1 DEF HandleCall, browser
  <2> QED BY <2>1, <2>2, <2>3, QuietGo
<1>2. ASSUME NEW c \in Calls, HandleRefresh(c) PROVE ServerStep /\ Quiet(s)
  <2>1. PICK pc \in {"granted", "refused", "unread"} :
          Go(c, pc, call[c].ref) /\ (pc = "granted" => Grants(call[c].ref))
    BY <1>2, Zenon DEF HandleRefresh
  <2>2. pc = "granted" => call[c].ref # s
    BY <2>1 DEF Grants
  <2>3. UNCHANGED <<token, boot, login>> /\ UNCHANGED server
    BY <1>2 DEF HandleRefresh, browser
  <2> QED BY <1>0, <2>1, <2>2, <2>3, QuietGo
<1>3. ASSUME NEW c \in Calls, AskRefresh(c) PROVE ServerStep /\ Quiet(s)
  <2>1. Go(c, "refresh", cookie) /\ UNCHANGED <<token, boot, login>> /\ UNCHANGED server
    BY <1>3 DEF AskRefresh, browser
  <2> QED BY <1>0, <2>1, QuietGo
<1>4. ASSUME NEW c \in Calls, Retry(c) PROVE ServerStep /\ Quiet(s)
  <2>1. /\ call[c].pc = "granted" /\ token'.of = call[c].ref
        /\ UNCHANGED <<boot, login>> /\ UNCHANGED server
    BY <1>4 DEF Retry, Fresh
  <2>2. /\ call'[c].ref = call[c].ref
        /\ \A d \in Calls \ {c} : call'[d] = call[d]
    BY <1>4, <1>t DEF Retry, Go, CallType
  <2> QED BY <1>0, <2>1, <2>2 DEF Quiet, LiveTokenOf
<1>5. ASSUME NEW c \in Calls, Finish(c), UNCHANGED <<server, boot, login>>
      PROVE  ServerStep /\ Quiet(s)
  <2>1. CASE LeaveAfter(c)
    <3>1. [call EXCEPT ![c] = NoCall] \in [Calls -> CallType]
      BY <1>t, NoCallType
    <3>2. Ended
      BY <1>t, <2>1, <3>1, NoCallType, AllStrayEnds DEF LeaveAfter, Ended
    <3>3. token'.of # s
      BY <1>t, <2>1, Literals DEF LeaveAfter
    <3> QED BY <1>0, <1>5, <3>2, <3>3, QuietEnd
  <2>2. CASE Drop(c) /\ UNCHANGED <<token, page>>
    <3>1. Ended
      BY <1>t, <2>2, NoCallType DEF Drop, Ended
    <3> QED BY <1>0, <1>5, <2>2, <3>1, QuietEnd
  <2> QED BY <1>5, <2>1, <2>2 DEF Finish
<1>6. CASE Load
  <2>1. Ended
    BY <1>6, NoCallType DEF Load, Ended
  <2>2. token'.of # s /\ boot'.pc = "refresh" /\ login' = None /\ UNCHANGED server
    BY <1>6, <1>t, NoCallType, Literals DEF Load, CallType
  <2> QED BY <1>0, <2>1, <2>2, QuietEnd
<1>7. ASSUME NEW c \in Calls, NEW kind \in Kinds, Send(c, kind) PROVE ServerStep /\ Quiet(s)
  <2>1. /\ call'[c].ref = Header
        /\ \A d \in Calls \ {c} : call'[d] = call[d]
    BY <1>7, <1>t DEF Send
  <2>2. Header = s => LiveTokenOf(s)
    BY <1>t DEF Header, LiveTokenOf, None
  <2>3. UNCHANGED <<token, boot, login>> /\ UNCHANGED server
    BY <1>7 DEF Send, browser
  <2> QED BY <1>0, <2>1, <2>2, <2>3 DEF Quiet, LiveTokenOf
<1>8. CASE HandleLogin
  <2>1. ServerStep /\ login' = last + 1
    BY <1>8, IssueStep DEF HandleLogin, Inv, Issue
  <2>2. UNCHANGED <<token, boot, call>>
    BY <1>8 DEF HandleLogin, browser
  <2> QED BY <1>t, <2>1, <2>2, QuietSame DEF Quiet
<1>9. CASE OtherDevice
  <2>1. ServerStep
    BY <1>9, IssueStep, RevokeStep, ChangeStep DEF OtherDevice, Inv
  <2>2. UNCHANGED <<token, boot, call, login>>
    BY <1>9 DEF OtherDevice, browser
  <2> QED BY <2>1, <2>2, QuietSame DEF Quiet
<1>10. CASE HandleBoot
  <2>1. UNCHANGED <<token, call, login>> /\ UNCHANGED server
    BY <1>10 DEF HandleBoot, browser
  <2>2. boot'.pc = "granted" => boot'.ref = session
    BY <1>10, <1>t DEF HandleBoot, Grants, CallType
  <2>3. ServerStep
    BY <1>0, <2>1
  <2>4. boot'.pc = "granted" /\ boot'.ref = s => LiveTokenOf(s)
    BY <2>2
  <2> QED BY <2>1, <2>3, <2>4, QuietSame DEF Quiet
<1>11. CASE Boot
  <2>1. boot'.pc = "idle" /\ UNCHANGED <<call, login>> /\ UNCHANGED server
    BY <1>11, NoCallType DEF Boot
  <2>2. token' = token \/ (boot.pc = "granted" /\ token'.of = boot.ref)
    BY <1>11 DEF Boot, Fresh
  <2>3. token'.live /\ token'.of = s => LiveTokenOf(s)
    BY <2>2 DEF LiveTokenOf
  <2> QED BY <1>0, <2>1, <2>3, QuietSame DEF Quiet
<1>12. CASE EnterDashboard
  <2>1. Ended
    BY <1>12, <1>t, NoCallType, AllStrayEnds DEF EnterDashboard, Ended
  <2>2. token'.of = login /\ login' = None /\ UNCHANGED boot /\ UNCHANGED server
    BY <1>12 DEF EnterDashboard, Fresh
  <2>3. token'.of = s => LiveTokenOf(s)
    BY <2>2 DEF LiveTokenOf
  <2> QED BY <1>0, <2>1, <2>2, <2>3, QuietEnd
<1>13. CASE LoseLogin
  <2>1. login' = 0 /\ UNCHANGED <<token, boot, call>> /\ UNCHANGED server
    BY <1>13 DEF LoseLogin, None, browser
  <2> QED BY <1>0, <1>t, <2>1, QuietSame DEF Quiet
<1>14. CASE ExpireToken
  <2>1. token'.live = FALSE /\ UNCHANGED <<boot, call, login>> /\ UNCHANGED server
    BY <1>14 DEF ExpireToken, Inv, TypeOK
  <2> QED BY <1>0, <2>1, QuietSame DEF Quiet
<1>15. CASE UNCHANGED vars
  <2>1. UNCHANGED <<token, boot, call, login>> /\ UNCHANGED server
    BY <1>15 DEF vars, browser
  <2> QED BY <1>0, <2>1, QuietSame DEF Quiet
<1>16. ASSUME NEW c \in Calls, Receive(c) \/ Lose(c) PROVE ServerStep /\ Quiet(s)
  BY <1>5, <1>16 DEF Receive, Lose
<1>17. ASSUME NEW c \in Calls, Work(c) PROVE ServerStep /\ Quiet(s)
  BY <1>1, <1>2, <1>3, <1>4, <1>6, <1>16, <1>17 DEF Work, SignOut
<1> QED
  BY <1>6, <1>7, <1>8, <1>9, <1>10, <1>11, <1>12, <1>13, <1>14, <1>15, <1>16, <1>17
  DEF Next, User, Page, Reload

(* For any number of calls, logins and changes: a revoked session is never   *)
(* stored again and gets no token it did not have.                           *)
THEOREM RevokedIsRevoked == Spec => RevokedStaysOut
<1>1. Inv /\ [Next]_vars =>
        [\A s \in Sessions :
           s <= last /\ s # session => s # session' /\ (LiveTokenOf(s)' => LiveTokenOf(s))]_vars
  BY RevokedStep
<1> QED BY <1>1, Invariance, PTL DEF Spec, RevokedStaysOut

-----------------------------------------------------------------------------
(* The stored session is newer than the last change of the password.         *)
LEMMA StoredStep == Inv /\ StoredSinceChange /\ [Next]_vars => StoredSinceChange'
<1> SUFFICES ASSUME Inv, StoredSinceChange, [Next]_vars PROVE StoredSinceChange'
  OBVIOUS
<1>1. UNCHANGED server => StoredSinceChange'
  BY DEF server, StoredSinceChange
<1>2. ASSUME Issue PROVE StoredSinceChange'
  <2>1. last' \in Sessions /\ session \in 0 .. last /\ last \in Nat /\ last' = last + 1
        /\ madeWith \in [Sessions -> 0 .. MaxChanges] /\ password' = password
    BY <1>2 DEF Issue, Inv, TypeOK, Sessions
  <2> QED BY <1>2, <2>1 DEF Issue, StoredSinceChange
<1>3. Revoke => StoredSinceChange'
  BY DEF Revoke, StoredSinceChange
<1>4. ChangePassword => StoredSinceChange'
  BY DEF ChangePassword, StoredSinceChange
<1>5. ASSUME NEW c \in Calls, HandleCall(c) PROVE StoredSinceChange'
  BY <1>1, <1>3, <1>4, <1>5, Zenon DEF HandleCall
<1>6. OtherDevice => StoredSinceChange'
  BY <1>2, <1>3, <1>4 DEF OtherDevice
<1>7. HandleLogin => StoredSinceChange'
  BY <1>2 DEF HandleLogin
<1>8. ASSUME NEW c \in Calls, NEW kind \in Kinds,
             AskRefresh(c) \/ HandleRefresh(c) \/ Retry(c) \/ Receive(c) \/ Lose(c)
             \/ Load \/ Send(c, kind)
      PROVE  UNCHANGED server
  BY <1>8 DEF AskRefresh, HandleRefresh, Retry, Receive, Lose, Load, Send
<1>9. HandleBoot \/ Boot \/ EnterDashboard \/ LoseLogin \/ ExpireToken \/ Load \/ UNCHANGED vars
        => UNCHANGED server
  BY DEF HandleBoot, Boot, EnterDashboard, LoseLogin, ExpireToken, Load, vars
<1>10. "data" \in Kinds
  BY DEF Kinds
<1> QED
  BY <1>1, <1>5, <1>6, <1>7, <1>8, <1>9, <1>10
  DEF Next, User, Page, Work, SignOut, Reload

(* A change of the password revokes what was stored before it, for any       *)
(* number of logins and changes.                                             *)
THEOREM ChangeRevokes == Spec => []StoredSinceChange
<1>1. Init => StoredSinceChange
  BY DEF Init, StoredSinceChange
<1> QED BY <1>1, Invariance, StoredStep, PTL DEF Spec

-----------------------------------------------------------------------------
(* Where a call may go from where it is.                                     *)
Nearer(c) == call'[c].pc = call[c].pc \/ StepsLeft(call'[c].pc) < StepsLeft(call[c].pc)

(* A call that goes on to a later step is nearer to its end, the others      *)
(* stand.                                                                    *)
LEMMA GoNearer ==
  ASSUME Inv, NEW c \in Calls, NEW pc, NEW ref, Go(c, pc, ref),
         StepsLeft(pc) < StepsLeft(call[c].pc)
  PROVE  \A d \in Calls : Nearer(d)
<1>1. call \in [Calls -> CallType]
  BY DEF Inv, TypeOK
<1>2. /\ call'[c].pc = pc
      /\ \A d \in Calls \ {c} : call'[d] = call[d]
  BY <1>1 DEF Go, CallType
<1> QED BY <1>2 DEF Nearer

(* Calls that end are nearer to their end.                                   *)
LEMMA EndedNearer == Inv /\ Ended => \A c \in Calls : Nearer(c)
<1> SUFFICES ASSUME Inv, Ended, NEW c \in Calls PROVE Nearer(c)
  OBVIOUS
<1>1. call[c].pc \in Steps
  BY DEF Inv, TypeOK, CallType
<1>2. call'[c].pc = "idle" \/ call'[c].pc = call[c].pc
  BY DEF Ended
<1> QED BY <1>1, <1>2 DEF Nearer, StepsLeft, Steps

(* Whatever step is taken, a call under way does not go back.                *)
LEMMA AdvanceStep ==
  ASSUME Inv, [Next]_vars, NEW d \in Calls, call[d].pc # "idle"
  PROVE  Nearer(d)
<1>t. call \in [Calls -> CallType]
  BY DEF Inv, TypeOK
<1>0. UNCHANGED call => Nearer(d)
  BY DEF Nearer
<1>1. ASSUME NEW c \in Calls, HandleCall(c) PROVE Nearer(d)
  <2>1. PICK pc \in {"unauthorized", "data", "ok", "error"} :
          Go(c, pc, 0) /\ (pc = "unauthorized" => call[c].pc = "sent")
    BY <1>1, Zenon DEF HandleCall, None
  <2>2. call[c].pc \in {"sent", "retry"}
    BY <1>1 DEF HandleCall
  <2>3. StepsLeft(pc) < StepsLeft(call[c].pc)
    BY <2>1, <2>2 DEF StepsLeft
  <2> QED BY <2>1, <2>3, GoNearer
<1>2. ASSUME NEW c \in Calls, HandleRefresh(c) PROVE Nearer(d)
  <2>1. PICK pc \in {"granted", "refused", "unread"} : Go(c, pc, call[c].ref)
    BY <1>2, Zenon DEF HandleRefresh
  <2>2. call[c].pc = "refresh"
    BY <1>2 DEF HandleRefresh
  <2>3. StepsLeft(pc) < StepsLeft(call[c].pc)
    BY <2>2 DEF StepsLeft
  <2> QED BY <2>1, <2>3, GoNearer
<1>3. ASSUME NEW c \in Calls, AskRefresh(c) PROVE Nearer(d)
  <2>1. Go(c, "refresh", cookie) /\ call[c].pc = "unauthorized"
    BY <1>3 DEF AskRefresh
  <2>2. StepsLeft("refresh") < StepsLeft(call[c].pc)
    BY <2>1 DEF StepsLeft
  <2> QED BY <2>1, <2>2, GoNearer
<1>4. ASSUME NEW c \in Calls, Retry(c) PROVE Nearer(d)
  <2>1. Go(c, "retry", call[c].ref) /\ call[c].pc = "granted"
    BY <1>4 DEF Retry
  <2>2. StepsLeft("retry") < StepsLeft(call[c].pc)
    BY <2>1 DEF StepsLeft
  <2> QED BY <2>1, <2>2, GoNearer
<1>5. ASSUME NEW c \in Calls, Receive(c) \/ Lose(c) PROVE Nearer(d)
  <2>1. CASE LeaveAfter(c)
    <3>1. [call EXCEPT ![c] = NoCall] \in [Calls -> CallType]
      BY <1>t, NoCallType
    <3>2. Ended
      BY <1>t, <2>1, <3>1, NoCallType, AllStrayEnds DEF LeaveAfter, Ended
    <3> QED BY <3>2, EndedNearer
  <2>2. CASE Drop(c)
    <3>1. Ended
      BY <1>t, <2>2, NoCallType DEF Drop, Ended
    <3> QED BY <3>1, EndedNearer
  <2> QED BY <1>5, <2>1, <2>2 DEF Receive, Lose, Finish
<1>6. CASE Load
  <2>1. Ended
    BY <1>6, NoCallType DEF Load, Ended
  <2> QED BY <2>1, EndedNearer
<1>7. CASE EnterDashboard
  <2>1. Ended
    BY <1>7, <1>t, NoCallType, AllStrayEnds DEF EnterDashboard, Ended
  <2> QED BY <2>1, EndedNearer
<1>8. ASSUME NEW c \in Calls, NEW kind \in Kinds, Send(c, kind) PROVE Nearer(d)
  <2>1. d # c
    BY <1>8 DEF Send
  <2> QED BY <1>8, <1>t, <2>1 DEF Send, Nearer
<1>9. ASSUME HandleLogin \/ OtherDevice \/ HandleBoot \/ Boot \/ LoseLogin \/ ExpireToken
             \/ UNCHANGED vars
      PROVE  Nearer(d)
  BY <1>0, <1>9 DEF HandleLogin, OtherDevice, HandleBoot, Boot, LoseLogin, ExpireToken, vars
<1> QED
  BY <1>1, <1>2, <1>3, <1>4, <1>5, <1>6, <1>7, <1>8, <1>9
  DEF Next, User, Page, Work, SignOut, Reload

(* For any number of calls side by side: each has at most six steps to go,   *)
(* and every step it takes leaves it fewer.                                  *)
THEOREM CallsAreBounded == Spec => CallsOnlyAdvance
<1>1. Inv /\ [Next]_vars =>
        [\A c \in Calls : call[c].pc # "idle" =>
           call'[c].pc = call[c].pc \/ StepsLeft(call'[c].pc) < StepsLeft(call[c].pc)]_vars
  BY AdvanceStep DEF Nearer
<1> QED BY <1>1, Invariance, PTL DEF Spec, CallsOnlyAdvance
=============================================================================
