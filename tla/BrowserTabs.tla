----------------------------- MODULE BrowserTabs -----------------------------
(***************************************************************************)
(* Tabs of one browser that share a cookie jar and renew their session:    *)
(* auth-session.js, auth-api.js, withSession of script.js and the login    *)
(* page, against the server of AuthSessions.tla.                           *)
(*                                                                         *)
(* A tab stands for one check or one operation of a page at a time; two    *)
(* operations of one page that meet a 401 together behave as two tabs do.  *)
(* The browser is external: a request carries the cookies of the moment it *)
(* is sent, a response changes the jar when it arrives, the Web Lock is    *)
(* granted in the order it was asked for and released when its tab closes. *)
(***************************************************************************)
EXTENDS AuthSessions, Sequences, SequencesExt

CONSTANTS
  MaxTroubles  (* bound: failures, losses, closed tabs, lapses, logouts    *)
               (* and changes of password, together                        *)

ASSUME TabsAssumption == MaxTroubles \in Nat

VARIABLES
  jar,      (* the tokens of the two cookies: set and cleared together     *)
  tab,      (* what the tab waits for                                      *)
  turns,    (* tabs that asked for the Web Lock; the head holds it         *)
  excuses,  (* history: what happened since the login that may end it      *)
  troubles  (* how many of MaxTroubles have happened                       *)

browserVars == <<jar, tab, turns, excuses, troubles>>
vars == <<serverVars, browserVars>>

(* "first" is me() or an operation, "second" me() under the lock, "retry"  *)
(* the operation after the session was renewed.                            *)
Checking == {"first", "waiting", "second", "refreshing", "retry"}
Pages == {"idle", "login", "loggingIn", "loggingOut", "closed"} \cup Checking
Excuses == {"logout", "elsewhere", "lapsed", "lost", "abandoned", "crossed"}

TypeOK ==
  /\ ServerTypeOK
  /\ jar \in Tokens
  /\ tab \in [Tabs -> Pages]
  /\ turns \in Seq(Tabs)
  /\ excuses \in SUBSET Excuses
  /\ troubles \in 0..MaxTroubles

Init ==
  /\ ServerInit
  /\ jar = 1
  /\ tab = [t \in Tabs |-> "idle"]
  /\ turns = <<>>
  /\ excuses = {}
  /\ troubles = 0

Trouble == troubles < MaxTroubles /\ troubles' = troubles + 1

-----------------------------------------------------------------------------
(* Requests.  The refresh cookie has the path of the auth routes.          *)

Send(t, route, cookie) ==
  /\ kind' = [kind EXCEPT ![t] = route]
  /\ access' = [access EXCEPT ![t] = cookie]
  /\ refresh' = [refresh EXCEPT ![t] = IF route = "resource" THEN 0
                                                             ELSE cookie]
  /\ at' = [at EXCEPT ![t] = "received"]
  /\ issued' = [issued EXCEPT ![t] = 0]
  /\ reply' = [reply EXCEPT ![t] = "none"]
  /\ UNCHANGED snapshot

(* Nothing of the tab is under way.                                        *)
Quiet(t) ==
  /\ kind' = [kind EXCEPT ![t] = "none"]
  /\ access' = [access EXCEPT ![t] = 0]
  /\ refresh' = [refresh EXCEPT ![t] = 0]
  /\ at' = [at EXCEPT ![t] = "idle"]
  /\ issued' = [issued EXCEPT ![t] = 0]
  /\ reply' = [reply EXCEPT ![t] = "none"]
  /\ UNCHANGED snapshot

Goes(t, page) == tab' = [tab EXCEPT ![t] = page]

(* checkSession() of a page that opens, or an operation of withSession().  *)
(* From the login page the user opens the chat by hand; the check of the   *)
(* login page itself only saves that step.                                 *)
Check(t) ==
  /\ tab[t] \in {"idle", "login"} /\ at[t] = "idle"
  /\ Send(t, "resource", jar) /\ Goes(t, "first")
  /\ UNCHANGED <<rows, clocks, redis, jar, turns, excuses, troubles>>

SubmitLogin(t) ==
  /\ tab[t] = "login" /\ at[t] = "idle"
  /\ Send(t, "login", jar) /\ Goes(t, "loggingIn")
  /\ UNCHANGED <<rows, clocks, redis, jar, turns, excuses, troubles>>

SubmitLogout(t) ==
  /\ tab[t] = "idle" /\ at[t] = "idle"
  /\ Send(t, "logout", jar) /\ Goes(t, "loggingOut")
  /\ excuses' = excuses \cup {"logout"}
  /\ Trouble
  /\ UNCHANGED <<rows, clocks, redis, jar, turns>>

(* The tab that has waited longest looks for a renewed session.            *)
TakeTurn(t) ==
  /\ tab[t] = "waiting" /\ turns # <<>> /\ Head(turns) = t
  /\ Send(t, "resource", jar) /\ Goes(t, "second")
  /\ UNCHANGED <<rows, clocks, redis, jar, turns, excuses, troubles>>

-----------------------------------------------------------------------------
(* Responses.                                                              *)

(* set_tokens and clear_tokens.                                            *)
JarAfter(t) ==
  CASE reply[t] = "200" /\ kind[t] \in {"refresh", "login"} -> issued[t]
    [] reply[t] = "401" /\ kind[t] = "refresh" -> 0
    [] reply[t] = "204" -> 0
    [] OTHER -> jar

FamilyOf(token) == IF token = 0 THEN 0 ELSE family[token]

(* A response may find cookies of another family than it was asked with.   *)
Crosses(t) == JarAfter(t) # jar /\ FamilyOf(jar) # FamilyOf(refresh[t])

SignsIn(t) ==
  /\ kind[t] = "login" /\ reply[t] = "200"
  /\ session[issued[t]] = "active" /\ issued[t] \notin lapsed

ExcusesAfter(t) ==
  IF SignsIn(t)
    THEN {}
    ELSE excuses \cup (IF Crosses(t) THEN {"crossed"} ELSE {})

(* A response reaches the browser and its tab.                             *)
Arrives(t) ==
  /\ at[t] = "replied"
  /\ jar' = JarAfter(t)
  /\ excuses' = ExcusesAfter(t)
  /\ UNCHANGED <<rows, clocks, redis, troubles>>

LetGoNever(t) == UNCHANGED turns    (* mutant: the turn's promise is pending *)
LetGo(t) ==
  \/ (\A i \in DOMAIN turns : turns[i] # t) /\ UNCHANGED turns
  \/ \E i \in DOMAIN turns : turns[i] = t /\ turns' = RemoveAt(turns, i)

(* The session is there: checkSession() returns, withSession() retries.    *)
Renewed(t) ==
  /\ LetGo(t)
  /\ \/ Quiet(t) /\ Goes(t, "idle")
     \/ Send(t, "resource", JarAfter(t)) /\ Goes(t, "retry")

(* refreshSession of a browser without Web Locks: no turns are taken.      *)
RefreshWithoutTurn(t) ==       (* mutant: callRefresh(), whoever else does *)
  Send(t, "refresh", jar) /\ Goes(t, "refreshing") /\ UNCHANGED turns

AsksForTurn(t) ==
  Quiet(t) /\ Goes(t, "waiting") /\ turns' = Append(turns, t)

FirstAnswered(t) ==
  /\ tab[t] = "first" /\ Arrives(t)
  /\ \/ reply[t] = "401" /\ AsksForTurn(t)
     \/ reply[t] # "401" /\ Quiet(t) /\ Goes(t, "idle") /\ UNCHANGED turns

SecondAnswered(t) ==
  /\ tab[t] = "second" /\ Arrives(t)
  /\ \/ reply[t] = "200" /\ Renewed(t)
     \/ /\ reply[t] = "401"
        /\ Send(t, "refresh", jar) /\ Goes(t, "refreshing")
        /\ UNCHANGED turns
     \/ reply[t] = "503" /\ Quiet(t) /\ Goes(t, "idle") /\ LetGo(t)

RefreshFailedAnyhow(t) ==           (* mutant: any failure means no session *)
  /\ tab[t] = "refreshing" /\ Arrives(t)
  /\ \/ reply[t] = "200" /\ Renewed(t)
     \/ reply[t] # "200" /\ Quiet(t) /\ Goes(t, "login") /\ LetGo(t)

RefreshAnswered(t) ==
  /\ tab[t] = "refreshing" /\ Arrives(t)
  /\ \/ reply[t] = "200" /\ Renewed(t)
     \/ reply[t] = "401" /\ Quiet(t) /\ Goes(t, "login") /\ LetGo(t)
     \/ reply[t] = "503" /\ Quiet(t) /\ Goes(t, "idle") /\ LetGo(t)

RetryAnswered(t) ==
  /\ tab[t] = "retry" /\ Arrives(t)
  /\ Quiet(t)
  /\ Goes(t, IF reply[t] = "401" THEN "login" ELSE "idle")
  /\ UNCHANGED turns

LoginAnswered(t) ==
  /\ tab[t] = "loggingIn" /\ Arrives(t)
  /\ Quiet(t)
  /\ Goes(t, IF reply[t] = "200" THEN "idle" ELSE "login")
  /\ UNCHANGED turns

(* A logout that failed leaves the page as it is.                          *)
LogoutAnswered(t) ==
  /\ tab[t] = "loggingOut" /\ Arrives(t)
  /\ Quiet(t)
  /\ Goes(t, IF reply[t] = "204" THEN "login" ELSE "idle")
  /\ UNCHANGED turns

(* The tab is gone, the browser may still take the cookies.                *)
LateAnswer(t) ==
  /\ tab[t] = "closed" /\ Arrives(t)
  /\ Quiet(t)
  /\ UNCHANGED <<tab, turns>>

Delivers(t) ==
  \/ FirstAnswered(t) \/ SecondAnswered(t) \/ RefreshAnswered(t)
  \/ RetryAnswered(t) \/ LoginAnswered(t) \/ LogoutAnswered(t)
  \/ LateAnswer(t)

(* A request or its response is lost: fetch() fails, which is no 401.      *)
Lose(t) ==
  /\ at[t] \in {"received", "replied"}
  /\ Quiet(t)
  /\ tab' = [tab EXCEPT ![t] =
               CASE tab[t] = "closed" -> "closed"
                 [] tab[t] = "loggingIn" -> "login"
                 [] OTHER -> "idle"]
  /\ LetGo(t)
  /\ excuses' = excuses \cup
       (IF reply[t] = "200" /\ kind[t] = "refresh" THEN {"lost"} ELSE {})
  /\ Trouble
  /\ UNCHANGED <<rows, clocks, redis, jar>>

(* The server goes on with the request of a tab that was closed.           *)
Close(t) ==
  /\ tab[t] # "closed"
  /\ Goes(t, "closed") /\ LetGo(t)
  /\ excuses' = excuses \cup
       (IF tab[t] = "refreshing" THEN {"abandoned"} ELSE {})
  /\ Trouble
  /\ UNCHANGED <<serverVars, jar>>

-----------------------------------------------------------------------------
(* The server's steps, and what of them may end the browser's session.     *)

Serve(r) == Handles(r) /\ UNCHANGED browserVars

ServeLostCommit(t) ==
  /\ CommitLost(t)
  /\ excuses' = excuses \cup {"lost"}
  /\ Trouble
  /\ UNCHANGED <<jar, tab, turns>>

ServeFailure(r) ==
  /\ Fails(r) \/ Rollback(r)
  /\ Trouble
  /\ UNCHANGED <<jar, tab, turns, excuses>>

ServeRevoke(r) ==
  /\ RevokeEnd(r)
  /\ excuses' = excuses \cup (IF r = Device THEN {"elsewhere"} ELSE {})
  /\ UNCHANGED <<jar, tab, turns, troubles>>

ServeElsewhere ==
  ChangePassword /\ Trouble /\ UNCHANGED <<jar, tab, turns, excuses>>

(* Only of the tokens somebody still holds the time matters.               *)
Later(s) ==
  \/ /\ s = jar \/ \E t \in Tabs : s = access[t]
     /\ Expire(s)
     /\ UNCHANGED browserVars
  \/ /\ s = jar
     /\ Lapse(s)
     /\ excuses' = excuses \cup {"lapsed"}
     /\ Trouble
     /\ UNCHANGED <<jar, tab, turns>>

Next ==
  \/ \E t \in Tabs :
       \/ Check(t) \/ SubmitLogin(t) \/ SubmitLogout(t) \/ TakeTurn(t)
       \/ Delivers(t) \/ Lose(t) \/ Close(t) \/ ServeLostCommit(t)
  \/ \E r \in Requesters : Serve(r) \/ ServeFailure(r) \/ ServeRevoke(r)
  \/ ServeElsewhere
  \/ \E s \in Sessions : Later(s)

(* Handlers go on, responses arrive or are lost, and a tab at its turn     *)
(* goes on.  Nobody has to sign in, sign out, close a tab or let time pass.*)
Fairness ==
  /\ \A r \in Requesters : WF_vars(Serve(r) \/ ServeRevoke(r))
  /\ \A t \in Tabs : WF_vars(Delivers(t)) /\ WF_vars(TakeTurn(t))

Spec == Init /\ [][Next]_vars /\ Fairness

-----------------------------------------------------------------------------
(* Properties.                                                             *)

(* As long as nothing happened that may end the session, the refresh token *)
(* in the jar can be used, or the response that replaces it is on its way: *)
(* tabs that renew a session together never waste a single-use token.      *)
(* (auth-session.js takes turns; rotate() accepts a token once.)           *)
JarRenewable ==
  excuses = {} /\ jar # 0 =>
    \/ session[jar] = "active"
    \/ \E t \in Tabs : /\ tab[t] = "refreshing" /\ at[t] = "replied"
                       /\ refresh[t] = jar /\ reply[t] = "200"

(* A tab is sent to the login page only when the user logged out, the      *)
(* session was ended elsewhere or lapsed, a renewal was lost on its way or *)
(* cut off by closing its tab, or two sign-ins crossed; or when the token  *)
(* of a retried operation expired, or another user's session began, on its *)
(* way.  Never because of another tab's renewal.                           *)
SignedOutForAReason ==
  [][\A t \in Tabs :
       tab[t] \in Checking /\ tab'[t] = "login" =>
         \/ excuses' # {}
         \/ /\ tab[t] = "retry"
            /\ \/ access[t] \in expired
               \/ FamilyOf(access[t]) # FamilyOf(jar)]_vars

(* A renewal ends whatever happens to the tabs before it in the queue of   *)
(* the lock.                                                               *)
RenewalEnds == \A t \in Tabs : tab[t] \in Checking ~> tab[t] \notin Checking
=============================================================================
