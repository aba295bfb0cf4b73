------------------------- MODULE BrowserTabsProofs ---------------------------
(***************************************************************************)
(* What is proved of browser tabs that share a session, for any number of  *)
(* tabs and sessions, whatever requests overlap and whichever of them      *)
(* fail, are lost or are answered late.                                    *)
(*                                                                         *)
(* First, a family of refresh sessions has one that can be used.           *)
(* OneActivePerFamily is not inductive.  The strengthening says what an    *)
(* open rotation holds (Rotations), what an UPDATE of a family still sees  *)
(* (Revocations), that a family is named by a session that was committed   *)
(* (Families), and that a tab in the queue of the lock has no request      *)
(* under way (Waiting), so that no step takes a rotation its token.        *)
(*                                                                         *)
(* Then, that tabs renew a session without wasting its token and are       *)
(* signed out for a reason only.  Ground says what a request can stand at  *)
(* and carry; Peaceful, on top of it, what nobody can do to the family of  *)
(* the jar's token until something happens that may end the session.       *)
(***************************************************************************)
EXTENDS BrowserTabs, TLAPS, SequenceTheorems

USE SessionsAssumption, TabsAssumption

(* Types, as far as the sessions depend on them.                           *)
Types ==
  /\ session \in [Sessions -> {"unused", "pending", "active", "revoked"}]
  /\ family \in [Sessions -> Tokens]
  /\ at \in [Requesters -> Steps]
  /\ refresh \in [Requesters -> Tokens]
  /\ issued \in [Requesters -> Tokens]
  /\ snapshot \in [Requesters -> SUBSET Sessions]
  /\ jar \in Tokens
  /\ tab \in [Tabs -> Pages]

Rotations ==
  \A r \in Requesters :
    /\ at[r] = "rotating" => refresh[r] \in Sessions
    /\ at[r] = "updated" =>
         /\ refresh[r] \in Sessions /\ session[refresh[r]] = "active"
         /\ issued[r] \in Sessions /\ session[issued[r]] = "pending"
         /\ family[issued[r]] = family[refresh[r]]
         /\ \A q \in Requesters \ {r} :
              at[q] = "updated" => /\ refresh[q] # refresh[r]
                                   /\ issued[q] # issued[r]

Revocations ==
  \A r \in Requesters : \A s \in snapshot[r] :
    session[s] \in {"active", "revoked"}

Families ==
  \A s \in Sessions : session[s] # "unused" =>
    family[s] \in Sessions /\ session[family[s]] \in {"active", "revoked"}

Waiting == \A t \in Tabs : tab[t] = "waiting" => at[t] = "idle"

Inv ==
  /\ Types
  /\ Rotations /\ Revocations /\ Families /\ Waiting
  /\ OneActivePerFamily

LEMMA FreshIsUnused ==
  ASSUME Unused # {} PROVE Fresh \in Sessions /\ session[Fresh] = "unused"
BY DEF Unused, Fresh

LEMMA InvInit == Init => Inv
BY DEF Init, ServerInit, Inv, Types, Tokens, Sessions, Pages, Steps,
   Rotations, Revocations, Families, Waiting, OneActivePerFamily

-----------------------------------------------------------------------------
(* Browser steps.  A tab puts a request of its own in the place of one     *)
(* that is over, or none.                                                  *)

Replaces(t, step, token, page) ==
  /\ UNCHANGED <<session, family, snapshot>>
  /\ jar' \in Tokens
  /\ at[t] \in {"idle", "received", "replied"}
  /\ at' = [at EXCEPT ![t] = step]
  /\ refresh' = [refresh EXCEPT ![t] = token]
  /\ issued' = [issued EXCEPT ![t] = 0]
  /\ tab' = [tab EXCEPT ![t] = page]

Turns(t) ==
  \E step \in {"idle", "received"}, token \in Tokens, page \in Pages :
    /\ Replaces(t, step, token, page)
    /\ page = "waiting" => step = "idle"

LEMMA SendTurns ==
  ASSUME NEW t \in Tabs, NEW route, NEW token \in Tokens,
         NEW page \in Pages \ {"waiting"},
         Send(t, route, token), tab' = [tab EXCEPT ![t] = page],
         UNCHANGED rows, jar' \in Tokens,
         at[t] \in {"idle", "received", "replied"}
  PROVE  Turns(t)
<1> DEFINE cookie == IF route = "resource" THEN 0 ELSE token
<1>1. cookie \in Tokens
  BY SessionsAssumption DEF Tokens
<1>2. Replaces(t, "received", cookie, page)
  BY DEF Send, Replaces, rows
<1> QED
  BY <1>1, <1>2 DEF Turns

LEMMA QuietTurns ==
  ASSUME NEW t \in Tabs, NEW page \in Pages,
         Quiet(t), tab' = [tab EXCEPT ![t] = page],
         UNCHANGED rows, jar' \in Tokens,
         at[t] \in {"idle", "received", "replied"}
  PROVE  Turns(t)
<1>1. 0 \in Tokens
  BY SessionsAssumption DEF Tokens
<1>2. Replaces(t, "idle", 0, page)
  BY DEF Quiet, Replaces, rows
<1> QED
  BY <1>1, <1>2 DEF Turns

LEMMA JarType ==
  ASSUME Types, NEW t \in Tabs PROVE JarAfter(t) \in Tokens
BY DEF Types, JarAfter, Tokens, Requesters

LEMMA AnswerTurns ==
  ASSUME Types, NEW t \in Tabs, Delivers(t) PROVE Turns(t)
<1>1. /\ at[t] = "replied" /\ jar' = JarAfter(t)
      /\ UNCHANGED rows
  BY DEF Delivers, FirstAnswered, SecondAnswered, RefreshAnswered,
     RetryAnswered, LoginAnswered, LogoutAnswered, LateAnswer, Arrives
<1>2. JarAfter(t) \in Tokens /\ jar \in Tokens
  BY JarType DEF Types
<1>3. \/ \E page \in Pages :
             Quiet(t) /\ tab' = [tab EXCEPT ![t] = page]
      \/ \E route \in {"resource", "refresh"}, token \in {jar, JarAfter(t)},
            page \in {"retry", "refreshing"} :
            Send(t, route, token) /\ tab' = [tab EXCEPT ![t] = page]
  <2> USE DEF Pages, Checking, Goes
  <2>1. CASE LateAnswer(t)
    <3>1. tab' = [tab EXCEPT ![t] = tab[t]] /\ tab[t] \in Pages
      BY <2>1 DEF LateAnswer, Types
    <3> QED
      BY <2>1, <3>1 DEF LateAnswer
  <2>2. CASE FirstAnswered(t)
    BY <2>2 DEF FirstAnswered, AsksForTurn
  <2>3. CASE SecondAnswered(t)
    BY <2>3 DEF SecondAnswered, Renewed
  <2>4. CASE RefreshAnswered(t)
    BY <2>4 DEF RefreshAnswered, Renewed
  <2>5. CASE RetryAnswered(t)
    BY <2>5 DEF RetryAnswered
  <2>6. CASE LoginAnswered(t)
    BY <2>6 DEF LoginAnswered
  <2>7. CASE LogoutAnswered(t)
    BY <2>7 DEF LogoutAnswered
  <2> QED
    BY <2>1, <2>2, <2>3, <2>4, <2>5, <2>6, <2>7 DEF Delivers
<1>4. {"retry", "refreshing"} \subseteq Pages \ {"waiting"}
  BY DEF Pages, Checking
<1> QED
  BY <1>1, <1>2, <1>3, <1>4, SendTurns, QuietTurns

LEMMA TabTurns ==
  ASSUME Inv, NEW t \in Tabs,
         \/ Check(t) \/ SubmitLogin(t) \/ SubmitLogout(t) \/ TakeTurn(t)
         \/ Delivers(t) \/ Lose(t)
  PROVE  Turns(t)
<1>1. Types /\ Waiting /\ jar \in Tokens /\ tab[t] \in Pages
  BY DEF Inv, Types
<1>2. {"first", "loggingIn", "loggingOut", "second"}
        \subseteq Pages \ {"waiting"}
  BY DEF Pages, Checking
<1>3. CASE Check(t)
  BY <1>1, <1>2, <1>3, SendTurns DEF Check, Goes
<1>4. CASE SubmitLogin(t)
  BY <1>1, <1>2, <1>4, SendTurns DEF SubmitLogin, Goes
<1>5. CASE SubmitLogout(t)
  BY <1>1, <1>2, <1>5, SendTurns DEF SubmitLogout, Goes
<1>6. CASE TakeTurn(t)
  BY <1>1, <1>2, <1>6, SendTurns DEF TakeTurn, Goes, Waiting
<1>7. CASE Delivers(t)
  BY <1>1, <1>7, AnswerTurns
<1>8. CASE Lose(t)
  <2>1. \E page \in Pages : tab' = [tab EXCEPT ![t] = page]
    BY <1>8 DEF Lose, Pages
  <2> QED
    BY <1>1, <1>8, <2>1, QuietTurns DEF Lose
<1> QED
  BY <1>3, <1>4, <1>5, <1>6, <1>7, <1>8

LEMMA TurnsKeep ==
  ASSUME Inv, NEW t \in Tabs, Turns(t) PROVE Inv'
<1>1. PICK step \in {"idle", "received"}, token \in Tokens, page \in Pages :
        Replaces(t, step, token, page) /\ (page = "waiting" => step = "idle")
  BY DEF Turns
<1> USE <1>1 DEF Inv, Types, Replaces, Requesters
<1>2. Types'
  BY DEF Steps, Tokens
<1>3. Rotations'
  BY DEF Rotations
<1>4. Revocations'
  BY DEF Revocations
<1>5. Families' /\ OneActivePerFamily'
  BY DEF Families, OneActivePerFamily
<1>6. Waiting'
  BY DEF Waiting
<1> QED
  BY <1>2, <1>3, <1>4, <1>5, <1>6

-----------------------------------------------------------------------------
(* The server's steps.                                                     *)

(* A handler goes on without touching the rows.                            *)
GoesOn(r) ==
  /\ UNCHANGED <<session, family, refresh, issued, jar, tab>>
  /\ at[r] \notin {"idle", "updated"}
  /\ \E step \in Steps \ {"updated"} :
       /\ at' = [at EXCEPT ![r] = step]
       /\ step = "rotating" => refresh[r] # 0
  /\ \/ UNCHANGED snapshot
     \/ \E seen \in SUBSET {s \in Sessions : session[s] = "active"} :
          snapshot' = [snapshot EXCEPT ![r] = seen]

LEMMA HandlerGoesOn ==
  ASSUME Inv, NEW r \in Requesters, UNCHANGED <<jar, tab>>,
         \/ Resource(r) \/ FindToken(r) \/ NameAccess(r) \/ NameRefresh(r)
         \/ RevokeStart(r) \/ Blacklist(r) \/ Fails(r)
  PROVE  GoesOn(r)
<1> USE DEF Reply, MoveOn
<1>1. UNCHANGED <<session, family, refresh, issued>>
  BY DEF Resource, FindToken, NameAccess, NameRefresh, RevokeStart, Blacklist,
         Fails, rows, cookies
<1>2. at[r] \notin {"idle", "updated"}
  BY DEF Resource, FindToken, NameAccess, NameRefresh, RevokeStart, Blacklist,
         Fails
<1>3. \E step \in Steps \ {"updated"} :
        at' = [at EXCEPT ![r] = step] /\ (step = "rotating" => refresh[r] # 0)
  <2>1. CASE FindToken(r)
    <3>1. refresh[r] = 0 => at' = [at EXCEPT ![r] = "replied"]
      BY <2>1 DEF FindToken
    <3>2. refresh[r] # 0 =>
            \/ at' = [at EXCEPT ![r] = "revoke"]
            \/ at' = [at EXCEPT ![r] = "replied"]
            \/ at' = [at EXCEPT ![r] = "rotating"]
      BY <2>1 DEF FindToken
    <3> QED
      BY <3>1, <3>2 DEF Steps
  <2>2. CASE ~FindToken(r)
    <3>1. \/ at' = [at EXCEPT ![r] = "replied"]
          \/ at' = [at EXCEPT ![r] = "named"]
          \/ at' = [at EXCEPT ![r] = "revoke"]
          \/ at' = [at EXCEPT ![r] = "revoking"]
      BY <2>2 DEF Resource, NameAccess, NameRefresh, RevokeStart, Blacklist,
                  Fails
    <3> QED
      BY <3>1 DEF Steps
  <2> QED
    BY <2>1, <2>2
<1>4. \/ UNCHANGED snapshot
      \/ \E seen \in SUBSET {s \in Sessions : session[s] = "active"} :
           snapshot' = [snapshot EXCEPT ![r] = seen]
  <2>1. CASE RevokeStart(r)
    BY <2>1 DEF RevokeStart
  <2>2. CASE Blacklist(r) \/ Fails(r)
    <3>1. snapshot' = [snapshot EXCEPT ![r] = {}]
      BY <2>2 DEF Blacklist, Fails
    <3> QED
      BY <3>1
  <2>3. CASE Resource(r) \/ FindToken(r) \/ NameAccess(r) \/ NameRefresh(r)
    BY <2>3 DEF Resource, FindToken, NameAccess, NameRefresh
  <2> QED
    BY <2>1, <2>2, <2>3
<1> QED
  BY <1>1, <1>2, <1>3, <1>4 DEF GoesOn

LEMMA GoesOnKeeps ==
  ASSUME Inv, NEW r \in Requesters, GoesOn(r) PROVE Inv'
<1> USE DEF Inv, Types, GoesOn
<1>1. Types'
  <2>1. at' \in [Requesters -> Steps]
    OBVIOUS
  <2>2. snapshot' \in [Requesters -> SUBSET Sessions]
    OBVIOUS
  <2> QED
    BY <2>1, <2>2
<1>2. Rotations'
  BY DEF Rotations, Tokens, Sessions
<1>3. Revocations'
  BY DEF Revocations
<1>4. Families' /\ OneActivePerFamily'
  BY DEF Families, OneActivePerFamily
<1>5. Waiting'
  BY DEF Waiting
<1> QED
  BY <1>1, <1>2, <1>3, <1>4, <1>5

LEMMA LoginKeeps ==
  ASSUME Inv, NEW r \in Requesters, Login(r), UNCHANGED <<jar, tab>>
  PROVE  Inv'
<1> USE DEF Inv, Types, Login, Reply, rows, cookies
<1>1. CASE UNCHANGED <<session, family, issued>>
  <2> USE <1>1
  <2>1. at' = [at EXCEPT ![r] = "replied"] /\ UNCHANGED <<refresh, snapshot>>
    OBVIOUS
  <2>2. Types'
    BY <2>1 DEF Steps
  <2>3. Rotations' /\ Revocations' /\ Families' /\ OneActivePerFamily'
    BY <2>1 DEF Rotations, Revocations, Families, OneActivePerFamily
  <2>4. Waiting'
    BY <2>1 DEF Waiting
  <2> QED
    BY <2>2, <2>3, <2>4
<1>2. CASE /\ Unused # {}
           /\ session' = [session EXCEPT ![Fresh] = "active"]
           /\ family' = [family EXCEPT ![Fresh] = Fresh]
           /\ issued' = [issued EXCEPT ![r] = Fresh]
  <2> DEFINE new == Fresh
  <2>1. new \in Sessions /\ session[new] = "unused"
    BY <1>2, FreshIsUnused
  <2>2. /\ session' = [session EXCEPT ![new] = "active"]
        /\ family' = [family EXCEPT ![new] = new]
        /\ issued' = [issued EXCEPT ![r] = new]
        /\ at' = [at EXCEPT ![r] = "replied"] /\ at[r] = "received"
        /\ UNCHANGED <<refresh, snapshot>>
    BY <1>2
  <2> HIDE DEF new
  <2>3. Types'
    <3>1. new \in Tokens
      BY <2>1 DEF Sessions, Tokens
    <3>2. family' \in [Sessions -> Tokens] /\ issued' \in [Requesters -> Tokens]
      BY <2>2, <3>1
    <3>3. at' \in [Requesters -> Steps]
      BY <2>2 DEF Steps
    <3> QED
      BY <2>2, <3>2, <3>3
  <2>4. Rotations'
    BY <2>1, <2>2 DEF Rotations
  <2>5. Revocations'
    BY <2>1, <2>2 DEF Revocations
  <2>6. Families'
    BY <2>1, <2>2 DEF Families
  <2>7. OneActivePerFamily'
    BY <2>1, <2>2 DEF Families, OneActivePerFamily
  <2>8. Waiting'
    BY <2>2 DEF Waiting
  <2> QED
    BY <2>3, <2>4, <2>5, <2>6, <2>7, <2>8
<1> QED
  BY <1>1, <1>2

LEMMA RotateKeeps ==
  ASSUME Inv, NEW r \in Requesters, Rotate(r), UNCHANGED <<jar, tab>>
  PROVE  Inv'
<1> USE DEF Inv, Types, cookies
<1>1. at[r] = "rotating" /\ UNCHANGED <<refresh, snapshot>>
  BY DEF Rotate
<1>2. CASE UNCHANGED <<session, family, issued>>
  <2>1. PICK step \in {"revoke", "replied"} : at' = [at EXCEPT ![r] = step]
    BY <1>1, <1>2, FreshIsUnused DEF Rotate, Reply, MoveOn
  <2>2. Types'
    BY <1>1, <1>2, <2>1 DEF Steps
  <2>3. Rotations' /\ Revocations' /\ Families' /\ OneActivePerFamily'
    BY <1>1, <1>2, <2>1
    DEF Rotations, Revocations, Families, OneActivePerFamily
  <2>4. Waiting'
    BY <1>1, <2>1 DEF Waiting
  <2> QED
    BY <2>2, <2>3, <2>4
<1>3. CASE ~UNCHANGED <<session, family, issued>>
  <2> DEFINE new == Fresh
  <2>1. new \in Sessions /\ session[new] = "unused"
    BY <1>3, FreshIsUnused DEF Rotate
  <2>2. /\ ~Locked(refresh[r]) /\ session[refresh[r]] = "active"
        /\ session' = [session EXCEPT ![new] = "pending"]
        /\ family' = [family EXCEPT ![new] = family[refresh[r]]]
        /\ issued' = [issued EXCEPT ![r] = new]
        /\ at' = [at EXCEPT ![r] = "updated"]
    BY <1>3 DEF Rotate, MoveOn
  <2> HIDE DEF new
  <2>3. refresh[r] \in Sessions
    BY <1>1 DEF Rotations
  <2>4. Types'
    BY <1>1, <2>1, <2>2, <2>3 DEF Steps, Tokens, Sessions
  <2>5. Rotations'
    BY <1>1, <2>1, <2>2, <2>3 DEF Rotations, Locked
  <2>6. Revocations'
    BY <1>1, <2>1, <2>2 DEF Revocations
  <2>7. Families'
    BY <2>1, <2>2, <2>3 DEF Families
  <2>8. OneActivePerFamily'
    BY <2>1, <2>2 DEF OneActivePerFamily
  <2>9. Waiting'
    BY <1>1, <2>2 DEF Waiting
  <2> QED
    BY <2>4, <2>5, <2>6, <2>7, <2>8, <2>9
<1> QED
  BY <1>2, <1>3

LEMMA CommitKeeps ==
  ASSUME Inv, NEW r \in Requesters, Commit(r) \/ CommitLost(r),
         UNCHANGED <<jar, tab>>
  PROVE  Inv'
<1> USE DEF Inv, Types
<1> DEFINE old == refresh[r]
           new == issued[r]
<1>1. /\ at[r] = "updated" /\ at' = [at EXCEPT ![r] = "replied"]
      /\ session' = [session EXCEPT ![new] = "active", ![old] = "revoked"]
      /\ UNCHANGED <<family, refresh, issued, snapshot>>
  BY DEF Commit, CommitLost, Committed, Reply, cookies
<1>2. /\ old \in Sessions /\ session[old] = "active"
      /\ new \in Sessions /\ session[new] = "pending"
      /\ family[new] = family[old]
  BY <1>1 DEF Rotations
<1>3. \A q \in Requesters \ {r} : at[q] = "updated" =>
        /\ refresh[q] # old /\ refresh[q] # new
        /\ issued[q] # new /\ issued[q] # old
  BY <1>1, <1>2 DEF Rotations
<1> HIDE DEF old, new
<1>4. \A s \in Sessions : session'[s] =
        IF s = old THEN "revoked" ELSE IF s = new THEN "active" ELSE session[s]
  BY <1>1, <1>2
<1>5. Types'
  BY <1>1, <1>2 DEF Steps
<1>6. Rotations'
  BY <1>1, <1>3, <1>4 DEF Rotations
<1>7. Revocations'
  BY <1>1, <1>4 DEF Revocations
<1>8. Families'
  BY <1>1, <1>2, <1>4 DEF Families
<1>9. OneActivePerFamily'
  BY <1>1, <1>2, <1>4 DEF OneActivePerFamily
<1>10. Waiting'
  BY <1>1 DEF Waiting
<1> QED
  BY <1>5, <1>6, <1>7, <1>8, <1>9, <1>10

LEMMA RollbackKeeps ==
  ASSUME Inv, NEW r \in Requesters, Rollback(r), UNCHANGED <<jar, tab>>
  PROVE  Inv'
<1> USE DEF Inv, Types
<1> DEFINE new == issued[r]
<1>1. /\ at[r] = "updated" /\ at' = [at EXCEPT ![r] = "replied"]
      /\ session' = [session EXCEPT ![new] = "unused"]
      /\ family' = [family EXCEPT ![new] = 0]
      /\ issued' = [issued EXCEPT ![r] = 0]
      /\ UNCHANGED <<refresh, snapshot>>
  BY DEF Rollback, Reply, cookies
<1>2. new \in Sessions /\ session[new] = "pending"
  BY <1>1 DEF Rotations
<1>3. \A q \in Requesters \ {r} : at[q] = "updated" =>
        refresh[q] # new /\ issued[q] # new
  BY <1>1, <1>2 DEF Rotations
<1> HIDE DEF new
<1>4. Types'
  BY <1>1, <1>2 DEF Steps, Tokens
<1>5. Rotations'
  BY <1>1, <1>2, <1>3 DEF Rotations
<1>6. Revocations'
  BY <1>1, <1>2 DEF Revocations
<1>7. Families'
  BY <1>1, <1>2 DEF Families
<1>8. OneActivePerFamily'
  BY <1>1, <1>2 DEF OneActivePerFamily
<1>9. Waiting'
  BY <1>1 DEF Waiting
<1> QED
  BY <1>4, <1>5, <1>6, <1>7, <1>8, <1>9

LEMMA RevokeEndKeeps ==
  ASSUME Inv, NEW r \in Requesters, RevokeEnd(r), UNCHANGED <<jar, tab>>
  PROVE  Inv'
<1> USE DEF Inv, Types
<1>1. /\ at[r] = "revoking" /\ at' = [at EXCEPT ![r] = "blacklist"]
      /\ \A s \in snapshot[r] : ~Locked(s)
      /\ snapshot' = [snapshot EXCEPT ![r] =
                        {s \in snapshot[r] : session[s] = "active"}]
      /\ session' = [s \in Sessions |-> IF s \in snapshot[r] THEN "revoked"
                                                             ELSE session[s]]
      /\ UNCHANGED <<family, refresh, issued>>
  BY DEF RevokeEnd, MoveOn, cookies
<1>2. \A q \in Requesters : at[q] = "updated" =>
        refresh[q] \notin snapshot[r] /\ issued[q] \notin snapshot[r]
  BY <1>1 DEF Locked, Rotations, Revocations
<1>3. Types'
  BY <1>1 DEF Steps
<1>4. Rotations'
  BY <1>1, <1>2 DEF Rotations
<1>5. Revocations'
  BY <1>1 DEF Revocations
<1>6. Families'
  BY <1>1 DEF Families, Revocations
<1>7. OneActivePerFamily'
  BY <1>1 DEF OneActivePerFamily
<1>8. Waiting'
  BY <1>1 DEF Waiting
<1> QED
  BY <1>3, <1>4, <1>5, <1>6, <1>7, <1>8

LEMMA ChangePasswordKeeps ==
  ASSUME Inv, ChangePassword, UNCHANGED <<jar, tab>> PROVE Inv'
<1> USE DEF Inv, Types
<1>1. /\ at[Device] = "idle" /\ at' = [at EXCEPT ![Device] = "revoke"]
      /\ UNCHANGED <<session, family, refresh, issued, snapshot>>
  BY DEF ChangePassword, MoveOn, rows
<1>2. Types'
  BY <1>1 DEF Steps
<1>3. Rotations' /\ Revocations' /\ Families' /\ OneActivePerFamily'
  BY <1>1 DEF Rotations, Revocations, Families, OneActivePerFamily
<1>4. Waiting'
  BY <1>1 DEF Waiting, Requesters
<1> QED
  BY <1>2, <1>3, <1>4

LEMMA StillKeeps ==
  ASSUME Inv, UNCHANGED <<session, family, at, refresh, issued, snapshot, jar>>,
         tab' = tab \/ \E t \in Tabs : tab' = [tab EXCEPT ![t] = "closed"]
  PROVE  Inv'
<1>1. Types'
  BY DEF Inv, Types, Pages
<1>2. Waiting'
  BY DEF Inv, Types, Waiting
<1> QED
  BY <1>1, <1>2
  DEF Inv, Rotations, Revocations, Families, OneActivePerFamily

-----------------------------------------------------------------------------
LEMMA InvNext == Inv /\ [Next]_vars => Inv'
<1> SUFFICES ASSUME Inv, [Next]_vars PROVE Inv'
  OBVIOUS
<1>1. ASSUME NEW t \in Tabs,
             \/ Check(t) \/ SubmitLogin(t) \/ SubmitLogout(t) \/ TakeTurn(t)
             \/ Delivers(t) \/ Lose(t)
      PROVE  Inv'
  BY <1>1, TabTurns, TurnsKeep
<1>2. ASSUME NEW t \in Tabs, Close(t) PROVE Inv'
  BY <1>2, StillKeeps DEF Close, Goes, serverVars, rows, cookies, handlers
<1>3. ASSUME NEW t \in Tabs, ServeLostCommit(t) PROVE Inv'
  BY <1>3, CommitKeeps DEF ServeLostCommit, Requesters
<1>4. ASSUME NEW r \in Requesters, Serve(r) PROVE Inv'
  <2>1. UNCHANGED <<jar, tab>> /\ Handles(r)
    BY <1>4 DEF Serve, browserVars
  <2> QED
    BY <2>1, HandlerGoesOn, GoesOnKeeps, LoginKeeps, RotateKeeps, CommitKeeps
    DEF Handles
<1>5. ASSUME NEW r \in Requesters, ServeFailure(r) PROVE Inv'
  BY <1>5, HandlerGoesOn, GoesOnKeeps, RollbackKeeps DEF ServeFailure
<1>6. ASSUME NEW r \in Requesters, ServeRevoke(r) PROVE Inv'
  BY <1>6, RevokeEndKeeps DEF ServeRevoke
<1>7. CASE ServeElsewhere
  BY <1>7, ChangePasswordKeeps DEF ServeElsewhere
<1>8. ASSUME NEW s \in Sessions, Later(s) PROVE Inv'
  BY <1>8, StillKeeps
  DEF Later, Expire, Lapse, rows, cookies, handlers, browserVars
<1>9. CASE UNCHANGED vars
  BY <1>9, StillKeeps DEF vars, serverVars, rows, cookies, handlers, browserVars
<1> QED
  BY <1>1, <1>2, <1>3, <1>4, <1>5, <1>6, <1>7, <1>8, <1>9 DEF Next

(* A family has one session that can be used, whatever requests overlap,   *)
(* fail, are lost or are answered after their tab was closed.              *)
THEOREM SingleUseTokens == Spec => []OneActivePerFamily
<1>1. Inv => OneActivePerFamily
  BY DEF Inv
<1> QED
  BY <1>1, InvInit, InvNext, PTL DEF Spec

-----------------------------------------------------------------------------
(* Why a tab is signed out.                                                *)
(*                                                                         *)
(* JarRenewable says what the jar holds while nothing has happened that    *)
(* may end the session; that no other request can end it (Peaceful) rests  *)
(* on what a request can stand at (Routes, Replies), on whose tokens it    *)
(* carries (Held, Issued), on what a revocation touches (Snapshots) and on *)
(* the lock (Turned).                                                      *)

Stored == {s \in Sessions : session[s] \in {"active", "revoked"}}

Stages(route) ==
  CASE route = "none" -> {"idle"}
    [] route \in {"resource", "login"} -> {"received", "replied"}
    [] route = "refresh" -> {"received", "rotating", "updated", "revoke",
                             "revoking", "blacklist", "replied"}
    [] route = "logout" -> {"received", "named", "revoke", "revoking",
                            "blacklist", "replied"}
    [] route = "password" -> {"revoke", "revoking", "blacklist", "replied"}

PagesOf(route) ==
  CASE route = "none" -> {"idle", "login", "waiting", "closed"}
    [] route = "resource" -> {"first", "second", "retry", "closed"}
    [] route = "refresh" -> {"refreshing", "closed"}
    [] route = "login" -> {"loggingIn", "closed"}
    [] route = "logout" -> {"loggingOut", "closed"}
    [] OTHER -> {}

Routes ==
  /\ \A r \in Requesters : at[r] \in Stages(kind[r])
  /\ \A t \in Tabs : tab[t] \in PagesOf(kind[t])
  /\ kind[Device] \in {"none", "password"}
  /\ refresh[Device] = 0 /\ issued[Device] = 0

(* What a response says of the request it answers.                         *)
Replies ==
  \A r \in Requesters :
    /\ at[r] # "replied" => reply[r] = "none"
    /\ reply[r] = "200" /\ kind[r] \in {"refresh", "login"} => issued[r] # 0
    /\ kind[r] = "refresh" /\ refresh[r] = 0 =>
         at[r] = "received" \/ (at[r] = "replied" /\ reply[r] # "200")
    /\ kind[r] = "refresh" => reply[r] \in {"none", "200", "401", "503"}
    /\ reply[r] = "204" => kind[r] \in {"logout", "password"}

(* A token somebody holds, or a list names, is of a committed row.         *)
Held ==
  /\ jar # 0 => jar \in Stored
  /\ \A r \in Requesters :
       /\ access[r] # 0 => access[r] \in Stored
       /\ refresh[r] # 0 => refresh[r] \in Stored
       /\ kind[r] \in {"refresh", "login", "logout"} => access[r] = refresh[r]
       /\ kind[r] \in {"none", "resource"} => refresh[r] = 0
  /\ lapsed \subseteq Stored /\ jtis \subseteq Stored /\ families \subseteq Stored

(* An operation is refused for its token, never at random.                 *)
Refusals ==
  \A r \in Requesters :
    kind[r] = "resource" /\ reply[r] = "401" /\ access[r] # 0 =>
      access[r] \in expired \cup jtis \/ family[access[r]] \in families

Secret(s) ==
  /\ jar # s
  /\ \A r \in Requesters : access[r] # s /\ refresh[r] # s
  /\ s \notin lapsed /\ s \notin jtis

(* A token on its way to the browser is in nobody else's hands; the one of *)
(* a login is alone in its family.                                         *)
Issued ==
  \A r \in Requesters : issued[r] # 0 =>
    /\ \/ kind[r] = "refresh" /\ at[r] \in {"updated", "replied"}
       \/ kind[r] = "login" /\ at[r] = "replied"
    /\ at[r] = "replied" => issued[r] \in Stored
    /\ Secret(issued[r])
    /\ \A q \in Requesters \ {r} : issued[q] # issued[r]
    /\ kind[r] = "refresh" =>
         refresh[r] # 0 /\ family[issued[r]] = family[refresh[r]]
    /\ kind[r] = "login" =>
         /\ \A s \in Sessions : session[s] # "unused" /\ family[s] = family[issued[r]]
              => s = issued[r]
         /\ family[issued[r]] = issued[r]
         /\ issued[r] \in families => session[issued[r]] = "revoked"

Snapshots ==
  \A r \in Requesters :
    /\ at[r] \notin {"revoking", "blacklist"} => snapshot[r] = {}
    /\ at[r] = "blacklist" => \A s \in snapshot[r] : session[s] = "revoked"
    /\ r # Device => \A s \in snapshot[r] : family[s] \in Named(r)

HasTurn(t) == turns # <<>> /\ Head(turns) = t

Turned == \A t \in Tabs : tab[t] \in {"second", "refreshing"} => HasTurn(t)

(* The response that replaces the jar's token is on its way.               *)
Renewing(t) ==
  /\ tab[t] = "refreshing" /\ at[t] = "replied"
  /\ refresh[t] = jar /\ reply[t] = "200"

(* A request that carries a token of the jar's family does not end it.     *)
Undisturbed(t) ==
  /\ kind[t] # "logout"
  /\ kind[t] = "login" /\ reply[t] = "200" => session[issued[t]] = "active"
  /\ kind[t] = "refresh" =>
       /\ tab[t] = "refreshing" /\ refresh[t] = jar
       /\ at[t] \in {"received", "rotating", "updated", "replied"}
       /\ reply[t] # "401"
       /\ session[IF reply[t] = "200" THEN issued[t] ELSE jar] = "active"

Good ==
  /\ jar # 0 /\ jar \notin lapsed
  /\ family[jar] \notin families
  /\ \A s \in jtis : family[s] # family[jar]
  /\ at[Device] = "blacklist" =>
       \A s \in snapshot[Device] : family[s] # family[jar]
  /\ session[jar] = "active" \/ \E t \in Tabs : Renewing(t)
  /\ \A t \in Tabs :
       refresh[t] # 0 /\ family[refresh[t]] = family[jar] => Undisturbed(t)

Peaceful == excuses = {} => Good

Ground ==
  /\ TypeOK
  /\ Routes /\ Replies /\ Held /\ Refusals /\ Issued /\ Snapshots /\ Turned

LEMMA IssuedType ==
  ASSUME Ground, NEW r \in Requesters, issued[r] # 0
  PROVE  issued[r] \in Sessions
BY DEF Ground, TypeOK, ServerTypeOK, Tokens, Sessions

LEMMA IssuedAlone ==
  ASSUME Ground, NEW r \in Requesters, issued[r] # 0
  PROVE  /\ Secret(issued[r]) /\ jar # issued[r]
         /\ \A q \in Requesters : refresh[q] # issued[r] /\ access[q] # issued[r]
         /\ \A q \in Requesters \ {r} : issued[q] # issued[r]
<1>1. Secret(issued[r]) /\ \A q \in Requesters \ {r} : issued[q] # issued[r]
  BY DEF Ground, Issued
<1> QED
  BY <1>1 DEF Secret

LEMMA Granted ==
  ASSUME Ground, NEW r \in Requesters,
         kind[r] \in {"login", "refresh"}, reply[r] = "200"
  PROVE  issued[r] # 0 /\ issued[r] \in Sessions
<1>1. issued[r] # 0
  BY DEF Ground, Replies
<1> QED
  BY <1>1, IssuedType

-----------------------------------------------------------------------------
(* Browser steps: a request in the place of one that is over, or none.     *)

Asks(t, route, token, page) ==
  /\ UNCHANGED <<rows, clocks, redis, snapshot>>
  /\ at[t] \in {"idle", "received", "replied"}
  /\ jar' = jar \/ (jar' = JarAfter(t) /\ at[t] = "replied")
  /\ token \in {0, jar'} /\ (route = "none" => token = 0)
  /\ page \in PagesOf(route)
  /\ kind' = [kind EXCEPT ![t] = route]
  /\ access' = [access EXCEPT ![t] = token]
  /\ refresh' = [refresh EXCEPT ![t] =
                   IF route \in {"none", "resource"} THEN 0 ELSE token]
  /\ at' = [at EXCEPT ![t] = IF route = "none" THEN "idle" ELSE "received"]
  /\ issued' = [issued EXCEPT ![t] = 0]
  /\ reply' = [reply EXCEPT ![t] = "none"]
  /\ tab' = [tab EXCEPT ![t] = page]

Routed == {"none", "resource", "refresh", "login", "logout"}

LEMMA SendAsks ==
  ASSUME NEW t \in Tabs, NEW route \in Routed \ {"none"}, NEW token,
         NEW page \in PagesOf(route),
         Send(t, route, token), Goes(t, page),
         UNCHANGED <<rows, clocks, redis>>,
         at[t] \in {"idle", "received", "replied"},
         jar' = jar \/ (jar' = JarAfter(t) /\ at[t] = "replied"),
         token = jar'
  PROVE  Asks(t, route, token, page)
BY DEF Send, Goes, Asks, Routed

LEMMA QuietAsks ==
  ASSUME NEW t \in Tabs, NEW page \in PagesOf("none"),
         Quiet(t), Goes(t, page),
         UNCHANGED <<rows, clocks, redis>>,
         at[t] \in {"idle", "received", "replied"},
         jar' = jar \/ (jar' = JarAfter(t) /\ at[t] = "replied")
  PROVE  Asks(t, "none", 0, page)
BY DEF Quiet, Goes, Asks

LEMMA Pagings ==
  /\ PagesOf("none") = {"idle", "login", "waiting", "closed"}
  /\ PagesOf("resource") = {"first", "second", "retry", "closed"}
  /\ PagesOf("refresh") = {"refreshing", "closed"}
  /\ PagesOf("login") = {"loggingIn", "closed"}
  /\ PagesOf("logout") = {"loggingOut", "closed"}
BY DEF PagesOf

LEMMA TabPages ==
  ASSUME Ground, NEW t \in Tabs
  PROVE  /\ tab[t] \in {"first", "second", "retry"} => kind[t] = "resource"
         /\ tab[t] = "refreshing" => kind[t] = "refresh"
         /\ tab[t] = "loggingIn" => kind[t] = "login"
         /\ tab[t] = "loggingOut" => kind[t] = "logout"
         /\ tab[t] \in {"idle", "login", "waiting"} => kind[t] = "none"
BY DEF Ground, Routes, PagesOf

Asking(t) ==
  \E route \in Routed, token \in Tokens : \E page \in PagesOf(route) :
    /\ Asks(t, route, token, page)
    /\ page = "closed" => route = "none"
    /\ page \in {"second", "refreshing"} => HasTurn(t) /\ UNCHANGED turns
    /\ page = "refreshing" =>
         tab[t] = "second" /\ jar' = jar /\ excuses' = excuses
    /\ route = "logout" => excuses' # {}

LEMMA AskingSend ==
  ASSUME NEW t \in Tabs, NEW route \in {"resource", "login"},
         NEW page \in {"first", "retry", "loggingIn"},
         page \in PagesOf(route),
         jar' \in Tokens,
         Asks(t, route, jar', page)
  PROVE  Asking(t)
BY DEF Asking, Routed

LEMMA AskingNothing ==
  ASSUME NEW t \in Tabs, NEW page \in PagesOf("none"),
         Asks(t, "none", 0, page)
  PROVE  Asking(t)
<1>1. 0 \in Tokens
  BY SessionsAssumption DEF Tokens
<1> QED
  BY <1>1, Pagings DEF Asking, Routed

LEMMA AnswersAsk ==
  ASSUME Inv, Ground, NEW t \in Tabs, Delivers(t) PROVE Asking(t)
<1>1. /\ at[t] = "replied" /\ jar' = JarAfter(t)
      /\ UNCHANGED <<rows, clocks, redis>>
  BY DEF Delivers, FirstAnswered, SecondAnswered, RefreshAnswered,
     RetryAnswered, LoginAnswered, LogoutAnswered, LateAnswer, Arrives
<1>2. jar' \in Tokens /\ jar \in Tokens
  BY <1>1, JarType DEF Inv, Types
<1>3. ASSUME NEW page \in PagesOf("none"), Quiet(t), Goes(t, page)
      PROVE  Asking(t)
  BY <1>1, <1>3, QuietAsks, AskingNothing
<1>4. ASSUME NEW page \in {"idle", "login", "waiting", "closed"},
             Quiet(t), Goes(t, page)
      PROVE  Asking(t)
  BY <1>3, <1>4, Pagings
<1>5. ASSUME Renewed(t) PROVE Asking(t)
  <2>1. CASE Quiet(t) /\ Goes(t, "idle")
    BY <1>4, <2>1
  <2>2. CASE Send(t, "resource", JarAfter(t)) /\ Goes(t, "retry")
    <3>1. "retry" \in PagesOf("resource")
      BY Pagings
    <3>2. Asks(t, "resource", jar', "retry")
      BY <1>1, <2>2, <3>1, SendAsks DEF Routed
    <3> QED
      BY <1>2, <3>1, <3>2, AskingSend
  <2> QED
    BY <1>5, <2>1, <2>2 DEF Renewed
<1>6. CASE LateAnswer(t)
  <2>1. Goes(t, "closed")
    BY <1>6 DEF LateAnswer, Goes, Inv, Types
  <2> QED
    BY <1>4, <1>6, <2>1 DEF LateAnswer
<1>7. CASE FirstAnswered(t)
  BY <1>4, <1>7 DEF FirstAnswered, AsksForTurn
<1>8. CASE SecondAnswered(t)
  <2>1. CASE reply[t] = "401" /\ Send(t, "refresh", jar) /\ Goes(t, "refreshing")
             /\ UNCHANGED turns
    <3>1. tab[t] = "second" /\ kind[t] = "resource"
      BY <1>8, TabPages DEF SecondAnswered
    <3>2. jar' = jar
      BY <1>1, <2>1, <3>1 DEF JarAfter
    <3>3. excuses' = excuses
      BY <1>8, <2>1, <3>1, <3>2, <1>1
      DEF SecondAnswered, Arrives, ExcusesAfter, SignsIn, Crosses
    <3>4. "refreshing" \in PagesOf("refresh") /\ HasTurn(t)
      BY <3>1, Pagings DEF Ground, Turned
    <3>5. Asks(t, "refresh", jar, "refreshing")
      BY <1>1, <2>1, <3>2, <3>4, SendAsks DEF Routed
    <3> QED
      BY <1>2, <2>1, <3>1, <3>2, <3>3, <3>4, <3>5 DEF Asking, Routed
  <2> QED
    BY <1>4, <1>5, <1>8, <2>1 DEF SecondAnswered
<1>9. CASE RefreshAnswered(t)
  BY <1>4, <1>5, <1>9 DEF RefreshAnswered
<1>10. CASE RetryAnswered(t)
  BY <1>4, <1>10 DEF RetryAnswered
<1>11. CASE LoginAnswered(t)
  BY <1>4, <1>11 DEF LoginAnswered
<1>12. CASE LogoutAnswered(t)
  BY <1>4, <1>12 DEF LogoutAnswered
<1> QED
  BY <1>6, <1>7, <1>8, <1>9, <1>10, <1>11, <1>12 DEF Delivers

LEMMA TabAsks ==
  ASSUME Inv, Ground, NEW t \in Tabs,
         \/ Check(t) \/ SubmitLogin(t) \/ SubmitLogout(t) \/ TakeTurn(t)
         \/ Delivers(t) \/ Lose(t)
  PROVE  Asking(t)
<1>1. jar \in Tokens /\ tab[t] \in Pages /\ Waiting
  BY DEF Inv, Types
<1>2. /\ "first" \in PagesOf("resource") /\ "second" \in PagesOf("resource")
      /\ "loggingIn" \in PagesOf("login") /\ "loggingOut" \in PagesOf("logout")
  BY Pagings
<1>3. CASE Check(t)
  <2>1. Asks(t, "resource", jar, "first") /\ jar' = jar
    BY <1>2, <1>3, SendAsks DEF Check, Routed
  <2> QED
    BY <1>1, <1>2, <2>1, AskingSend
<1>4. CASE SubmitLogin(t)
  <2>1. Asks(t, "login", jar, "loggingIn") /\ jar' = jar
    BY <1>2, <1>4, SendAsks DEF SubmitLogin, Routed
  <2> QED
    BY <1>1, <1>2, <2>1, AskingSend
<1>5. CASE SubmitLogout(t)
  <2>1. Asks(t, "logout", jar, "loggingOut") /\ jar' = jar /\ excuses' # {}
    BY <1>2, <1>5, SendAsks DEF SubmitLogout, Routed
  <2> QED
    BY <1>1, <1>2, <2>1 DEF Asking, Routed
<1>6. CASE TakeTurn(t)
  <2>1. at[t] = "idle"
    BY <1>1, <1>6 DEF Waiting, TakeTurn
  <2>2. /\ Asks(t, "resource", jar, "second") /\ jar' = jar
        /\ HasTurn(t) /\ UNCHANGED turns
    BY <1>2, <1>6, <2>1, SendAsks DEF TakeTurn, Routed, HasTurn
  <2> QED
    BY <1>1, <1>2, <2>2 DEF Asking, Routed
<1>7. CASE Delivers(t)
  BY <1>7, AnswersAsk
<1>8. CASE Lose(t)
  <2>1. \E page \in {"idle", "login", "closed"} : Goes(t, page)
    BY <1>8 DEF Lose, Goes
  <2>2. PICK page \in PagesOf("none") : Goes(t, page)
    BY <2>1, Pagings
  <2> QED
    BY <1>8, <2>2, QuietAsks, AskingNothing DEF Lose
<1> QED
  BY <1>3, <1>4, <1>5, <1>6, <1>7, <1>8

-----------------------------------------------------------------------------
(* The lock.                                                               *)

LEMMA HeadIsFirst ==
  ASSUME NEW S, NEW seq \in Seq(S), seq # <<>> PROVE Head(seq) = seq[1]
OBVIOUS

LEMMA Leaves ==
  ASSUME NEW S, NEW seq \in Seq(S), NEW i \in DOMAIN seq
  PROVE  /\ RemoveAt(seq, i) \in Seq(S)
         /\ i # 1 => RemoveAt(seq, i) # <<>> /\ Head(RemoveAt(seq, i)) = Head(seq)
<1> DEFINE n == Len(seq)
           before == SubSeq(seq, 1, i - 1)
           after == SubSeq(seq, i + 1, n)
<1>1. n \in Nat /\ i \in 1..n /\ \A k \in 1..n : seq[k] \in S
  BY LenProperties, ElementOfSeq
<1>2. RemoveAt(seq, i) = before \o after
  BY DEF RemoveAt
<1>3. /\ before \in Seq(S)
      /\ Len(before) = IF 1 <= i - 1 THEN i - 1 ELSE 0
      /\ \A k \in 1 .. i - 1 : before[k] = seq[k]
  <2>1. 1 \in Int /\ i - 1 \in Int /\ \A k \in 1 .. i - 1 : seq[k] \in S
    BY <1>1
  <2>2. /\ before \in Seq(S)
        /\ Len(before) = IF 1 <= i - 1 THEN i - 1 - 1 + 1 ELSE 0
        /\ \A k \in 1 .. i - 1 - 1 + 1 : before[k] = seq[1 + k - 1]
    BY <2>1, SubSeqProperties
  <2> HIDE DEF before
  <2> QED
    BY <1>1, <2>2
<1>4. after \in Seq(S)
  <2>1. i + 1 \in Int /\ n \in Int /\ \A k \in i + 1 .. n : seq[k] \in S
    BY <1>1
  <2> QED
    BY <2>1, SubSeqProperties
<1> HIDE DEF before, after, n
<1>5. before \o after \in Seq(S)
  BY <1>3, <1>4, ConcatProperties
<1>6. ASSUME i # 1
      PROVE  before \o after # <<>> /\ Head(before \o after) = Head(seq)
  <2>1. Len(before) \in Nat /\ Len(before) >= 1 /\ before[1] = seq[1]
    BY <1>1, <1>3, <1>6
  <2>2. Len(after) \in Nat
    BY <1>4, LenProperties
  <2>3. /\ Len(before \o after) = Len(before) + Len(after)
        /\ \A k \in 1 .. Len(before) + Len(after) :
             (before \o after)[k] =
               IF k <= Len(before) THEN before[k] ELSE after[k - Len(before)]
    BY <1>3, <1>4, ConcatProperties, Zenon
  <2>4. /\ Len(before) + Len(after) # 0
        /\ 1 \in 1 .. Len(before) + Len(after) /\ 1 <= Len(before)
    BY <2>1, <2>2
  <2>5. before \o after # <<>>
    BY <2>3, <2>4, EmptySeq, Zenon
  <2>6. (before \o after)[1] = seq[1]
    BY <2>1, <2>3, <2>4, Zenon
  <2>7. Head(before \o after) = (before \o after)[1]
    BY <1>5, <2>5, HeadIsFirst, Zenon
  <2>8. Head(seq) = seq[1]
    <3>1. seq # <<>>
      BY <1>1, EmptySeq, <1>6 DEF n
    <3> QED
      BY <3>1, HeadIsFirst, Zenon
  <2> QED
    BY <2>5, <2>6, <2>7, <2>8, Zenon
<1> QED
  BY <1>2, <1>5, <1>6, Zenon

(* The queue after a step of t: whoever else has the turn keeps it.        *)
Queues(t) ==
  /\ turns' \in Seq(Tabs)
  /\ \A q \in Tabs \ {t} : HasTurn(q) => HasTurn(q)'

LEMMA LetGoQueues ==
  ASSUME turns \in Seq(Tabs), NEW t \in Tabs, LetGo(t) PROVE Queues(t)
<1>1. CASE UNCHANGED turns
  BY <1>1, Zenon DEF Queues, HasTurn
<1>2. CASE ~UNCHANGED turns
  <2>1. PICK i \in DOMAIN turns : turns[i] = t /\ turns' = RemoveAt(turns, i)
    BY <1>2, Zenon DEF LetGo
  <2>2. /\ turns' \in Seq(Tabs)
        /\ i # 1 => turns' # <<>> /\ Head(turns') = Head(turns)
    BY <2>1, Leaves, Zenon
  <2>3. ASSUME i = 1, turns # <<>> PROVE Head(turns) = t
    BY <2>1, <2>3, HeadIsFirst, Zenon
  <2> QED
    BY <2>2, <2>3, Zenon DEF Queues, HasTurn
<1> QED
  BY <1>1, <1>2, Zenon

LEMMA AppendQueues ==
  ASSUME turns \in Seq(Tabs), NEW t \in Tabs, turns' = Append(turns, t)
  PROVE  Queues(t)
<1>1. turns' \in Seq(Tabs) /\ turns' # <<>>
  <2>1. Append(turns, t) \in Seq(Tabs) /\ Append(turns, t) # <<>>
    BY AppendProperties
  <2> QED
    BY <2>1, Zenon
<1>2. turns # <<>> => Head(turns') = Head(turns)
  BY HeadTailAppend, Zenon
<1> QED
  BY <1>1, <1>2, Zenon DEF Queues, HasTurn

LEMMA StillQueues ==
  ASSUME turns \in Seq(Tabs), NEW t, UNCHANGED turns PROVE Queues(t)
BY Zenon DEF Queues, HasTurn

LEMMA TabQueues ==
  ASSUME turns \in Seq(Tabs), NEW t \in Tabs,
         \/ Check(t) \/ SubmitLogin(t) \/ SubmitLogout(t) \/ TakeTurn(t)
         \/ Delivers(t) \/ Lose(t) \/ Close(t)
  PROVE  Queues(t)
<1>1. CASE UNCHANGED turns
  BY <1>1, StillQueues
<1>2. CASE LetGo(t)
  BY <1>2, LetGoQueues
<1>3. CASE turns' = Append(turns, t)
  BY <1>3, AppendQueues
<1>4. UNCHANGED turns \/ LetGo(t) \/ turns' = Append(turns, t)
  BY DEF Check, SubmitLogin, SubmitLogout, TakeTurn, Delivers, Lose, Close,
     FirstAnswered, SecondAnswered, RefreshAnswered, RetryAnswered,
     LoginAnswered, LogoutAnswered, LateAnswer, AsksForTurn, Renewed
<1> QED
  BY <1>1, <1>2, <1>3, <1>4

LEMMA QueuesKeepTurn ==
  ASSUME Ground, NEW t \in Tabs, Queues(t),
         NEW page, tab' = [tab EXCEPT ![t] = page],
         page \in {"second", "refreshing"} => HasTurn(t) /\ UNCHANGED turns
  PROVE  Turned'
<1>1. \A q \in Tabs : tab'[q] = IF q = t THEN page ELSE tab[q]
  BY DEF Ground, TypeOK
<1>2. page \in {"second", "refreshing"} => HasTurn(t)'
  BY Zenon DEF HasTurn
<1>3. \A q \in Tabs : tab[q] \in {"second", "refreshing"} => HasTurn(q)
  BY Zenon DEF Ground, Turned
<1>4. \A q \in Tabs \ {t} : HasTurn(q) => HasTurn(q)'
  BY Zenon DEF Queues
<1>5. \A q \in Tabs : tab'[q] \in {"second", "refreshing"} => HasTurn(q)'
  <2>1. ASSUME NEW q \in Tabs, tab'[q] \in {"second", "refreshing"}
        PROVE  HasTurn(q)'
    <3>1. CASE q = t
      BY <1>1, <1>2, <2>1, <3>1, Zenon
    <3>2. CASE q # t
      <4>1. tab[q] \in {"second", "refreshing"}
        BY <1>1, <2>1, <3>2, Zenon
      <4> QED
        BY <1>3, <1>4, <3>2, <4>1, Zenon
    <3> QED
      BY <3>1, <3>2
  <2> QED
    BY <2>1, Zenon
<1> QED
  BY <1>5, Zenon DEF Turned

(* Two tabs never renew at once.                                           *)
LEMMA OneRenews ==
  ASSUME Ground, NEW t \in Tabs, NEW u \in Tabs,
         tab[t] \in {"second", "refreshing"}, tab[u] \in {"second", "refreshing"}
  PROVE  t = u
<1>1. HasTurn(t) /\ HasTurn(u)
  BY Zenon DEF Ground, Turned
<1> QED
  BY <1>1, Zenon DEF HasTurn

-----------------------------------------------------------------------------
(* What a browser step keeps.                                              *)

LEMMA AsksTypes ==
  ASSUME Ground, NEW t \in Tabs, NEW route \in Routed, NEW token \in Tokens,
         NEW page, Asks(t, route, token, page)
  PROVE  ServerTypeOK' /\ tab' \in [Tabs -> Pages] /\ jar' \in Tokens
<1> USE DEF Ground, TypeOK, ServerTypeOK, Requesters
<1>1. page \in Pages
  BY DEF Asks, PagesOf, Pages, Checking
<1>2. tab' \in [Tabs -> Pages]
  BY <1>1 DEF Asks
<1>3. jar' \in Tokens
  BY DEF Asks, JarAfter, Tokens
<1>4. /\ UNCHANGED <<session, family, replacedBy, expired, lapsed, jtis, families,
                     snapshot>>
  BY DEF Asks, rows, clocks, redis
<1>5. 0 \in Tokens
  BY DEF Tokens
<1>6. /\ kind' \in [Requesters -> Kinds]
      /\ access' \in [Requesters -> Tokens] /\ refresh' \in [Requesters -> Tokens]
  BY <1>5 DEF Asks, Routed, Kinds
<1>7. /\ at' \in [Requesters -> Steps]
      /\ issued' \in [Requesters -> Tokens]
      /\ reply' \in [Requesters -> Statuses]
  BY <1>5 DEF Asks, Steps, Statuses
<1> QED
  BY <1>2, <1>3, <1>4, <1>6, <1>7

(* A step of the browser, requester by requester.                          *)
LEMMA AsksPointwise ==
  ASSUME Ground, NEW t \in Tabs, NEW route, NEW token, NEW page,
         Asks(t, route, token, page)
  PROVE  /\ \A r \in Requesters :
              /\ kind'[r] = IF r = t THEN route ELSE kind[r]
              /\ access'[r] = IF r = t THEN token ELSE access[r]
              /\ refresh'[r] = IF r # t THEN refresh[r]
                               ELSE IF route \in {"none", "resource"} THEN 0 ELSE token
              /\ at'[r] = IF r # t THEN at[r]
                          ELSE IF route = "none" THEN "idle" ELSE "received"
              /\ issued'[r] = IF r = t THEN 0 ELSE issued[r]
              /\ reply'[r] = IF r = t THEN "none" ELSE reply[r]
         /\ \A u \in Tabs : tab'[u] = IF u = t THEN page ELSE tab[u]
         /\ UNCHANGED <<session, family, replacedBy, expired, lapsed, jtis,
                        families, snapshot>>
BY DEF Ground, TypeOK, ServerTypeOK, Asks, Requesters, rows, clocks, redis

LEMMA AsksKeeps ==
  ASSUME Inv, Ground, NEW t \in Tabs, NEW route \in Routed,
         NEW token \in Tokens, NEW page, Asks(t, route, token, page)
  PROVE  Routes' /\ Replies' /\ Held' /\ Refusals' /\ Issued' /\ Snapshots'
<1> DEFINE cookie == IF route \in {"none", "resource"} THEN 0 ELSE token
           step == IF route = "none" THEN "idle" ELSE "received"
<1>1. /\ \A r \in Requesters :
           /\ kind'[r] = IF r = t THEN route ELSE kind[r]
           /\ access'[r] = IF r = t THEN token ELSE access[r]
           /\ refresh'[r] = IF r # t THEN refresh[r] ELSE cookie
           /\ at'[r] = IF r # t THEN at[r] ELSE step
           /\ issued'[r] = IF r = t THEN 0 ELSE issued[r]
           /\ reply'[r] = IF r = t THEN "none" ELSE reply[r]
      /\ \A u \in Tabs : tab'[u] = IF u = t THEN page ELSE tab[u]
      /\ UNCHANGED <<session, family, expired, lapsed, jtis, families, snapshot>>
  BY AsksPointwise
<1>2. /\ t \in Requesters /\ t # Device /\ Device \in Requesters
      /\ \A u \in Tabs : u \in Requesters
  BY DEF Requesters
<1>3. /\ token \in {0, jar'} /\ (route = "none" => token = 0)
      /\ page \in PagesOf(route)
      /\ at[t] \in {"idle", "received", "replied"}
      /\ jar' = jar \/ (jar' = JarAfter(t) /\ at[t] = "replied")
  BY DEF Asks
<1>4. jar' \in {jar, 0, issued[t]} /\ (jar' = issued[t] => jar' = jar \/ at[t] = "replied")
  BY <1>3 DEF JarAfter
<1>5. Routes'
  <2>1. step \in Stages(route)
    BY DEF Stages, Routed
  <2>2. \A r \in Requesters : at'[r] \in Stages(kind'[r])
    BY <1>1, <2>1 DEF Ground, Routes
  <2>3. \A u \in Tabs : tab'[u] \in PagesOf(kind'[u])
    BY <1>1, <1>2, <1>3 DEF Ground, Routes
  <2> QED
    BY <1>1, <1>2, <2>2, <2>3 DEF Ground, Routes
<1>6. Replies'
  BY <1>1 DEF Ground, Replies, Routed
<1>7. \A r \in Requesters : issued[r] # 0 =>
        /\ Secret(issued[r])
        /\ at[r] = "replied" => issued[r] \in Stored
        /\ \A q \in Requesters \ {r} : issued[q] # issued[r]
  BY DEF Ground, Issued
<1>8. jar' # 0 => jar' \in Stored
  BY <1>2, <1>4, <1>7 DEF Ground, Held
<1>9. Stored' = Stored
  BY <1>1 DEF Stored
<1>10. Held'
  <2>1. token # 0 => token \in Stored
    BY <1>3, <1>8
  <2>2. \A r \in Requesters :
          /\ access'[r] # 0 => access'[r] \in Stored
          /\ refresh'[r] # 0 => refresh'[r] \in Stored
          /\ kind'[r] \in {"refresh", "login", "logout"} => access'[r] = refresh'[r]
          /\ kind'[r] \in {"none", "resource"} => refresh'[r] = 0
    BY <1>1, <2>1 DEF Ground, Held
  <2> QED
    BY <1>1, <1>8, <1>9, <2>2 DEF Ground, Held
<1>11. Refusals'
  BY <1>1 DEF Ground, Refusals
<1>12. \A r \in Requesters \ {t} : issued[r] # 0 => Secret(issued[r])'
  BY <1>1, <1>2, <1>3, <1>4, <1>7 DEF Secret
<1>13. Issued'
  BY <1>1, <1>2, <1>9, <1>12 DEF Ground, Issued
<1>14. Snapshots'
  <2>1. \A r \in Requesters \ {t} : Named(r)' = Named(r)
    BY <1>1 DEF Named
  <2>2. snapshot[t] = {}
    BY <1>2, <1>3 DEF Ground, Snapshots
  <2> QED
    BY <1>1, <1>2, <2>1, <2>2 DEF Ground, Snapshots
<1> QED
  BY <1>5, <1>6, <1>10, <1>11, <1>13, <1>14

-----------------------------------------------------------------------------
(* What a server step keeps of the requests.                               *)

LEMMA Stands ==
  ASSUME Ground, NEW r \in Requesters
  PROVE  /\ at[r] = "named" => kind[r] = "logout"
         /\ at[r] \in {"rotating", "updated"} => kind[r] = "refresh"
         /\ at[r] \in {"revoke", "revoking", "blacklist"} =>
              kind[r] \in {"refresh", "logout", "password"}
         /\ at[r] = "received" => kind[r] \in Routed \ {"none"}
         /\ r = Device => kind[r] \in {"none", "password"}
         /\ r # Device => r \in Tabs /\ kind[r] \in Routed
<1>1. kind[r] \in Kinds /\ at[r] \in Stages(kind[r])
  BY DEF Ground, TypeOK, ServerTypeOK, Routes
<1>2. /\ kind[Device] \in {"none", "password"}
      /\ r # Device => r \in Tabs /\ tab[r] \in PagesOf(kind[r])
  BY DEF Ground, Routes, Requesters
<1> QED
  BY <1>1, <1>2 DEF Stages, PagesOf, Kinds, Routed

Serves(r, step, status) ==
  /\ UNCHANGED <<kind, access, refresh, jar, tab, turns>>
  /\ at' = [at EXCEPT ![r] = step]
  /\ reply' = [reply EXCEPT ![r] = status]
  /\ \A q \in Requesters \ {r} : issued'[q] = issued[q]
  /\ step \in Stages(kind[r]) \cap Steps
  /\ status \in Statuses
  /\ step = "replied" \/ status = "none"
  /\ status = "200" /\ kind[r] \in {"refresh", "login"} => issued'[r] # 0
  /\ kind[r] = "refresh" => status \in {"none", "200", "401", "503"}
  /\ kind[r] = "refresh" /\ refresh[r] = 0 =>
       step = "replied" /\ status # "200"
  /\ status = "204" => kind[r] \in {"logout", "password"}

(* Committed rows, and what is said of them, stay.                         *)
Grows ==
  /\ Stored \subseteq Stored'
  /\ \A s \in Stored : family'[s] = family[s]
  /\ expired \subseteq expired'
  /\ jtis \subseteq jtis' /\ families \subseteq families'
  /\ jtis' \cup families' \cup lapsed' \subseteq Stored'

LEMMA ServesPointwise ==
  ASSUME Ground, NEW r \in Requesters, NEW step, NEW status,
         Serves(r, step, status)
  PROVE  /\ \A q \in Requesters :
              /\ at'[q] = IF q = r THEN step ELSE at[q]
              /\ reply'[q] = IF q = r THEN status ELSE reply[q]
         /\ UNCHANGED <<kind, access, refresh, jar, tab, turns>>
BY DEF Ground, TypeOK, ServerTypeOK, Serves

LEMMA ServesKeeps ==
  ASSUME Ground, NEW r \in Requesters, NEW step, NEW status,
         Serves(r, step, status), Grows,
         kind[r] = "resource" /\ status = "401" /\ access[r] # 0 =>
           access[r] \in expired \cup jtis \/ family[access[r]] \in families,
         r = Device => issued'[Device] = 0
  PROVE  Routes' /\ Replies' /\ Held' /\ Refusals' /\ Turned'
<1>1. /\ \A q \in Requesters :
           /\ at'[q] = IF q = r THEN step ELSE at[q]
           /\ reply'[q] = IF q = r THEN status ELSE reply[q]
      /\ UNCHANGED <<kind, access, refresh, jar, tab, turns>>
  BY ServesPointwise
<1>2. /\ Device \in Requesters /\ \A t \in Tabs : t \in Requesters
  BY DEF Requesters
<1>3. Routes'
  BY <1>1, <1>2 DEF Ground, Routes, Serves
<1>4. Replies'
  BY <1>1 DEF Ground, Replies, Serves
<1>5. Held'
  BY <1>1 DEF Ground, Held, Grows
<1>6. Refusals'
  <2>1. ASSUME NEW q \in Requesters, kind'[q] = "resource", reply'[q] = "401",
               access'[q] # 0
        PROVE  access'[q] \in expired' \cup jtis' \/ family'[access'[q]] \in families'
    <3>1. access[q] # 0 /\ access'[q] = access[q] /\ kind[q] = "resource"
      BY <1>1, <2>1
    <3>2. access[q] \in expired \cup jtis \/ family[access[q]] \in families
      BY <1>1, <2>1, <3>1 DEF Ground, Refusals
    <3>3. access[q] \in Stored
      BY <3>1 DEF Ground, Held
    <3> QED
      BY <3>1, <3>2, <3>3 DEF Grows
  <2> QED
    BY <2>1 DEF Refusals
<1>7. Turned'
  <2>1. turns' = turns /\ tab' = tab
    BY <1>1
  <2> QED
    BY <2>1, Zenon DEF Ground, Turned, HasTurn
<1> QED
  BY <1>3, <1>4, <1>5, <1>6, <1>7

(* A handler goes on and leaves the rows alone.                            *)
Moves(r) ==
  \/ Resource(r) \/ FindToken(r) \/ NameAccess(r) \/ NameRefresh(r)
  \/ RevokeStart(r) \/ Blacklist(r) \/ Fails(r)
  \/ (Login(r) \/ Rotate(r)) /\ UNCHANGED <<session, family, issued>>

Still == UNCHANGED <<jar, tab, turns>>

LEMMA MovesServes ==
  ASSUME Inv, Ground, NEW r \in Requesters, Moves(r), Still
  PROVE  /\ UNCHANGED <<rows, clocks, issued>>
         /\ \E step, status :
              /\ Serves(r, step, status)
              /\ kind[r] = "resource" /\ status = "401" /\ access[r] # 0 =>
                   \/ access[r] \in expired \cup jtis
                   \/ family[access[r]] \in families
<1>1. /\ at[r] = "named" => kind[r] = "logout"
      /\ at[r] \in {"rotating", "updated"} => kind[r] = "refresh"
      /\ at[r] \in {"revoke", "revoking", "blacklist"} =>
           kind[r] \in {"refresh", "logout", "password"}
      /\ at[r] = "received" => kind[r] \in Routed \ {"none"}
  BY Stands
<1>2. /\ at[r] # "replied" => reply[r] = "none"
      /\ kind[r] = "refresh" /\ refresh[r] = 0 =>
           at[r] \in {"received", "replied"}
      /\ reply \in [Requesters -> Statuses]
  BY DEF Ground, Replies, TypeOK, ServerTypeOK
<1>3. UNCHANGED <<rows, clocks, issued, kind, access, refresh, jar, tab, turns>>
  BY DEF Moves, Resource, FindToken, NameAccess, NameRefresh, RevokeStart,
     Blacklist, Fails, Login, Rotate, rows, clocks, cookies, Still
<1>4. ASSUME NEW step \in Stages(kind[r]) \cap Steps, NEW status \in Statuses,
             at' = [at EXCEPT ![r] = step],
             reply' = [reply EXCEPT ![r] = status],
             step = "replied" \/ status = "none",
             kind[r] = "refresh" => status \in {"none", "401", "503"},
             kind[r] = "login" => status # "200",
             kind[r] = "refresh" /\ refresh[r] = 0 => step = "replied",
             status = "204" => kind[r] \in {"logout", "password"}
      PROVE  Serves(r, step, status)
  BY <1>3, <1>4 DEF Serves
<1>5. ASSUME NEW step \in Stages(kind[r]) \cap Steps, MoveOn(r, step),
             at[r] # "replied", step # "replied",
             kind[r] = "refresh" => refresh[r] # 0
      PROVE  Serves(r, step, "none")
  <2>1. reply' = [reply EXCEPT ![r] = "none"]
    BY <1>2, <1>5 DEF MoveOn
  <2> QED
    BY <1>4, <1>5, <2>1 DEF MoveOn, Statuses
<1> USE DEF Stages, Steps, Statuses, Routed
<1>6. CASE Resource(r)
  <2> DEFINE status == IF Authenticates(access[r]) THEN "200" ELSE "401"
  <2>1. Serves(r, "replied", status)
    BY <1>4, <1>6 DEF Resource, Reply
  <2>2. status = "401" /\ access[r] # 0 =>
          access[r] \in expired \cup jtis \/ family[access[r]] \in families
    BY DEF Authenticates
  <2> QED
    BY <1>3, <2>1, <2>2
<1>7. CASE FindToken(r)
  <2>1. at[r] = "received" /\ kind[r] = "refresh"
    BY <1>7 DEF FindToken
  <2>2. \/ Reply(r, "401")
        \/ MoveOn(r, "revoke") /\ refresh[r] # 0
        \/ MoveOn(r, "rotating") /\ refresh[r] # 0
    BY <1>7 DEF FindToken
  <2>3. Reply(r, "401") => Serves(r, "replied", "401")
    BY <1>4, <2>1 DEF Reply
  <2>4. MoveOn(r, "revoke") /\ refresh[r] # 0 => Serves(r, "revoke", "none")
    BY <1>5, <2>1
  <2>5. MoveOn(r, "rotating") /\ refresh[r] # 0 => Serves(r, "rotating", "none")
    BY <1>5, <2>1
  <2> QED
    BY <1>3, <2>1, <2>2, <2>3, <2>4, <2>5
<1>8. CASE NameAccess(r)
  <2>1. Serves(r, "named", "none") /\ kind[r] = "logout"
    BY <1>5, <1>8 DEF NameAccess
  <2> QED
    BY <1>3, <2>1
<1>9. CASE NameRefresh(r)
  <2>1. kind[r] = "logout" /\ at[r] = "named"
    BY <1>1, <1>9 DEF NameRefresh
  <2>2. MoveOn(r, "revoke") => Serves(r, "revoke", "none")
    BY <1>5, <2>1
  <2>3. Reply(r, "204") => Serves(r, "replied", "204")
    BY <1>4, <2>1 DEF Reply
  <2> QED
    BY <1>3, <1>9, <2>1, <2>2, <2>3 DEF NameRefresh
<1>10. CASE RevokeStart(r)
  <2>1. Serves(r, "revoking", "none")
    BY <1>1, <1>2, <1>5, <1>10 DEF RevokeStart
  <2> QED
    BY <1>3, <2>1
<1>11. CASE Blacklist(r)
  <2> DEFINE status == IF kind[r] = "refresh" THEN "401" ELSE "204"
  <2>1. kind[r] \in {"refresh", "logout", "password"} /\ at[r] = "blacklist"
    BY <1>1, <1>11 DEF Blacklist
  <2>2. Serves(r, "replied", status)
    BY <1>4, <1>11, <2>1 DEF Blacklist, Reply
  <2> QED
    BY <1>3, <2>1, <2>2
<1>12. ASSUME Reply(r, "503"), at[r] # "idle", kind[r] # "none"
       PROVE  Serves(r, "replied", "503")
  <2>1. kind[r] \in Kinds
    BY DEF Ground, TypeOK, ServerTypeOK
  <2> QED
    BY <1>4, <1>12, <2>1 DEF Reply, Kinds
<1>13. CASE Fails(r)
  <2>1. Serves(r, "replied", "503")
    BY <1>1, <1>12, <1>13 DEF Fails
  <2> QED
    BY <1>3, <2>1
<1>14. CASE Login(r) /\ UNCHANGED <<session, family, issued>>
  <2>1. Reply(r, "401") /\ kind[r] = "login" /\ at[r] = "received"
    <3>1. Unused # {} => ~(session' = [session EXCEPT ![Fresh] = "active"])
      BY <1>14, FreshIsUnused DEF Inv, Types
    <3> QED
      BY <1>14, <3>1 DEF Login
  <2>2. Serves(r, "replied", "401")
    BY <1>4, <2>1 DEF Reply
  <2> QED
    BY <1>3, <2>1, <2>2
<1>15. CASE Rotate(r) /\ UNCHANGED <<session, family, issued>>
  <2>1. at[r] = "rotating" /\ kind[r] = "refresh" /\ refresh[r] # 0
    BY <1>1, <1>2, <1>15 DEF Rotate
  <2>2. MoveOn(r, "revoke") \/ Reply(r, "503")
    <3>1. Unused # {} => ~(session' = [session EXCEPT ![Fresh] = "pending"])
      BY <1>15, FreshIsUnused DEF Inv, Types
    <3> QED
      BY <1>15, <3>1 DEF Rotate
  <2>3. MoveOn(r, "revoke") => Serves(r, "revoke", "none")
    BY <1>5, <2>1
  <2>4. Reply(r, "503") => Serves(r, "replied", "503")
    BY <1>12, <2>1
  <2> QED
    BY <1>3, <2>1, <2>2, <2>3, <2>4
<1> QED
  BY <1>6, <1>7, <1>8, <1>9, <1>10, <1>11, <1>13, <1>14, <1>15 DEF Moves

(* What handlers that leave the rows alone do to Redis and to snapshots.   *)
LEMMA MovesEffects ==
  ASSUME Inv, Ground, NEW r \in Requesters, Moves(r)
  PROVE  /\ \/ UNCHANGED jtis
            \/ /\ kind[r] = "logout" /\ at[r] = "received"
               /\ jtis' = jtis \cup ({access[r]} \ ({0} \cup expired))
         /\ \/ UNCHANGED families
            \/ at[r] = "blacklist" /\ families' = families \cup Doomed(r)
         /\ \A q \in Requesters \ {r} : snapshot'[q] = snapshot[q]
         /\ at'[r] # "blacklist"
         /\ at'[r] # "revoking" => snapshot'[r] = {}
         /\ at'[r] = "revoking" =>
              /\ at[r] = "revoke"
              /\ snapshot'[r] =
                   {s \in Sessions : session[s] = "active"
                             /\ (kind[r] = "password" \/ family[s] \in Named(r))}
<1>1. /\ at \in [Requesters -> Steps]
      /\ snapshot \in [Requesters -> SUBSET Sessions]
      /\ at[r] \notin {"revoking", "blacklist"} => snapshot[r] = {}
  BY DEF Ground, TypeOK, ServerTypeOK, Snapshots
<1> USE DEF Reply, MoveOn
<1>2. CASE RevokeStart(r)
  BY <1>1, <1>2 DEF RevokeStart, redis
<1>3. CASE Blacklist(r)
  BY <1>1, <1>3 DEF Blacklist
<1>4. CASE Fails(r)
  BY <1>1, <1>4 DEF Fails, redis
<1>5. CASE NameAccess(r)
  BY <1>1, <1>5 DEF NameAccess
<1>6. CASE Resource(r) \/ FindToken(r) \/ NameRefresh(r)
  <2>1. UNCHANGED <<snapshot, jtis, families>>
    BY <1>6 DEF Resource, FindToken, NameRefresh, redis
  <2>2. at'[r] \in {"replied", "revoke", "rotating"}
    BY <1>1, <1>6 DEF Resource, FindToken, NameRefresh
  <2>3. at[r] \notin {"revoking", "blacklist"}
    BY <1>6 DEF Resource, FindToken, NameRefresh
  <2> QED
    BY <1>1, <2>1, <2>2, <2>3
<1>7. CASE Login(r) \/ Rotate(r)
  <2>1. UNCHANGED <<snapshot, jtis, families>>
    BY <1>7 DEF Login, Rotate, redis
  <2>2. at'[r] \in {"replied", "revoke", "updated"}
    BY <1>1, <1>7 DEF Login, Rotate
  <2>3. at[r] \notin {"revoking", "blacklist"}
    BY <1>7 DEF Login, Rotate
  <2> QED
    BY <1>1, <2>1, <2>2, <2>3
<1> QED
  BY <1>2, <1>3, <1>4, <1>5, <1>6, <1>7 DEF Moves

(* The families a request blacklists.                                      *)
LEMMA DoomedFamilies ==
  ASSUME Inv, Ground, NEW r \in Requesters, at[r] = "blacklist",
         NEW f \in Doomed(r)
  PROVE  /\ f \in Stored
         /\ \/ /\ kind[r] # "password" /\ refresh[r] \in Stored
               /\ f = family[refresh[r]]
            \/ /\ r = Device
               /\ \E s \in snapshot[r] :
                    f = family[s] /\ s \in Stored /\ session[s] = "revoked"
<1>1. CASE kind[r] = "password"
  <2>1. PICK s \in snapshot[r] : f = family[s]
    BY <1>1 DEF Doomed
  <2>2. s \in Sessions /\ session[s] = "revoked"
    BY <2>1 DEF Ground, TypeOK, ServerTypeOK, Snapshots
  <2>3. r = Device
    BY <1>1, Stands DEF Routed
  <2>4. family[s] \in Stored
    BY <2>2 DEF Inv, Families, Stored
  <2> QED
    BY <2>1, <2>2, <2>3, <2>4 DEF Stored
<1>2. CASE kind[r] # "password"
  <2>1. refresh[r] # 0 /\ f = family[refresh[r]]
    BY <1>2 DEF Doomed, Named
  <2>2. refresh[r] \in Stored
    BY <2>1 DEF Ground, Held
  <2>3. family[refresh[r]] \in Stored
    BY <2>2 DEF Inv, Families, Stored
  <2> QED
    BY <1>2, <2>1, <2>2, <2>3
<1> QED
  BY <1>1, <1>2

(* The token of a login on its way is in no other family.                  *)
LEMMA AloneInFamily ==
  ASSUME Ground, NEW r \in Requesters, issued[r] # 0, kind[r] = "login",
         NEW s \in Stored, family[s] = issued[r]
  PROVE  s = issued[r]
BY DEF Ground, Issued, Stored

LEMMA MovesKeeps ==
  ASSUME Inv, Ground, NEW r \in Requesters, Moves(r), Still
  PROVE  /\ ServerTypeOK'
         /\ Routes' /\ Replies' /\ Held' /\ Refusals' /\ Issued' /\ Snapshots'
         /\ Turned'
<1>1. /\ UNCHANGED <<rows, clocks, issued>>
      /\ \E step, status :
           /\ Serves(r, step, status)
           /\ kind[r] = "resource" /\ status = "401" /\ access[r] # 0 =>
                access[r] \in expired \cup jtis \/ family[access[r]] \in families
  BY MovesServes
<1>2. PICK step, status :
        /\ Serves(r, step, status)
        /\ kind[r] = "resource" /\ status = "401" /\ access[r] # 0 =>
             access[r] \in expired \cup jtis \/ family[access[r]] \in families
  BY <1>1
<1>3. UNCHANGED <<session, family, replacedBy, expired, lapsed, issued>>
  BY <1>1 DEF rows, clocks
<1>4. Stored' = Stored
  BY <1>3 DEF Stored
<1>5. /\ \/ UNCHANGED jtis
         \/ /\ kind[r] = "logout" /\ at[r] = "received"
            /\ jtis' = jtis \cup ({access[r]} \ ({0} \cup expired))
      /\ \/ UNCHANGED families
         \/ at[r] = "blacklist" /\ families' = families \cup Doomed(r)
      /\ \A q \in Requesters \ {r} : snapshot'[q] = snapshot[q]
      /\ at'[r] # "blacklist"
      /\ at'[r] # "revoking" => snapshot'[r] = {}
      /\ at'[r] = "revoking" =>
           /\ at[r] = "revoke"
           /\ snapshot'[r] =
                {s \in Sessions : session[s] = "active"
                          /\ (kind[r] = "password" \/ family[s] \in Named(r))}
  BY MovesEffects
<1>6. at[r] = "blacklist" => Doomed(r) \subseteq Stored
  BY DoomedFamilies
<1>7. jtis' \subseteq Stored /\ families' \subseteq Stored
  BY <1>5, <1>6 DEF Ground, Held
<1>8. Grows
  BY <1>3, <1>4, <1>5, <1>7 DEF Grows, Ground, Held
<1>9. Device \in Requesters /\ (r = Device => issued'[Device] = 0)
  BY <1>3 DEF Ground, Routes, Requesters
<1>10. Routes' /\ Replies' /\ Held' /\ Refusals' /\ Turned'
  BY <1>2, <1>8, <1>9, ServesKeeps
<1>11. /\ \A q \in Requesters :
            /\ at'[q] = IF q = r THEN step ELSE at[q]
            /\ reply'[q] = IF q = r THEN status ELSE reply[q]
       /\ UNCHANGED <<kind, access, refresh, jar, tab, turns>>
  BY <1>2, ServesPointwise
<1>12. Issued'
  <2>1. ASSUME NEW q \in Requesters, issued[q] # 0
        PROVE  Secret(issued[q])'
    BY <1>3, <1>5, <1>11, <2>1 DEF Ground, Issued, Secret
  <2>2. ASSUME NEW q \in Requesters, issued[q] # 0, kind[q] = "login",
               issued[q] \in families'
        PROVE  session[issued[q]] = "revoked"
    <3>1. CASE issued[q] \in families
      BY <2>2, <3>1 DEF Ground, Issued
    <3>2. CASE issued[q] \notin families
      <4>1. at[r] = "blacklist" /\ issued[q] \in Doomed(r)
        BY <1>5, <2>2, <3>2
      <4>2. \/ refresh[r] \in Stored /\ issued[q] = family[refresh[r]]
            \/ \E s \in snapshot[r] : /\ issued[q] = family[s] /\ s \in Stored
                                      /\ session[s] = "revoked"
        BY <4>1, DoomedFamilies
      <4>3. refresh[r] # issued[q]
        BY <2>2 DEF Ground, Issued, Secret
      <4> QED
        BY <2>2, <4>2, <4>3, AloneInFamily
    <3> QED
      BY <3>1, <3>2
  <2>3. ASSUME issued[r] # 0
        PROVE  /\ kind[r] = "refresh" /\ at[r] = "updated" => FALSE
               /\ at[r] = "replied" => FALSE
    BY <1>2 DEF Moves, Resource, FindToken, NameAccess, NameRefresh, RevokeStart,
       Blacklist, Fails, Login, Rotate
  <2>4. issued[r] = 0
    BY <2>3 DEF Ground, Issued
  <2>5. \A q \in Requesters : issued'[q] # 0 =>
          q # r /\ issued[q] = issued'[q] /\ at'[q] = at[q] /\ kind'[q] = kind[q]
    BY <1>3, <1>11, <2>4
  <2> QED
    BY <1>3, <1>4, <1>11, <2>1, <2>2, <2>5 DEF Ground, Issued
<1>13. Snapshots'
  <2>1. \A q \in Requesters : Named(q)' = Named(q)
    BY <1>3, <1>11 DEF Named
  <2>2. r # Device => kind[r] # "password"
    BY Stands DEF Routed
  <2> QED
    BY <1>3, <1>5, <1>11, <2>1, <2>2 DEF Ground, Snapshots
<1>14. ServerTypeOK'
  <2>1. at' \in [Requesters -> Steps] /\ reply' \in [Requesters -> Statuses]
    BY <1>2 DEF Serves, Ground, TypeOK, ServerTypeOK
  <2>2. jtis' \in SUBSET Sessions /\ families' \in SUBSET Sessions
    BY <1>7 DEF Stored
  <2>3. snapshot' \in [Requesters -> SUBSET Sessions]
    <3>1. \/ UNCHANGED snapshot
          \/ \E seen \in SUBSET Sessions : snapshot' = [snapshot EXCEPT ![r] = seen]
      BY DEF Moves, Resource, FindToken, NameAccess, NameRefresh, RevokeStart,
         Blacklist, Fails, Login, Rotate
    <3> QED
      BY <3>1 DEF Ground, TypeOK, ServerTypeOK
  <2> QED
    BY <1>3, <1>11, <2>1, <2>2, <2>3 DEF Ground, TypeOK, ServerTypeOK
<1> QED
  BY <1>10, <1>12, <1>13, <1>14

-----------------------------------------------------------------------------
(* The steps that write rows.                                              *)

RestKept ==
  /\ ServerTypeOK'
  /\ Routes' /\ Replies' /\ Held' /\ Refusals' /\ Issued' /\ Snapshots'
  /\ Turned'

(* A new row, in its own family or in that of the token it replaces.       *)
Creates(r, new, state, home) ==
  /\ new \in Sessions /\ session[new] = "unused"
  /\ session' = [session EXCEPT ![new] = state]
  /\ family' = [family EXCEPT ![new] = home]
  /\ issued' = [issued EXCEPT ![r] = new]
  /\ \/ /\ at[r] = "received" /\ kind[r] = "login"
        /\ state = "active" /\ home = new
        /\ at' = [at EXCEPT ![r] = "replied"]
        /\ reply' = [reply EXCEPT ![r] = "200"]
     \/ /\ at[r] = "rotating" /\ kind[r] = "refresh"
        /\ refresh[r] \in Stored /\ session[refresh[r]] = "active"
        /\ state = "pending" /\ home = family[refresh[r]]
        /\ at' = [at EXCEPT ![r] = "updated"]
        /\ reply' = [reply EXCEPT ![r] = "none"]
  /\ UNCHANGED <<replacedBy, clocks, redis, cookies, snapshot>>
  /\ Still

LEMMA LoginRotateCreates ==
  ASSUME Inv, Ground, NEW r \in Requesters, Login(r) \/ Rotate(r), Still,
         ~UNCHANGED <<session, family, issued>>
  PROVE  \E state, home : Creates(r, Fresh, state, home)
<1>1. CASE Login(r)
  <2>1. Creates(r, Fresh, "active", Fresh)
    BY <1>1, FreshIsUnused DEF Login, Reply, Creates
  <2> QED
    BY <2>1
<1>2. CASE Rotate(r)
  <2>1. /\ at[r] = "rotating" /\ kind[r] = "refresh"
        /\ refresh[r] \in Sessions
    BY <1>2, Stands DEF Rotate, Inv, Rotations
  <2>2. /\ session[refresh[r]] = "active" /\ refresh[r] \in Stored
    BY <1>2, <2>1 DEF Rotate, Stored
  <2>3. reply' = [reply EXCEPT ![r] = "none"]
    <3>1. UNCHANGED reply
      BY <1>2 DEF Rotate, MoveOn
    <3> QED
      BY <2>1, <3>1 DEF Ground, Replies, TypeOK, ServerTypeOK
  <2>4. Creates(r, Fresh, "pending", family[refresh[r]])
    BY <1>2, <2>1, <2>2, <2>3, FreshIsUnused DEF Rotate, MoveOn, Creates
  <2> QED
    BY <2>4
<1> QED
  BY <1>1, <1>2

LEMMA CreatesPointwise ==
  ASSUME Inv, Ground, NEW r \in Requesters, NEW new, NEW state, NEW home,
         Creates(r, new, state, home)
  PROVE  /\ \A s \in Sessions :
              /\ session'[s] = IF s = new THEN state ELSE session[s]
              /\ family'[s] = IF s = new THEN home ELSE family[s]
         /\ \A q \in Requesters : issued'[q] = IF q = r THEN new ELSE issued[q]
         /\ Stored' = Stored \cup (IF state = "active" THEN {new} ELSE {})
         /\ new \notin Stored
         /\ \A q \in Requesters : issued[q] # new /\ access[q] # new /\ refresh[q] # new
         /\ jar # new /\ new \notin lapsed \cup jtis \cup families
<1>1. /\ \A s \in Sessions :
           /\ session'[s] = IF s = new THEN state ELSE session[s]
           /\ family'[s] = IF s = new THEN home ELSE family[s]
      /\ \A q \in Requesters : issued'[q] = IF q = r THEN new ELSE issued[q]
  BY DEF Ground, TypeOK, ServerTypeOK, Creates
<1>2. new \in Sessions /\ session[new] = "unused" /\ new \notin Stored
      /\ state \in {"active", "pending"}
  BY DEF Creates, Stored
<1>3. Stored' = Stored \cup (IF state = "active" THEN {new} ELSE {})
  BY <1>1, <1>2 DEF Stored
<1>4. \A q \in Requesters : issued[q] # new
  <2>1. ASSUME NEW q \in Requesters, issued[q] = new PROVE FALSE
    <3>1. new # 0
      BY <1>2 DEF Sessions
    <3>2. at[q] = "updated" \/ (at[q] = "replied" /\ new \in Stored)
      BY <2>1, <3>1 DEF Ground, Issued
    <3> QED
      BY <1>2, <2>1, <3>2 DEF Inv, Rotations
  <2> QED
    BY <2>1
<1>5. new # 0
  BY <1>2 DEF Sessions
<1> QED
  BY <1>1, <1>2, <1>3, <1>4, <1>5 DEF Ground, Held

LEMMA CreatesKeeps ==
  ASSUME Inv, Ground, NEW r \in Requesters, NEW new, NEW state, NEW home,
         Creates(r, new, state, home)
  PROVE  RestKept
<1>1. /\ \A s \in Sessions :
           /\ session'[s] = IF s = new THEN state ELSE session[s]
           /\ family'[s] = IF s = new THEN home ELSE family[s]
      /\ \A q \in Requesters : issued'[q] = IF q = r THEN new ELSE issued[q]
      /\ Stored' = Stored \cup (IF state = "active" THEN {new} ELSE {})
      /\ new \notin Stored
      /\ \A q \in Requesters : issued[q] # new /\ access[q] # new /\ refresh[q] # new
      /\ jar # new /\ new \notin lapsed \cup jtis \cup families
  BY CreatesPointwise
<1>2. UNCHANGED <<replacedBy, expired, lapsed, jtis, families, kind, access,
                  refresh, snapshot, jar, tab, turns>>
  BY DEF Creates, clocks, redis, cookies, Still
<1>3. new \in Sessions /\ session[new] = "unused" /\ new # 0 /\ r # Device
  BY Stands DEF Creates, Sessions
<1>4. \A s \in Stored : s \in Sessions /\ s # new
  BY <1>1 DEF Stored
<1>5. Grows
  BY <1>1, <1>2, <1>4 DEF Grows, Ground, Held
<1>6. PICK step, status :
        /\ Serves(r, step, status)
        /\ status # "401"
        /\ step = "replied" => kind[r] = "login" /\ status = "200"
        /\ step = "updated" => kind[r] = "refresh"
        /\ step \in {"replied", "updated"}
  <2>1. kind[r] = "refresh" => refresh[r] # 0
    BY DEF Creates, Stored, Sessions
  <2>2. at[r] = "received" /\ kind[r] = "login" =>
          Serves(r, "replied", "200")
    BY <1>1, <1>2, <1>3 DEF Creates, Serves, Stages, Steps, Statuses
  <2>3. at[r] = "rotating" /\ kind[r] = "refresh" =>
          Serves(r, "updated", "none")
    BY <1>1, <1>2, <2>1 DEF Creates, Serves, Stages, Steps, Statuses
  <2> QED
    BY <2>2, <2>3 DEF Creates
<1>7. Routes' /\ Replies' /\ Held' /\ Refusals' /\ Turned'
  BY <1>3, <1>5, <1>6, ServesKeeps
<1>8. /\ \A q \in Requesters :
            /\ at'[q] = IF q = r THEN step ELSE at[q]
            /\ reply'[q] = IF q = r THEN status ELSE reply[q]
  BY <1>6, ServesPointwise
<1>9. Issued'
  <2>1. ASSUME NEW q \in Requesters \ {r}, issued[q] # 0
        PROVE  /\ Secret(issued[q])'
               /\ at'[q] = "replied" => issued[q] \in Stored'
               /\ \A p \in Requesters \ {q} : issued'[p] # issued[q]
    BY <1>1, <1>2, <1>8, <2>1 DEF Ground, Issued, Secret
  <2>2. ASSUME NEW q \in Requesters \ {r}, issued[q] # 0, kind[q] = "refresh"
        PROVE  family'[issued[q]] = family'[refresh[q]]
    <3>1. /\ refresh[q] # 0 /\ family[issued[q]] = family[refresh[q]]
          /\ issued[q] \in Sessions
      BY <2>2 DEF Ground, Issued, TypeOK, ServerTypeOK, Tokens, Sessions
    <3>2. refresh[q] \in Stored
      BY <3>1 DEF Ground, Held
    <3> QED
      BY <1>1, <1>4, <3>1, <3>2
  <2>3. ASSUME NEW q \in Requesters \ {r}, issued[q] # 0, kind[q] = "login"
        PROVE  /\ \A s \in Sessions :
                    session'[s] # "unused" /\ family'[s] = family'[issued[q]]
                      => s = issued[q]
               /\ family'[issued[q]] = issued[q]
               /\ issued[q] \in families => session'[issued[q]] = "revoked"
    <3>1. /\ issued[q] \in Stored /\ family[issued[q]] = issued[q]
          /\ \A s \in Sessions :
                    session[s] # "unused" /\ family[s] = family[issued[q]]
                      => s = issued[q]
          /\ issued[q] \in families => session[issued[q]] = "revoked"
      BY <2>3 DEF Ground, Issued
    <3>2. home # issued[q]
      <4>1. CASE home = new
        BY <1>1, <4>1
      <4>2. CASE home # new
        <5>1. refresh[r] \in Stored /\ home = family[refresh[r]]
          BY <4>2 DEF Creates
        <5>2. refresh[r] # issued[q]
          BY <2>3 DEF Ground, Issued, Secret
        <5> QED
          BY <2>3, <5>1, <5>2, AloneInFamily
      <4> QED
        BY <4>1, <4>2
    <3> QED
      BY <1>1, <1>4, <3>1, <3>2
  <2>4. Secret(new)'
    BY <1>1, <1>2 DEF Secret
  <2>5. kind[r] = "login" =>
          /\ \A s \in Sessions : session'[s] # "unused" /\ family'[s] = family'[new]
               => s = new
          /\ family'[new] = new
    <3>1. \A s \in Sessions : session[s] # "unused" => family[s] # new
      BY <1>3 DEF Inv, Families
    <3> QED
      BY <1>1, <1>3, <3>1 DEF Creates
  <2>6. kind[r] = "refresh" => refresh[r] # 0 /\ family'[new] = family'[refresh[r]]
    BY <1>1, <1>3, <1>4 DEF Creates, Sessions
  <2>7. step = "replied" => state = "active" /\ new \in Stored'
    BY <1>1, <1>6 DEF Creates
  <2>8. kind[r] \in {"refresh", "login"}
        /\ (kind[r] = "refresh" => step = "updated")
        /\ (kind[r] = "login" => step = "replied")
    BY <1>6
  <2> QED
    BY <1>1, <1>2, <1>3, <1>8, <2>1, <2>2, <2>3, <2>4, <2>5, <2>6, <2>7, <2>8
    DEF Ground, Issued
<1>10. Snapshots'
  <2>1. \A q \in Requesters : Named(q)' = Named(q)
    BY <1>1, <1>2, <1>4 DEF Named, Ground, Held
  <2>2. \A q \in Requesters : \A s \in snapshot[q] : s \in Sessions /\ s # new
    BY <1>3 DEF Inv, Revocations, Types
  <2> QED
    BY <1>1, <1>2, <1>6, <1>8, <2>1, <2>2 DEF Ground, Snapshots, Creates
<1>11. ServerTypeOK'
  <2>1. at' \in [Requesters -> Steps] /\ reply' \in [Requesters -> Statuses]
    BY <1>6 DEF Serves, Ground, TypeOK, ServerTypeOK
  <2>2. new \in Tokens /\ home \in Tokens
        /\ state \in {"unused", "pending", "active", "revoked"}
    <3>1. new \in Tokens
      BY <1>3 DEF Sessions, Tokens
    <3> QED
      BY <1>4, <3>1 DEF Creates, Ground, TypeOK, ServerTypeOK
  <2>3. /\ session' \in [Sessions -> {"unused", "pending", "active", "revoked"}]
        /\ family' \in [Sessions -> Tokens]
        /\ issued' \in [Requesters -> Tokens]
    BY <2>2 DEF Creates, Ground, TypeOK, ServerTypeOK
  <2> QED
    BY <1>2, <2>1, <2>3 DEF Ground, TypeOK, ServerTypeOK
<1> QED
  BY <1>7, <1>9, <1>10, <1>11 DEF RestKept

Commits(r, status) ==
  /\ at[r] = "updated" /\ kind[r] = "refresh"
  /\ refresh[r] \in Stored /\ session[refresh[r]] = "active"
  /\ issued[r] \in Sessions /\ session[issued[r]] = "pending"
  /\ \A s \in Sessions :
       session'[s] = IF s = refresh[r] THEN "revoked"
                     ELSE IF s = issued[r] THEN "active" ELSE session[s]
  /\ at' = [at EXCEPT ![r] = "replied"]
  /\ reply' = [reply EXCEPT ![r] = status]
  /\ Stored' = Stored \cup {issued[r]}
  /\ r # Device
  /\ UNCHANGED <<family, clocks, redis, cookies, issued, snapshot>>

LEMMA CommitCommits ==
  ASSUME Inv, Ground, NEW r \in Requesters, Commit(r) \/ CommitLost(r), Still
  PROVE  \E status \in {"200", "503"} :
           Commits(r, status) /\ (CommitLost(r) \/ status = "200")
<1>1. PICK status \in {"200", "503"} :
        Committed(r) /\ Reply(r, status) /\ (CommitLost(r) \/ status = "200")
  BY DEF Commit, CommitLost
<1>2. /\ at[r] = "updated" /\ kind[r] = "refresh" /\ r # Device
      /\ refresh[r] \in Sessions /\ session[refresh[r]] = "active"
      /\ issued[r] \in Sessions /\ session[issued[r]] = "pending"
  BY <1>1, Stands DEF Committed, Inv, Rotations
<1>3. \A s \in Sessions :
        session'[s] = IF s = refresh[r] THEN "revoked"
                      ELSE IF s = issued[r] THEN "active" ELSE session[s]
  BY <1>1, <1>2 DEF Committed, Ground, TypeOK, ServerTypeOK
<1>4. Stored' = Stored \cup {issued[r]}
  BY <1>2, <1>3 DEF Stored
<1>5. Commits(r, status)
  BY <1>1, <1>2, <1>3, <1>4 DEF Commits, Committed, Reply, Stored
<1> QED
  BY <1>1, <1>5

LEMMA CommitsKeeps ==
  ASSUME Inv, Ground, NEW r \in Requesters, NEW status \in {"200", "503"},
         Commits(r, status), Types', replacedBy' \in [Sessions -> Tokens], Still
  PROVE  RestKept
<1>1. /\ at[r] = "updated" /\ kind[r] = "refresh" /\ r # Device
      /\ refresh[r] \in Stored /\ refresh[r] # 0
      /\ issued[r] \in Sessions /\ issued[r] # 0
      /\ \A s \in Sessions :
           session'[s] = IF s = refresh[r] THEN "revoked"
                         ELSE IF s = issued[r] THEN "active" ELSE session[s]
      /\ Stored' = Stored \cup {issued[r]}
      /\ UNCHANGED <<family, expired, lapsed, jtis, families, kind, access,
                     refresh, issued, snapshot, jar, tab, turns>>
  BY DEF Commits, Stored, Sessions, clocks, redis, cookies, Still
<1>2. Grows
  BY <1>1 DEF Grows, Ground, Held
<1>3. Serves(r, "replied", status)
  BY <1>1 DEF Commits, Serves, Stages, Steps, Statuses
<1>4. Routes' /\ Replies' /\ Held' /\ Refusals' /\ Turned'
  BY <1>1, <1>2, <1>3, ServesKeeps
<1>5. /\ \A q \in Requesters :
            /\ at'[q] = IF q = r THEN "replied" ELSE at[q]
            /\ reply'[q] = IF q = r THEN status ELSE reply[q]
  BY <1>3, ServesPointwise
<1>6. Issued'
  <2>1. \A q \in Requesters : issued[q] # 0 => Secret(issued[q])'
    BY <1>1 DEF Ground, Issued, Secret
  <2>2. \A q \in Requesters \ {r} : issued[q] # 0 =>
          /\ issued[q] # issued[r] /\ issued[q] # refresh[r]
          /\ issued[q] \in Sessions
    BY <1>1, IssuedAlone, IssuedType
  <2>3. ASSUME NEW q \in Requesters, issued[q] # 0, kind[q] = "login"
        PROVE  /\ \A s \in Sessions :
                    session'[s] # "unused" /\ family[s] = family[issued[q]]
                      => s = issued[q]
               /\ issued[q] \in families => session'[issued[q]] = "revoked"
    <3>1. \A s \in Sessions : session'[s] # "unused" => session[s] # "unused"
      BY <1>1 DEF Commits, Stored
    <3> QED
      BY <1>1, <2>2, <2>3, <3>1 DEF Ground, Issued
  <2> QED
    BY <1>1, <1>5, <2>1, <2>3 DEF Ground, Issued
<1>7. Snapshots'
  <2>1. \A q \in Requesters : Named(q)' = Named(q)
    BY <1>1 DEF Named
  <2>2. \A s \in Sessions : session[s] = "revoked" => session'[s] = "revoked"
    BY <1>1 DEF Commits
  <2> QED
    BY <1>1, <1>5, <2>1, <2>2 DEF Ground, Snapshots, TypeOK, ServerTypeOK
<1>8. ServerTypeOK'
  <2>1. at' \in [Requesters -> Steps] /\ reply' \in [Requesters -> Statuses]
    BY <1>3 DEF Serves, Ground, TypeOK, ServerTypeOK
  <2> QED
    BY <1>1, <2>1 DEF Types, Ground, TypeOK, ServerTypeOK
<1> QED
  BY <1>4, <1>6, <1>7, <1>8 DEF RestKept

LEMMA RollbackRest ==
  ASSUME Inv, Ground, NEW r \in Requesters, Rollback(r), Types', Still
  PROVE  RestKept
<1> DEFINE new == issued[r]
<1>1. /\ at[r] = "updated" /\ kind[r] = "refresh" /\ r # Device
      /\ new \in Sessions /\ session[new] = "pending"
  BY Stands DEF Rollback, Inv, Rotations
<1>2. /\ \A s \in Sessions :
           /\ session'[s] = IF s = new THEN "unused" ELSE session[s]
           /\ family'[s] = IF s = new THEN 0 ELSE family[s]
      /\ \A q \in Requesters : issued'[q] = IF q = r THEN 0 ELSE issued[q]
      /\ UNCHANGED <<replacedBy, expired, lapsed, jtis, families, kind, access,
                     refresh, snapshot, jar, tab, turns>>
  BY DEF Rollback, Ground, TypeOK, ServerTypeOK, clocks, redis, cookies, Still
<1>3. \A s \in Stored : s \in Sessions /\ s # new
  BY <1>1 DEF Stored
<1>4. Stored' = Stored
  BY <1>1, <1>2 DEF Stored
<1>5. Grows
  BY <1>2, <1>3, <1>4 DEF Grows, Ground, Held
<1>6. Serves(r, "replied", "503")
  BY <1>1, <1>2 DEF Rollback, Reply, Serves, Stages, Steps, Statuses
<1>7. Routes' /\ Replies' /\ Held' /\ Refusals' /\ Turned'
  BY <1>1, <1>5, <1>6, ServesKeeps
<1>8. \A q \in Requesters : at'[q] = IF q = r THEN "replied" ELSE at[q]
  BY <1>6, ServesPointwise
<1>9. Issued'
  <2>1. ASSUME NEW q \in Requesters \ {r}, issued[q] # 0
        PROVE  /\ Secret(issued[q])' /\ issued[q] # new
               /\ issued[q] \in Sessions
    <3>1. Secret(issued[q]) /\ issued[q] # new /\ issued[q] \in Sessions
      BY <2>1, IssuedAlone, IssuedType
    <3> QED
      BY <1>2, <3>1 DEF Secret
  <2>2. ASSUME NEW q \in Requesters \ {r}, issued[q] # 0, kind[q] = "refresh"
        PROVE  family'[issued[q]] = family'[refresh[q]]
    <3>1. refresh[q] \in Stored
      BY <2>2 DEF Ground, Issued, Held
    <3> QED
      BY <1>2, <1>3, <2>1, <2>2, <3>1 DEF Ground, Issued
  <2>3. ASSUME NEW q \in Requesters \ {r}, issued[q] # 0, kind[q] = "login"
        PROVE  /\ \A s \in Sessions :
                    session'[s] # "unused" /\ family'[s] = family'[issued[q]]
                      => s = issued[q]
               /\ family'[issued[q]] = issued[q]
               /\ issued[q] \in families => session'[issued[q]] = "revoked"
    <3>1. /\ \A s \in Sessions :
                    session[s] # "unused" /\ family[s] = family[issued[q]]
                      => s = issued[q]
          /\ family[issued[q]] = issued[q]
          /\ issued[q] \in families => session[issued[q]] = "revoked"
      BY <2>3 DEF Ground, Issued
    <3> QED
      BY <1>2, <2>1, <2>3, <3>1
  <2> QED
    BY <1>2, <1>4, <1>8, <2>1, <2>2, <2>3 DEF Ground, Issued
<1>10. Snapshots'
  <2>1. \A q \in Requesters : Named(q)' = Named(q)
    BY <1>2, <1>3 DEF Named, Ground, Held
  <2>2. \A q \in Requesters : \A s \in snapshot[q] : s \in Sessions /\ s # new
    BY <1>1 DEF Inv, Revocations, Types
  <2> QED
    BY <1>1, <1>2, <1>8, <2>1, <2>2 DEF Ground, Snapshots
<1>11. ServerTypeOK'
  <2>1. at' \in [Requesters -> Steps] /\ reply' \in [Requesters -> Statuses]
    BY <1>6 DEF Serves, Ground, TypeOK, ServerTypeOK
  <2> QED
    BY <1>2, <2>1 DEF Types, Ground, TypeOK, ServerTypeOK
<1> QED
  BY <1>7, <1>9, <1>10, <1>11 DEF RestKept

LEMMA RevokeEndRest ==
  ASSUME Inv, Ground, NEW r \in Requesters, RevokeEnd(r), Types', Still
  PROVE  RestKept
<1>1. /\ at[r] = "revoking"
      /\ kind[r] \in {"refresh", "logout", "password"}
      /\ snapshot[r] \subseteq Stored
  BY Stands DEF RevokeEnd, Inv, Revocations, Types, Stored
<1>2. /\ \A s \in Sessions :
           session'[s] = IF s \in snapshot[r] THEN "revoked" ELSE session[s]
      /\ \A q \in Requesters :
           snapshot'[q] = IF q = r THEN {s \in snapshot[r] : session[s] = "active"}
                                   ELSE snapshot[q]
      /\ UNCHANGED <<family, replacedBy, expired, lapsed, jtis, families, kind,
                     access, refresh, issued, jar, tab, turns>>
  BY DEF RevokeEnd, Ground, TypeOK, ServerTypeOK, clocks, redis, cookies, Still
<1>3. Stored' = Stored
  BY <1>1, <1>2 DEF Stored
<1>4. Grows
  BY <1>2, <1>3 DEF Grows, Ground, Held
<1>5. Serves(r, "blacklist", "none")
  <2>1. reply' = [reply EXCEPT ![r] = "none"]
    BY <1>1 DEF RevokeEnd, MoveOn, Ground, Replies, TypeOK, ServerTypeOK
  <2>2. kind[r] = "refresh" => refresh[r] # 0
    BY <1>1 DEF Ground, Replies
  <2> QED
    BY <1>1, <1>2, <2>1, <2>2 DEF RevokeEnd, MoveOn, Serves, Stages, Steps, Statuses
<1>6. Routes' /\ Replies' /\ Held' /\ Refusals' /\ Turned'
  <2>1. r = Device => issued'[Device] = 0
    BY <1>2 DEF Ground, Routes
  <2> QED
    BY <1>1, <1>4, <1>5, <2>1, ServesKeeps
<1>7. \A q \in Requesters : at'[q] = IF q = r THEN "blacklist" ELSE at[q]
  BY <1>5, ServesPointwise
<1>8. Issued'
  <2>1. \A q \in Requesters : issued[q] # 0 => Secret(issued[q])' /\ q # r
    BY <1>1, <1>2 DEF Ground, Issued, Secret
  <2>2. \A s \in Sessions :
          /\ session'[s] # "unused" => session[s] # "unused"
          /\ session[s] = "revoked" => session'[s] = "revoked"
    BY <1>1, <1>2 DEF Stored
  <2>3. \A q \in Requesters : issued[q] \in Tokens
    BY DEF Ground, TypeOK, ServerTypeOK
  <2> QED
    BY <1>2, <1>3, <1>7, <2>1, <2>2, <2>3 DEF Ground, Issued, Tokens, Sessions
<1>9. Snapshots'
  <2>1. \A q \in Requesters : Named(q)' = Named(q)
    BY <1>2 DEF Named
  <2>2. \A s \in Sessions : session[s] = "revoked" => session'[s] = "revoked"
    BY <1>2
  <2>3. \A q \in Requesters : snapshot[q] \subseteq Sessions
    BY DEF Ground, TypeOK, ServerTypeOK
  <2>4. ASSUME NEW q \in Requesters
        PROVE  /\ at'[q] \notin {"revoking", "blacklist"} => snapshot'[q] = {}
               /\ q # Device => \A s \in snapshot'[q] : family[s] \in Named(q)
    BY <1>1, <1>2, <1>7 DEF Ground, Snapshots
  <2>5. ASSUME NEW q \in Requesters, at'[q] = "blacklist", NEW s \in snapshot'[q]
        PROVE  session'[s] = "revoked"
    BY <1>2, <1>7, <2>2, <2>3, <2>5 DEF Ground, Snapshots
  <2> QED
    BY <1>2, <2>1, <2>4, <2>5 DEF Snapshots
<1>10. ServerTypeOK'
  <2>1. at' \in [Requesters -> Steps] /\ reply' \in [Requesters -> Statuses]
    BY <1>5 DEF Serves, Ground, TypeOK, ServerTypeOK
  <2> QED
    BY <1>2, <2>1 DEF Types, Ground, TypeOK, ServerTypeOK
<1> QED
  BY <1>6, <1>8, <1>9, <1>10 DEF RestKept

LEMMA ChangePasswordRest ==
  ASSUME Inv, Ground, ChangePassword, Still PROVE RestKept
<1>1. Device \in Requesters /\ Device \notin Tabs /\ \A t \in Tabs : t \in Requesters
  BY DEF Requesters
<1>2. /\ \A q \in Requesters :
           /\ kind'[q] = IF q = Device THEN "password" ELSE kind[q]
           /\ at'[q] = IF q = Device THEN "revoke" ELSE at[q]
      /\ at[Device] = "idle"
      /\ UNCHANGED <<session, family, replacedBy, expired, lapsed, jtis, families,
                     access, refresh, issued, snapshot, reply, jar, tab, turns>>
  BY DEF ChangePassword, MoveOn, Ground, TypeOK, ServerTypeOK, rows, clocks, redis,
     Still
<1>3. Stored' = Stored
  BY <1>2 DEF Stored
<1>4. refresh[Device] = 0 /\ issued[Device] = 0 /\ reply[Device] = "none"
  BY <1>1, <1>2 DEF Ground, Routes, Replies
<1>5. Routes'
  BY <1>1, <1>2 DEF Ground, Routes, Stages
<1>6. Replies'
  BY <1>1, <1>2, <1>4 DEF Ground, Replies
<1>7. Held'
  BY <1>2, <1>3, <1>4 DEF Ground, Held
<1>8. Refusals'
  BY <1>2 DEF Ground, Refusals
<1>9. Issued'
  <2>1. \A q \in Requesters : issued[q] # 0 => Secret(issued[q])' /\ q # Device
    BY <1>2, <1>4 DEF Ground, Issued, Secret
  <2> QED
    BY <1>2, <1>3, <2>1 DEF Ground, Issued
<1>10. Snapshots'
  <2>1. \A q \in Requesters : Named(q)' = Named(q)
    BY <1>2 DEF Named
  <2> QED
    BY <1>1, <1>2, <2>1 DEF Ground, Snapshots
<1>11. Turned'
  BY <1>2, Zenon DEF Ground, Turned, HasTurn
<1>12. ServerTypeOK'
  <2>1. kind' \in [Requesters -> Kinds] /\ at' \in [Requesters -> Steps]
    BY DEF ChangePassword, MoveOn, Ground, TypeOK, ServerTypeOK, Kinds, Steps
  <2> QED
    BY <1>2, <2>1 DEF Ground, TypeOK, ServerTypeOK
<1> QED
  BY <1>5, <1>6, <1>7, <1>8, <1>9, <1>10, <1>11, <1>12 DEF RestKept

LEMMA TimeRest ==
  ASSUME Inv, Ground, NEW s \in Sessions,
         Expire(s) \/ (Lapse(s) /\ s = jar), Still
  PROVE  RestKept
<1>1. /\ UNCHANGED <<session, family, replacedBy, jtis, families, kind, access,
                     refresh, at, issued, snapshot, reply, jar, tab, turns>>
      /\ expired \subseteq expired' /\ expired' \in SUBSET Sessions
      /\ lapsed' = lapsed \/ lapsed' = lapsed \cup {jar}
      /\ lapsed' = lapsed \/ jar \in Sessions
  BY DEF Expire, Lapse, rows, redis, cookies, handlers, Still, Ground, TypeOK,
     ServerTypeOK
<1>2. Stored' = Stored
  BY <1>1 DEF Stored
<1>3. Routes' /\ Replies' /\ Refusals'
  BY <1>1 DEF Ground, Routes, Replies, Refusals
<1>4. Held'
  BY <1>1, <1>2 DEF Ground, Held, Sessions
<1>5. Issued'
  <2>1. \A q \in Requesters : issued[q] # 0 => Secret(issued[q])'
    BY <1>1 DEF Ground, Issued, Secret
  <2> QED
    BY <1>1, <1>2, <2>1 DEF Ground, Issued
<1>6. Snapshots'
  <2>1. \A q \in Requesters : Named(q)' = Named(q)
    BY <1>1 DEF Named
  <2> QED
    BY <1>1, <2>1 DEF Ground, Snapshots
<1>7. Turned'
  BY <1>1, Zenon DEF Ground, Turned, HasTurn
<1>8. ServerTypeOK'
  BY <1>1 DEF Ground, TypeOK, ServerTypeOK
<1> QED
  BY <1>3, <1>4, <1>5, <1>6, <1>7, <1>8 DEF RestKept

LEMMA CloseRest ==
  ASSUME Inv, Ground, NEW t \in Tabs, Close(t) PROVE RestKept
<1>1. /\ UNCHANGED <<session, family, replacedBy, expired, lapsed, jtis, families,
                     kind, access, refresh, at, issued, snapshot, reply, jar>>
      /\ tab' = [tab EXCEPT ![t] = "closed"]
  BY DEF Close, Goes, serverVars, rows, clocks, redis, cookies, handlers
<1>2. Stored' = Stored
  BY <1>1 DEF Stored
<1>3. Routes'
  <2>1. \A r \in Requesters : "closed" \in PagesOf(kind[r]) \/ r \notin Tabs
    BY DEF Ground, Routes, PagesOf
  <2>2. \A u \in Tabs : u \in Requesters /\ tab'[u] = IF u = t THEN "closed" ELSE tab[u]
    BY <1>1 DEF Requesters, Ground, TypeOK
  <2> QED
    BY <1>1, <2>1, <2>2 DEF Ground, Routes
<1>4. Replies' /\ Refusals'
  BY <1>1 DEF Ground, Replies, Refusals
<1>5. Held'
  BY <1>1, <1>2 DEF Ground, Held
<1>6. Issued'
  <2>1. \A q \in Requesters : issued[q] # 0 => Secret(issued[q])'
    BY <1>1 DEF Ground, Issued, Secret
  <2> QED
    BY <1>1, <1>2, <2>1 DEF Ground, Issued
<1>7. Snapshots'
  <2>1. \A q \in Requesters : Named(q)' = Named(q)
    BY <1>1 DEF Named
  <2> QED
    BY <1>1, <2>1 DEF Ground, Snapshots
<1>8. Turned'
  <2>1. Queues(t)
    BY TabQueues DEF Ground, TypeOK
  <2> QED
    BY <1>1, <2>1, QueuesKeepTurn
<1>9. ServerTypeOK'
  BY <1>1 DEF Ground, TypeOK, ServerTypeOK
<1> QED
  BY <1>3, <1>4, <1>5, <1>6, <1>7, <1>8, <1>9 DEF RestKept

-----------------------------------------------------------------------------
(* All steps.                                                              *)

LEMMA HistoryTypes ==
  ASSUME TypeOK, Next PROVE excuses' \in SUBSET Excuses /\ troubles' \in 0..MaxTroubles
<1> USE DEF TypeOK
<1>1. /\ UNCHANGED excuses \/ excuses' = {}
         \/ \E new \in SUBSET Excuses : excuses' = excuses \cup new
      /\ UNCHANGED troubles \/ Trouble
  <2>1. ASSUME NEW t \in Tabs, Delivers(t)
        PROVE  /\ \/ excuses' = {}
                  \/ \E new \in SUBSET Excuses : excuses' = excuses \cup new
               /\ UNCHANGED troubles
    <3>1. Arrives(t)
      BY <2>1 DEF Delivers, FirstAnswered, SecondAnswered, RefreshAnswered,
         RetryAnswered, LoginAnswered, LogoutAnswered, LateAnswer
    <3>2. {} \in SUBSET Excuses /\ {"crossed"} \in SUBSET Excuses
      BY DEF Excuses
    <3>3. excuses' = {} \/ excuses' = excuses \cup {} \/ excuses' = excuses \cup {"crossed"}
      BY <3>1 DEF Arrives, ExcusesAfter
    <3>4. UNCHANGED troubles
      BY <3>1 DEF Arrives
    <3> QED
      BY <3>2, <3>3, <3>4
  <2>2. ASSUME NEW t \in Tabs, Lose(t) \/ Close(t) \/ ServeLostCommit(t)
                                 \/ SubmitLogout(t)
        PROVE  (\E new \in SUBSET Excuses : excuses' = excuses \cup new) /\ Trouble
    <3>1. /\ {} \in SUBSET Excuses /\ {"lost"} \in SUBSET Excuses
          /\ {"abandoned"} \in SUBSET Excuses /\ {"logout"} \in SUBSET Excuses
      BY DEF Excuses
    <3>2. \/ excuses' = excuses \cup {} \/ excuses' = excuses \cup {"lost"}
          \/ excuses' = excuses \cup {"abandoned"}
          \/ excuses' = excuses \cup {"logout"}
      BY <2>2 DEF Lose, Close, ServeLostCommit, SubmitLogout
    <3>3. Trouble
      BY <2>2 DEF Lose, Close, ServeLostCommit, SubmitLogout
    <3> QED
      BY <3>1, <3>2, <3>3
  <2>3. ASSUME NEW t \in Tabs, Check(t) \/ SubmitLogin(t) \/ TakeTurn(t)
        PROVE  UNCHANGED <<excuses, troubles>>
    BY <2>3 DEF Check, SubmitLogin, TakeTurn
  <2>4. ASSUME NEW r \in Requesters,
               Serve(r) \/ ServeFailure(r) \/ ServeRevoke(r)
        PROVE  /\ \E new \in SUBSET Excuses : excuses' = excuses \cup new
               /\ UNCHANGED troubles \/ Trouble
    <3>1. {} \in SUBSET Excuses /\ {"elsewhere"} \in SUBSET Excuses
      BY DEF Excuses
    <3>2. /\ excuses' = excuses \cup {} \/ excuses' = excuses \cup {"elsewhere"}
          /\ UNCHANGED troubles \/ Trouble
      BY <2>4 DEF Serve, ServeFailure, ServeRevoke, browserVars
    <3> QED
      BY <3>1, <3>2
  <2>5. CASE ServeElsewhere
    BY <2>5 DEF ServeElsewhere
  <2>6. ASSUME NEW s \in Sessions, Later(s)
        PROVE  /\ \E new \in SUBSET Excuses : excuses' = excuses \cup new
               /\ UNCHANGED troubles \/ Trouble
    <3>1. {} \in SUBSET Excuses /\ {"lapsed"} \in SUBSET Excuses
      BY DEF Excuses
    <3>2. /\ excuses' = excuses \cup {} \/ excuses' = excuses \cup {"lapsed"}
          /\ UNCHANGED troubles \/ Trouble
      BY <2>6 DEF Later, browserVars
    <3> QED
      BY <3>1, <3>2
  <2> QED
    BY <2>1, <2>2, <2>3, <2>4, <2>5, <2>6 DEF Next
<1>2. excuses' \in SUBSET Excuses
  BY <1>1
<1>3. troubles' \in 0..MaxTroubles
  BY <1>1 DEF Trouble
<1> QED
  BY <1>2, <1>3

LEMMA GroundInit == Init => Ground
<1> SUFFICES ASSUME Init PROVE Ground
  OBVIOUS
<1> USE DEF Init, ServerInit
<1>1. TypeOK
  <2>1. <<>> \in Seq(Tabs)
    BY EmptySeq
  <2>2. turns \in Seq(Tabs)
    BY <2>1, Zenon
  <2>3. {} \in SUBSET Excuses /\ troubles \in 0..MaxTroubles
    OBVIOUS
  <2>4. /\ tab \in [Tabs -> Pages] /\ jar \in Tokens
    BY DEF Pages, Tokens
  <2>5. ServerTypeOK
    BY DEF ServerTypeOK, Tokens, Sessions, Kinds, Steps, Statuses
  <2> QED
    BY <2>2, <2>3, <2>4, <2>5 DEF TypeOK
<1>2. Routes
  BY DEF Routes, Stages, PagesOf, Requesters
<1>3. Replies /\ Refusals /\ Issued
  BY DEF Replies, Refusals, Issued
<1>4. Held
  BY DEF Held, Stored, Sessions
<1>5. Snapshots
  BY DEF Snapshots
<1>6. Turned
  <2>1. \A t \in Tabs : tab[t] \notin {"second", "refreshing"}
    OBVIOUS
  <2> QED
    BY <2>1, Zenon DEF Turned
<1> QED
  BY <1>1, <1>2, <1>3, <1>4, <1>5, <1>6 DEF Ground

LEMMA StutterRest ==
  ASSUME Ground, UNCHANGED vars PROVE Ground'
<1>1. /\ UNCHANGED <<session, family, replacedBy, expired, lapsed, jtis, families,
                     kind, access, refresh, at, issued, snapshot, reply>>
      /\ UNCHANGED <<jar, tab, turns, excuses, troubles>>
  BY DEF vars, serverVars, rows, clocks, redis, cookies, handlers, browserVars
<1>2. TypeOK'
  BY <1>1 DEF Ground, TypeOK, ServerTypeOK
<1>3. Routes' /\ Replies' /\ Held' /\ Refusals'
  BY <1>1 DEF Ground, Routes, Replies, Held, Refusals, Stored
<1>4. Issued' /\ Snapshots'
  <2>1. \A q \in Requesters : Named(q)' = Named(q)
    BY <1>1 DEF Named
  <2> QED
    BY <1>1, <2>1 DEF Ground, Issued, Snapshots, Secret, Stored
<1>5. Turned'
  BY <1>1, Zenon DEF Ground, Turned, HasTurn
<1> QED
  BY <1>2, <1>3, <1>4, <1>5 DEF Ground

(* A server's step, whatever it is.                                        *)
ServerStep ==
  \/ \E r \in Requesters :
       \/ Handles(r) \/ CommitLost(r) \/ Fails(r) \/ Rollback(r) \/ RevokeEnd(r)
  \/ ChangePassword
  \/ \E s \in Sessions : Expire(s) \/ (Lapse(s) /\ s = jar)

LEMMA ServerKeepsGround ==
  ASSUME Inv, Inv', Ground, ServerStep, Still PROVE RestKept
<1>1. Types'
  BY DEF Inv
<1>2. ASSUME NEW r \in Requesters, Moves(r) PROVE RestKept
  BY <1>2, MovesKeeps DEF RestKept
<1>3. ASSUME NEW r \in Requesters, Login(r) \/ Rotate(r),
             ~UNCHANGED <<session, family, issued>>
      PROVE  RestKept
  BY <1>3, LoginRotateCreates, CreatesKeeps
<1>4. ASSUME NEW r \in Requesters, Commit(r) \/ CommitLost(r) PROVE RestKept
  <2>1. replacedBy' \in [Sessions -> Tokens]
    <3>1. Committed(r)
      BY <1>4 DEF Commit, CommitLost
    <3> QED
      BY <3>1 DEF Committed, Ground, TypeOK, ServerTypeOK
  <2> QED
    BY <1>1, <1>4, <2>1, CommitCommits, CommitsKeeps
<1>5. ASSUME NEW r \in Requesters, Rollback(r) PROVE RestKept
  BY <1>1, <1>5, RollbackRest
<1>6. ASSUME NEW r \in Requesters, RevokeEnd(r) PROVE RestKept
  BY <1>1, <1>6, RevokeEndRest
<1>7. CASE ChangePassword
  BY <1>7, ChangePasswordRest
<1>8. ASSUME NEW s \in Sessions, Expire(s) \/ (Lapse(s) /\ s = jar)
      PROVE  RestKept
  BY <1>8, TimeRest
<1> QED
  BY <1>2, <1>3, <1>4, <1>5, <1>6, <1>7, <1>8 DEF ServerStep, Handles, Moves

(* Every step is one of these.                                             *)
LEMMA StepKinds ==
  ASSUME Next
  PROVE  \/ ServerStep /\ Still
         \/ \E t \in Tabs :
              \/ Check(t) \/ SubmitLogin(t) \/ SubmitLogout(t) \/ TakeTurn(t)
              \/ Delivers(t) \/ Lose(t)
         \/ \E t \in Tabs : Close(t)
<1>1. ASSUME NEW t \in Tabs, ServeLostCommit(t) PROVE ServerStep /\ Still
  BY <1>1 DEF ServeLostCommit, ServerStep, Still, Requesters
<1>2. ASSUME NEW r \in Requesters, Serve(r) \/ ServeFailure(r) \/ ServeRevoke(r)
      PROVE  ServerStep /\ Still
  BY <1>2 DEF Serve, ServeFailure, ServeRevoke, ServerStep, Still, browserVars
<1>3. CASE ServeElsewhere
  BY <1>3 DEF ServeElsewhere, ServerStep, Still
<1>4. ASSUME NEW s \in Sessions, Later(s) PROVE ServerStep /\ Still
  BY <1>4 DEF Later, ServerStep, Still, browserVars
<1> QED
  BY <1>1, <1>2, <1>3, <1>4 DEF Next

LEMMA GroundNext ==
  ASSUME Inv, Inv', Ground, [Next]_vars PROVE Ground'
<1>1. CASE UNCHANGED vars
  BY <1>1, StutterRest
<1>2. CASE Next
  <2>1. excuses' \in SUBSET Excuses /\ troubles' \in 0..MaxTroubles
    BY <1>2, HistoryTypes DEF Ground
  <2>2. jar' \in Tokens /\ tab' \in [Tabs -> Pages]
    BY DEF Inv, Types
  <2>3. RestKept /\ turns' \in Seq(Tabs)
    <3>1. CASE ServerStep /\ Still
      BY <3>1, ServerKeepsGround DEF Still, Ground, TypeOK
    <3>2. ASSUME NEW t \in Tabs,
                 \/ Check(t) \/ SubmitLogin(t) \/ SubmitLogout(t) \/ TakeTurn(t)
                 \/ Delivers(t) \/ Lose(t)
          PROVE  RestKept /\ turns' \in Seq(Tabs)
      <4>1. Asking(t)
        BY <3>2, TabAsks
      <4>2. Queues(t)
        BY <3>2, TabQueues DEF Ground, TypeOK
      <4>3. PICK route \in Routed, token \in Tokens : \E page \in PagesOf(route) :
              /\ Asks(t, route, token, page)
              /\ page \in {"second", "refreshing"} => HasTurn(t) /\ UNCHANGED turns
        BY <4>1 DEF Asking
      <4>4. PICK page \in PagesOf(route) :
              /\ Asks(t, route, token, page)
              /\ page \in {"second", "refreshing"} => HasTurn(t) /\ UNCHANGED turns
        BY <4>3
      <4>5. Routes' /\ Replies' /\ Held' /\ Refusals' /\ Issued' /\ Snapshots'
        BY <4>4, AsksKeeps
      <4>6. ServerTypeOK'
        BY <4>4, AsksTypes
      <4>7. Turned'
        <5>1. tab' = [tab EXCEPT ![t] = page]
          BY <4>4 DEF Asks
        <5> QED
          BY <4>2, <4>4, <5>1, QueuesKeepTurn
      <4> QED
        BY <4>2, <4>5, <4>6, <4>7 DEF RestKept, Queues
    <3>3. ASSUME NEW t \in Tabs, Close(t)
          PROVE  RestKept /\ turns' \in Seq(Tabs)
      BY <3>3, CloseRest, TabQueues DEF Ground, TypeOK, Queues
    <3> QED
      BY <1>2, <3>1, <3>2, <3>3, StepKinds
  <2> QED
    BY <2>1, <2>2, <2>3 DEF RestKept, Ground, TypeOK
<1> QED
  BY <1>1, <1>2

-----------------------------------------------------------------------------
(* While nothing has happened that may end the session, it can be renewed. *)

Mine(r) == refresh[r] # 0 /\ family[refresh[r]] = family[jar]

LEMMA MineUndisturbed ==
  ASSUME Ground, Good, NEW r \in Requesters, Mine(r)
  PROVE  r \in Tabs /\ Undisturbed(r)
BY DEF Ground, Routes, Good, Mine, Requesters

LEMMA HomeOfJar ==
  ASSUME Inv, Ground, Good
  PROVE  /\ jar \in Stored /\ jar \in Sessions /\ jar # 0
         /\ family[jar] \in Sessions /\ family[jar] # 0
<1>1. jar \in Stored
  BY DEF Good, Ground, Held
<1>2. jar \in Sessions /\ session[jar] # "unused"
  BY <1>1 DEF Stored
<1>3. family[jar] \in Sessions
  BY <1>2 DEF Inv, Families
<1> QED
  BY <1>1, <1>2, <1>3 DEF Sessions

LEMMA GoodInit == Init => Good
BY DEF Init, ServerInit, Good, Sessions, Requesters

(* A login that is answered begins a session nobody else knows of.         *)
LEMMA LoginQuiet ==
  ASSUME Ground, NEW t \in Tabs, Delivers(t), kind[t] = "login"
  PROVE  Quiet(t) /\ Arrives(t)
<1>1. tab[t] \in {"loggingIn", "closed"}
  BY DEF Ground, Routes, PagesOf
<1> QED
  BY <1>1 DEF Delivers, FirstAnswered, SecondAnswered, RefreshAnswered,
     RetryAnswered, LoginAnswered, LogoutAnswered, LateAnswer

LEMMA SignInIsGood ==
  ASSUME Inv, Ground, NEW t \in Tabs, Delivers(t), SignsIn(t)
  PROVE  Good'
<1> DEFINE new == issued[t]
<1>1. /\ Quiet(t) /\ jar' = new /\ at[t] = "replied"
      /\ UNCHANGED <<session, family, lapsed, jtis, families, snapshot>>
  BY LoginQuiet DEF SignsIn, Arrives, JarAfter, Quiet, rows, clocks, redis
<1>2. t \in Requesters /\ t # Device /\ Device \in Requesters
      /\ \A u \in Tabs : u \in Requesters
  BY DEF Requesters
<1>3. new # 0 /\ kind[t] = "login" /\ session[new] = "active" /\ new \notin lapsed
  BY <1>2 DEF Ground, Replies, SignsIn
<1>4. /\ new \in Stored /\ family[new] = new /\ Secret(new)
      /\ new \notin families
  BY <1>1, <1>2, <1>3 DEF Ground, Issued
<1>5. \A s \in Stored : family[s] = new => s = new
  BY <1>2, <1>3, AloneInFamily
<1>6. \A s \in jtis : family[s] # new
  BY <1>4, <1>5 DEF Ground, Held, Secret
<1>7. at'[Device] = "blacklist" => \A s \in snapshot[Device] : family[s] # new
  <2>1. at'[Device] = at[Device]
    BY <1>1, <1>2 DEF Quiet, Ground, TypeOK, ServerTypeOK
  <2>2. at[Device] = "blacklist" =>
          \A s \in snapshot[Device] : s \in Stored /\ session[s] = "revoked"
    BY <1>2 DEF Ground, Snapshots, TypeOK, ServerTypeOK, Stored
  <2> QED
    BY <1>3, <1>5, <2>1, <2>2
<1>8. \A u \in Tabs : refresh'[u] # 0 => family[refresh'[u]] # new
  <2>1. \A u \in Tabs : refresh'[u] = IF u = t THEN 0 ELSE refresh[u]
    BY <1>1, <1>2 DEF Quiet, Ground, TypeOK, ServerTypeOK
  <2> QED
    BY <1>2, <1>4, <1>5, <2>1 DEF Ground, Held, Secret
<1> QED
  BY <1>1, <1>3, <1>4, <1>6, <1>7, <1>8 DEF Good

LEMMA AskingIsGood ==
  ASSUME Inv, Ground, Good, excuses' = {}, NEW t \in Tabs, Asking(t),
         jar' # jar => jar' = JarAfter(t) /\ ~Crosses(t) /\ ~SignsIn(t),
         reply[t] = "200" /\ kind[t] = "refresh" => jar' = JarAfter(t)
  PROVE  Good'
<1>1. PICK route \in Routed, token \in Tokens : \E page \in PagesOf(route) :
        /\ Asks(t, route, token, page)
        /\ page = "closed" => route = "none"
        /\ page \in {"second", "refreshing"} => HasTurn(t) /\ UNCHANGED turns
        /\ page = "refreshing" =>
             tab[t] = "second" /\ jar' = jar /\ excuses' = excuses
        /\ route = "logout" => excuses' # {}
  BY DEF Asking
<1>2. PICK page \in PagesOf(route) :
        /\ Asks(t, route, token, page)
        /\ page = "closed" => route = "none"
        /\ page = "refreshing" => tab[t] = "second" /\ jar' = jar
        /\ route # "logout"
  BY <1>1
<1>3. /\ \A r \in Requesters :
           /\ kind'[r] = IF r = t THEN route ELSE kind[r]
           /\ refresh'[r] = IF r # t THEN refresh[r]
                            ELSE IF route \in {"none", "resource"} THEN 0 ELSE token
           /\ at'[r] = IF r # t THEN at[r]
                       ELSE IF route = "none" THEN "idle" ELSE "received"
           /\ issued'[r] = IF r = t THEN 0 ELSE issued[r]
           /\ reply'[r] = IF r = t THEN "none" ELSE reply[r]
      /\ \A u \in Tabs : tab'[u] = IF u = t THEN page ELSE tab[u]
      /\ UNCHANGED <<session, family, lapsed, jtis, families, snapshot>>
  BY <1>2, AsksPointwise
<1>4. /\ t \in Requesters /\ t # Device /\ Device \in Requesters
      /\ \A u \in Tabs : u \in Requesters
  BY DEF Requesters
<1>5. /\ jar \in Stored /\ jar \in Sessions /\ jar # 0
      /\ family[jar] \in Sessions /\ family[jar] # 0
  BY HomeOfJar
<1>6. token \in {0, jar'} /\ (route = "refresh" => page = "refreshing")
  BY <1>2, Pagings DEF Asks
<1>7. \A u \in Tabs : \A v \in Tabs :
        tab[u] \in {"second", "refreshing"} /\ tab[v] \in {"second", "refreshing"}
          => u = v
  BY OneRenews
<1>8. CASE jar' = jar
  <2>1. ~Renewing(t)
    <3>1. ASSUME Renewing(t) PROVE FALSE
      <4>1. kind[t] = "refresh" /\ reply[t] = "200"
        BY <3>1, TabPages DEF Renewing
      <4>2. jar' = issued[t] /\ issued[t] # 0
        BY <1>4, <4>1 DEF JarAfter, Ground, Replies
      <4> QED
        BY <1>4, <1>8, <4>2 DEF Ground, Issued, Secret
    <3> QED
      BY <3>1
  <2>2. session[jar] = "active" \/ \E u \in Tabs : Renewing(u)'
    <3>1. \A u \in Tabs \ {t} : Renewing(u) => Renewing(u)'
      BY <1>3, <1>4, <1>8 DEF Renewing
    <3> QED
      BY <2>1, <3>1 DEF Good
  <2>3. \A u \in Tabs \ {t} : Mine(u)' => Undisturbed(u)'
    <3>1. ASSUME NEW u \in Tabs \ {t}, Mine(u)' PROVE Undisturbed(u)'
      <4>1. Mine(u)
        BY <1>3, <1>4, <1>8, <3>1 DEF Mine
      <4>2. Undisturbed(u)
        BY <1>4, <4>1, MineUndisturbed
      <4> QED
        BY <1>3, <1>4, <1>8, <4>2 DEF Undisturbed
    <3> QED
      BY <3>1
  <2>4. Mine(t)' => Undisturbed(t)'
    <3>1. ASSUME Mine(t)' PROVE Undisturbed(t)'
      <4>1. refresh'[t] = jar /\ route \notin {"none", "resource"}
        BY <1>3, <1>4, <1>6, <1>8, <3>1 DEF Mine
      <4>2. ASSUME route = "refresh" PROVE session[jar] = "active"
        <5>1. tab[t] = "second"
          BY <1>2, <1>6, <4>2
        <5>2. \A u \in Tabs : ~Renewing(u)
          BY <1>7, <5>1 DEF Renewing
        <5> QED
          BY <5>2 DEF Good
      <4> QED
        BY <1>2, <1>3, <1>4, <1>6, <1>8, <4>1, <4>2 DEF Undisturbed
    <3> QED
      BY <3>1
  <2> QED
    BY <1>3, <1>4, <1>8, <2>2, <2>3, <2>4 DEF Good, Mine
<1>9. CASE jar' # jar
  <2>1. jar' = JarAfter(t) /\ FamilyOf(jar) = FamilyOf(refresh[t])
    BY <1>9 DEF Crosses
  <2>2. Mine(t)
    BY <1>5, <2>1 DEF FamilyOf, Mine
  <2>3. Undisturbed(t)
    BY <1>4, <2>2, MineUndisturbed
  <2>4. kind[t] = "refresh" /\ reply[t] = "200" /\ jar' = issued[t]
    <3>1. kind[t] \notin {"logout", "password"}
      BY <1>4, <2>3, Stands DEF Undisturbed, Routed
    <3>2. reply[t] # "204"
      BY <1>4, <3>1 DEF Ground, Replies
    <3>3. ~(reply[t] = "200" /\ kind[t] = "login")
      <4>1. ASSUME reply[t] = "200", kind[t] = "login" PROVE FALSE
        <5>1. session[issued[t]] = "active" /\ issued[t] # 0
          BY <1>4, <2>3, <4>1 DEF Undisturbed, Ground, Replies
        <5>2. issued[t] \notin lapsed
          BY <1>4, <5>1 DEF Ground, Issued, Secret
        <5> QED
          BY <1>9, <4>1, <5>1, <5>2 DEF SignsIn
      <4> QED
        BY <4>1
    <3>4. ~(reply[t] = "401" /\ kind[t] = "refresh")
      BY <2>3 DEF Undisturbed
    <3> QED
      BY <1>9, <2>1, <3>2, <3>3, <3>4 DEF JarAfter
  <2>5. issued[t] # 0 /\ refresh[t] = jar /\ tab[t] = "refreshing"
    BY <1>4, <2>3, <2>4 DEF Ground, Replies, Undisturbed
  <2>6. /\ family[issued[t]] = family[jar] /\ issued[t] \notin lapsed
        /\ session[issued[t]] = "active"
    BY <1>4, <2>3, <2>4, <2>5 DEF Ground, Issued, Secret, Undisturbed
  <2>7. \A u \in Tabs \ {t} : Mine(u)' => Undisturbed(u)'
    <3>1. ASSUME NEW u \in Tabs \ {t}, Mine(u)' PROVE Undisturbed(u)'
      <4>1. Mine(u)
        BY <1>3, <1>4, <2>4, <2>6, <3>1 DEF Mine
      <4>2. Undisturbed(u)
        BY <1>4, <4>1, MineUndisturbed
      <4>3. kind[u] # "refresh"
        BY <1>7, <2>5, <4>2 DEF Undisturbed
      <4> QED
        BY <1>3, <1>4, <4>2, <4>3 DEF Undisturbed
    <3> QED
      BY <3>1
  <2>8. Mine(t)' => Undisturbed(t)'
    <3>1. route # "refresh"
      BY <1>2, <1>6, <1>9
    <3> QED
      BY <1>2, <1>3, <1>4, <3>1 DEF Undisturbed
  <2> QED
    BY <1>3, <1>4, <2>4, <2>5, <2>6, <2>7, <2>8 DEF Good, Mine
<1> QED
  BY <1>8, <1>9

LEMMA MovesHarmless ==
  ASSUME Inv, Ground, Good, NEW r \in Requesters, Moves(r), Mine(r)
  PROVE  /\ at[r] \in {"received", "rotating"}
         /\ kind[r] # "logout"
         /\ kind[r] = "refresh" =>
              at'[r] \in {"rotating", "replied"} /\ reply'[r] \in {"none", "503"}
         /\ kind[r] = "login" => reply'[r] # "200"
<1>1. r \in Tabs /\ Undisturbed(r)
  BY MineUndisturbed
<1>2. /\ at \in [Requesters -> Steps] /\ reply \in [Requesters -> Statuses]
      /\ at[r] # "replied" => reply[r] = "none"
      /\ kind[r] = "refresh" \/ kind[r] \in {"none", "resource", "login"}
      /\ kind[r] # "resource"
  BY <1>1, Stands DEF Undisturbed, Ground, TypeOK, ServerTypeOK, Replies, Held,
     Mine, Routed
<1>3. kind[r] = "refresh" => at[r] \in {"received", "rotating", "updated", "replied"}
  BY <1>1 DEF Undisturbed
<1>4. at[r] \in {"received", "rotating"}
  <2>1. at[r] \notin {"idle", "updated", "replied"}
    BY DEF Moves, Resource, FindToken, NameAccess, NameRefresh, RevokeStart,
       Blacklist, Fails, Login, Rotate
  <2>2. kind[r] # "refresh" =>
          at[r] \notin {"named", "rotating", "revoke", "revoking", "blacklist"}
    BY <1>2, Stands
  <2> QED
    BY <1>2, <1>3, <2>1, <2>2 DEF Steps
<1>5. ~RevokeStart(r) /\ ~Blacklist(r) /\ ~NameRefresh(r) /\ ~NameAccess(r)
      /\ ~Resource(r)
  BY <1>2, <1>4 DEF RevokeStart, Blacklist, NameRefresh, NameAccess, Resource
<1>6. ASSUME kind[r] = "refresh"
      PROVE  at'[r] \in {"rotating", "replied"} /\ reply'[r] \in {"none", "503"}
  <2>1. refresh[r] = jar /\ session[jar] = "active" /\ reply[r] = "none"
        /\ jar \notin lapsed /\ jar # 0
    BY <1>1, <1>2, <1>4, <1>6 DEF Undisturbed, Good
  <2>2. CASE FindToken(r)
    <3>1. MoveOn(r, "rotating")
      BY <2>1, <2>2 DEF FindToken
    <3> QED
      BY <1>2, <2>1, <3>1 DEF MoveOn
  <2>3. CASE Fails(r)
    BY <1>2, <2>3 DEF Fails, Reply
  <2>4. CASE Rotate(r) /\ UNCHANGED <<session, family, issued>>
    <3>1. Reply(r, "503")
      <4>1. Unused # {} => ~(session' = [session EXCEPT ![Fresh] = "pending"])
        BY <2>4, FreshIsUnused DEF Inv, Types
      <4> QED
        BY <2>1, <2>4, <4>1 DEF Rotate
    <3> QED
      BY <1>2, <3>1 DEF Reply
  <2>5. ~Login(r)
    BY <1>6 DEF Login
  <2> QED
    BY <1>5, <2>2, <2>3, <2>4, <2>5 DEF Moves
<1>7. ASSUME kind[r] = "login" PROVE reply'[r] # "200"
  <2>1. CASE Fails(r)
    BY <1>2, <2>1 DEF Fails, Reply
  <2>2. CASE Login(r) /\ UNCHANGED <<session, family, issued>>
    <3>1. Reply(r, "401")
      <4>1. Unused # {} => ~(session' = [session EXCEPT ![Fresh] = "active"])
        BY <2>2, FreshIsUnused DEF Inv, Types
      <4> QED
        BY <2>2, <4>1 DEF Login
    <3> QED
      BY <1>2, <3>1 DEF Reply
  <2>3. ~FindToken(r) /\ ~Rotate(r)
    BY <1>7, Stands DEF FindToken, Rotate
  <2> QED
    BY <1>5, <2>1, <2>2, <2>3 DEF Moves
<1> QED
  BY <1>1, <1>4, <1>6, <1>7 DEF Undisturbed

LEMMA MovesGood ==
  ASSUME Inv, Ground, Good, NEW r \in Requesters, Moves(r), Still PROVE Good'
<1>1. /\ UNCHANGED <<rows, clocks, issued>>
      /\ \E step, status : Serves(r, step, status)
  BY MovesServes
<1>2. PICK step, status : Serves(r, step, status)
  BY <1>1
<1>3. /\ \A q \in Requesters :
            /\ at'[q] = IF q = r THEN step ELSE at[q]
            /\ reply'[q] = IF q = r THEN status ELSE reply[q]
      /\ UNCHANGED <<kind, access, refresh, jar, tab, turns>>
      /\ UNCHANGED <<session, family, lapsed, issued>>
  BY <1>1, <1>2, ServesPointwise DEF rows, clocks
<1>4. /\ Device \in Requesters /\ \A u \in Tabs : u \in Requesters /\ u # Device
  BY DEF Requesters
<1>5. /\ jar \in Stored /\ jar # 0 /\ family[jar] # 0
  BY HomeOfJar
<1>6. /\ \/ UNCHANGED jtis
         \/ /\ kind[r] = "logout" /\ at[r] = "received"
            /\ jtis' = jtis \cup ({access[r]} \ ({0} \cup expired))
      /\ \/ UNCHANGED families
         \/ at[r] = "blacklist" /\ families' = families \cup Doomed(r)
      /\ \A q \in Requesters \ {r} : snapshot'[q] = snapshot[q]
      /\ at'[r] # "blacklist"
  BY MovesEffects
<1>7. /\ kind[r] = "logout" => ~Mine(r)
      /\ at[r] = "blacklist" => ~Mine(r)
  BY MovesHarmless
<1>8. \A s \in jtis' : family[s] # family[jar]
  <2>1. kind[r] = "logout" => access[r] = refresh[r]
    BY DEF Ground, Held
  <2> QED
    BY <1>6, <1>7, <2>1 DEF Good, Mine
<1>9. family[jar] \notin families'
  <2>1. ASSUME at[r] = "blacklist", family[jar] \in Doomed(r) PROVE FALSE
    <3>1. \/ refresh[r] \in Stored /\ family[jar] = family[refresh[r]]
          \/ /\ r = Device
             /\ \E s \in snapshot[r] : family[jar] = family[s]
      BY <2>1, DoomedFamilies
    <3>2. CASE refresh[r] \in Stored /\ family[jar] = family[refresh[r]]
      BY <1>7, <2>1, <3>2 DEF Mine, Stored, Sessions
    <3>3. CASE r = Device /\ \E s \in snapshot[r] : family[jar] = family[s]
      BY <2>1, <3>3 DEF Good
    <3> QED
      BY <3>1, <3>2, <3>3
  <2> QED
    BY <1>6, <2>1 DEF Good
<1>10. at'[Device] = "blacklist" =>
         \A s \in snapshot'[Device] : family[s] # family[jar]
  BY <1>3, <1>4, <1>6 DEF Good
<1>11. session[jar] = "active" \/ \E u \in Tabs : Renewing(u)'
  <2>1. at[r] # "replied"
    BY DEF Moves, Resource, FindToken, NameAccess, NameRefresh, RevokeStart,
       Blacklist, Fails, Login, Rotate
  <2>2. \A u \in Tabs : Renewing(u) => Renewing(u)'
    BY <1>3, <1>4, <2>1 DEF Renewing
  <2> QED
    BY <2>2 DEF Good
<1>12. \A u \in Tabs : Mine(u)' => Undisturbed(u)'
  <2>1. ASSUME NEW u \in Tabs, Mine(u)' PROVE Undisturbed(u)'
    <3>1. Mine(u) /\ Undisturbed(u)
      BY <1>3, <1>4, <2>1, MineUndisturbed DEF Mine
    <3>2. CASE u # r
      BY <1>3, <1>4, <3>1, <3>2 DEF Undisturbed
    <3>3. CASE u = r
      <4>1. /\ at[r] \in {"received", "rotating"}
            /\ kind[r] # "logout"
            /\ kind[r] = "refresh" =>
                 at'[r] \in {"rotating", "replied"} /\ reply'[r] \in {"none", "503"}
            /\ kind[r] = "login" => reply'[r] # "200"
        BY <3>1, <3>3, MovesHarmless
      <4>2. reply[r] = "none"
        BY <4>1 DEF Ground, Replies
      <4> QED
        BY <1>3, <3>1, <3>3, <4>1, <4>2 DEF Undisturbed
    <3> QED
      BY <3>2, <3>3
  <2> QED
    BY <2>1
<1> QED
  BY <1>3, <1>5, <1>8, <1>9, <1>10, <1>11, <1>12 DEF Good, Mine

LEMMA CreatesGood ==
  ASSUME Inv, Ground, Good, NEW r \in Requesters, NEW new, NEW state, NEW home,
         Creates(r, new, state, home)
  PROVE  Good'
<1>1. /\ \A s \in Sessions :
           /\ session'[s] = IF s = new THEN state ELSE session[s]
           /\ family'[s] = IF s = new THEN home ELSE family[s]
      /\ \A q \in Requesters : issued'[q] = IF q = r THEN new ELSE issued[q]
      /\ new \notin Stored
      /\ \A q \in Requesters : issued[q] # new /\ access[q] # new /\ refresh[q] # new
      /\ jar # new /\ new \notin lapsed \cup jtis \cup families
  BY CreatesPointwise
<1>2. UNCHANGED <<lapsed, jtis, families, kind, refresh, snapshot, jar, tab>>
  BY DEF Creates, clocks, redis, cookies, Still
<1>3. \A s \in Stored : session'[s] = session[s] /\ family'[s] = family[s]
  BY <1>1 DEF Stored
<1>4. /\ jar \in Stored /\ jar # 0
  BY HomeOfJar
<1>5. /\ Device \in Requesters /\ \A u \in Tabs : u \in Requesters /\ u # Device
      /\ r # Device /\ new \in Sessions
  BY Stands DEF Requesters, Creates
<1>6. \A q \in Requesters :
        /\ q # r => at'[q] = at[q] /\ reply'[q] = reply[q]
        /\ q = r => \/ /\ kind[r] = "login" /\ state = "active"
                       /\ at[r] = "received" /\ at'[r] = "replied"
                    \/ /\ kind[r] = "refresh" /\ at[r] = "rotating"
                       /\ at'[r] = "updated" /\ reply'[r] = "none"
  BY DEF Creates, Ground, TypeOK, ServerTypeOK
<1>7. \A s \in jtis' : family'[s] # family'[jar]
  BY <1>2, <1>3, <1>4 DEF Good, Ground, Held
<1>8. at'[Device] = "blacklist" =>
        \A s \in snapshot'[Device] : family'[s] # family'[jar]
  <2>1. \A s \in snapshot[Device] : s \in Stored
    BY <1>5 DEF Inv, Revocations, Types, Stored
  <2> QED
    BY <1>2, <1>3, <1>4, <1>5, <1>6, <2>1 DEF Good
<1>9. session'[jar] = "active" \/ \E u \in Tabs : Renewing(u)'
  <2>1. \A u \in Tabs : Renewing(u) => Renewing(u)'
    BY <1>2, <1>5, <1>6 DEF Renewing
  <2> QED
    BY <1>3, <1>4, <2>1 DEF Good
<1>10. \A u \in Tabs : Mine(u)' => Undisturbed(u)'
  <2>1. ASSUME NEW u \in Tabs, Mine(u)' PROVE Undisturbed(u)'
    <3>1. refresh[u] # 0 /\ refresh[u] \in Stored
      BY <1>2, <1>5, <2>1 DEF Mine, Ground, Held
    <3>2. Mine(u) /\ Undisturbed(u)
      BY <1>2, <1>3, <1>4, <1>5, <2>1, <3>1, MineUndisturbed DEF Mine
    <3>3. CASE u # r
      <4>1. issued'[u] = issued[u] /\ issued[u] # new /\ at'[u] = at[u] /\ reply'[u] = reply[u]
        BY <1>1, <1>5, <1>6, <3>3
      <4>2. kind[u] \in {"login", "refresh"} /\ reply[u] = "200" =>
              session'[issued[u]] = session[issued[u]]
        <5>1. kind[u] \in {"login", "refresh"} /\ reply[u] = "200" =>
                issued[u] \in Sessions
          BY <1>5, Granted
        <5> QED
          BY <1>1, <4>1, <5>1
      <4> QED
        BY <1>2, <1>3, <1>4, <3>2, <4>1, <4>2 DEF Undisturbed
    <3>4. CASE u = r
      <4>1. reply[r] = "none"
        BY <1>5, <1>6, <3>4 DEF Ground, Replies
      <4> QED
        BY <1>1, <1>2, <1>3, <1>4, <1>5, <1>6, <3>2, <3>4, <4>1 DEF Undisturbed
    <3> QED
      BY <3>3, <3>4
  <2> QED
    BY <2>1
<1> QED
  BY <1>2, <1>3, <1>4, <1>7, <1>8, <1>9, <1>10 DEF Good, Mine

(* The response that replaces the jar's token sets out.                    *)
LEMMA CommitsGood ==
  ASSUME Inv, Ground, Good, NEW r \in Requesters, Commits(r, "200"), Still
  PROVE  Good'
<1>1. /\ at[r] = "updated" /\ kind[r] = "refresh" /\ r # Device
      /\ refresh[r] \in Stored /\ refresh[r] # 0
      /\ issued[r] \in Sessions /\ issued[r] # 0
      /\ \A s \in Sessions :
           session'[s] = IF s = refresh[r] THEN "revoked"
                         ELSE IF s = issued[r] THEN "active" ELSE session[s]
      /\ UNCHANGED <<family, lapsed, jtis, families, kind, access,
                     refresh, issued, snapshot, jar, tab>>
  BY DEF Commits, Stored, Sessions, clocks, redis, cookies, Still
<1>2. /\ \A q \in Requesters :
            /\ at'[q] = IF q = r THEN "replied" ELSE at[q]
            /\ reply'[q] = IF q = r THEN "200" ELSE reply[q]
  BY DEF Commits, Ground, TypeOK, ServerTypeOK
<1>3. /\ jar \in Stored /\ jar # 0 /\ jar \in Sessions
  BY HomeOfJar
<1>4. /\ Device \in Requesters /\ \A u \in Tabs : u \in Requesters /\ u # Device
      /\ r \in Tabs
  BY <1>1 DEF Requesters
<1>5. issued[r] # jar /\ issued[r] # refresh[r]
  BY <1>1 DEF Ground, Issued, Secret
<1>6. \A u \in Tabs \ {r} : issued[u] # 0 =>
        issued[u] # issued[r] /\ issued[u] # refresh[r] /\ issued[u] \in Sessions
  BY <1>1, <1>4, IssuedAlone, IssuedType
<1>7. session'[jar] = "active" \/ \E u \in Tabs : Renewing(u)'
  <2>1. CASE Mine(r)
    <3>1. tab[r] = "refreshing" /\ refresh[r] = jar
      BY <1>1, <2>1, MineUndisturbed DEF Undisturbed
    <3>2. Renewing(r)'
      BY <1>1, <1>2, <1>4, <3>1 DEF Renewing
    <3> QED
      BY <1>4, <3>2
  <2>2. CASE ~Mine(r)
    <3>1. refresh[r] # jar
      BY <1>1, <2>2 DEF Mine
    <3>2. session'[jar] = session[jar]
      BY <1>1, <1>3, <1>5, <3>1
    <3>3. \A u \in Tabs : Renewing(u) => Renewing(u)'
      BY <1>1, <1>2, <1>4 DEF Renewing
    <3> QED
      BY <3>2, <3>3 DEF Good
  <2> QED
    BY <2>1, <2>2
<1>8. \A u \in Tabs : Mine(u)' => Undisturbed(u)'
  <2>1. ASSUME NEW u \in Tabs, Mine(u)' PROVE Undisturbed(u)'
    <3>1. Mine(u) /\ Undisturbed(u)
      BY <1>1, <1>4, <2>1, MineUndisturbed DEF Mine
    <3>2. CASE u = r
      BY <1>1, <1>2, <1>4, <1>5, <3>1, <3>2 DEF Undisturbed
    <3>3. CASE u # r
      <4>1. at'[u] = at[u] /\ reply'[u] = reply[u]
        BY <1>2, <1>4, <3>3
      <4>2. kind[u] \in {"login", "refresh"} /\ reply[u] = "200" =>
              session'[issued[u]] = session[issued[u]]
        <5>1. kind[u] \in {"login", "refresh"} /\ reply[u] = "200" =>
                issued[u] # 0
          BY <1>4 DEF Ground, Replies
        <5> QED
          BY <1>1, <1>6, <3>3, <5>1
      <4>3. kind[u] = "refresh" => session'[jar] = session[jar]
        <5>1. ASSUME kind[u] = "refresh" PROVE refresh[r] # jar
          <6>1. ASSUME refresh[r] = jar PROVE FALSE
            <7>1. Mine(r)
              BY <1>3, <6>1 DEF Mine
            <7>2. tab[r] = "refreshing" /\ tab[u] = "refreshing"
              BY <1>1, <3>1, <5>1, <7>1, MineUndisturbed DEF Undisturbed
            <7> QED
              BY <1>4, <3>3, <7>2, OneRenews
          <6> QED
            BY <6>1
        <5> QED
          BY <1>1, <1>3, <1>5, <5>1
      <4> QED
        BY <1>1, <3>1, <4>1, <4>2, <4>3 DEF Undisturbed
    <3> QED
      BY <3>2, <3>3
  <2> QED
    BY <2>1
<1>9. at'[Device] = "blacklist" =>
        \A s \in snapshot'[Device] : family'[s] # family'[jar]
  BY <1>1, <1>2, <1>4 DEF Good
<1> QED
  BY <1>1, <1>7, <1>8, <1>9 DEF Good, Mine

LEMMA RollbackGood ==
  ASSUME Inv, Ground, Good, NEW r \in Requesters, Rollback(r), Still PROVE Good'
<1> DEFINE new == issued[r]
<1>1. /\ at[r] = "updated" /\ kind[r] = "refresh" /\ r # Device
      /\ new \in Sessions /\ session[new] = "pending"
      /\ reply[r] = "none"
  BY Stands DEF Rollback, Inv, Rotations, Ground, Replies
<1>2. /\ \A s \in Sessions :
           /\ session'[s] = IF s = new THEN "unused" ELSE session[s]
           /\ family'[s] = IF s = new THEN 0 ELSE family[s]
      /\ \A q \in Requesters :
           /\ issued'[q] = IF q = r THEN 0 ELSE issued[q]
           /\ at'[q] = IF q = r THEN "replied" ELSE at[q]
           /\ reply'[q] = IF q = r THEN "503" ELSE reply[q]
      /\ UNCHANGED <<lapsed, jtis, families, kind, access, refresh, snapshot, jar,
                     tab>>
  BY DEF Rollback, Reply, Ground, TypeOK, ServerTypeOK, clocks, redis, cookies, Still
<1>3. \A s \in Stored : session'[s] = session[s] /\ family'[s] = family[s]
  BY <1>1, <1>2 DEF Stored
<1>4. /\ jar \in Stored /\ jar # 0
  BY HomeOfJar
<1>5. /\ Device \in Requesters /\ \A u \in Tabs : u \in Requesters /\ u # Device
  BY DEF Requesters
<1>6. \A s \in jtis' : family'[s] # family'[jar]
  BY <1>2, <1>3, <1>4 DEF Good, Ground, Held
<1>7. at'[Device] = "blacklist" =>
        \A s \in snapshot'[Device] : family'[s] # family'[jar]
  <2>1. \A s \in snapshot[Device] : s \in Stored
    BY <1>5 DEF Inv, Revocations, Types, Stored
  <2> QED
    BY <1>1, <1>2, <1>3, <1>4, <1>5, <2>1 DEF Good
<1>8. session'[jar] = "active" \/ \E u \in Tabs : Renewing(u)'
  <2>1. \A u \in Tabs : Renewing(u) => Renewing(u)'
    BY <1>1, <1>2, <1>5 DEF Renewing
  <2> QED
    BY <1>3, <1>4, <2>1 DEF Good
<1>9. \A u \in Tabs : Mine(u)' => Undisturbed(u)'
  <2>1. ASSUME NEW u \in Tabs, Mine(u)' PROVE Undisturbed(u)'
    <3>1. refresh[u] # 0 /\ refresh[u] \in Stored
      BY <1>2, <1>5, <2>1 DEF Mine, Ground, Held
    <3>2. Mine(u) /\ Undisturbed(u)
      BY <1>2, <1>3, <1>4, <1>5, <2>1, <3>1, MineUndisturbed DEF Mine
    <3>3. CASE u # r
      <4>1. kind[u] \in {"login", "refresh"} /\ reply[u] = "200" =>
              issued[u] \in Sessions /\ issued[u] # new
        BY <1>1, <1>5, <3>3, Granted, IssuedAlone
      <4> QED
        BY <1>2, <1>3, <1>4, <1>5, <3>2, <3>3, <4>1 DEF Undisturbed
    <3>4. CASE u = r
      BY <1>1, <1>2, <1>3, <1>4, <1>5, <3>2, <3>4 DEF Undisturbed
    <3> QED
      BY <3>3, <3>4
  <2> QED
    BY <2>1
<1> QED
  BY <1>2, <1>3, <1>4, <1>6, <1>7, <1>8, <1>9 DEF Good, Mine

(* A revocation the browser asked for is of another family.                *)
LEMMA RevokeGood ==
  ASSUME Inv, Ground, Good, NEW r \in Tabs, RevokeEnd(r), Still PROVE Good'
<1>1. /\ at[r] = "revoking" /\ r \in Requesters /\ r # Device
      /\ kind[r] \in {"refresh", "logout"}
  <2>1. at[r] = "revoking" /\ r \in Requesters /\ r # Device
    BY DEF RevokeEnd, Requesters
  <2> QED
    BY <2>1, Stands DEF Routed
<1>2. /\ \A s \in Sessions :
           session'[s] = IF s \in snapshot[r] THEN "revoked" ELSE session[s]
      /\ \A q \in Requesters :
           /\ snapshot'[q] = IF q = r THEN {s \in snapshot[r] : session[s] = "active"}
                             ELSE snapshot[q]
           /\ at'[q] = IF q = r THEN "blacklist" ELSE at[q]
      /\ UNCHANGED <<family, lapsed, jtis, families, kind, reply,
                     access, refresh, issued, jar, tab>>
  BY DEF RevokeEnd, MoveOn, Ground, TypeOK, ServerTypeOK, clocks, redis, cookies, Still
<1>3. /\ Device \in Requesters /\ \A u \in Tabs : u \in Requesters /\ u # Device
  BY DEF Requesters
<1>4. jar \in Stored /\ jar \in Sessions /\ jar # 0
  BY HomeOfJar
<1>5. ~Mine(r)
  BY <1>1, MineUndisturbed DEF Undisturbed
<1>6. \A s \in snapshot[r] :
        refresh[r] \in Stored /\ family[s] = family[refresh[r]] /\ s \in Stored
  <2>1. \A s \in snapshot[r] : refresh[r] # 0 /\ family[s] = family[refresh[r]]
    BY <1>1 DEF Ground, Snapshots, Named
  <2> QED
    BY <1>1, <2>1 DEF Ground, Held, Inv, Revocations, Types, Stored
<1>7. \A s \in snapshot[r] : family[s] # family[jar]
  BY <1>5, <1>6 DEF Mine, Stored, Sessions
<1>8. session'[jar] = session[jar]
  BY <1>2, <1>4, <1>7
<1>9. at'[Device] = "blacklist" =>
        \A s \in snapshot'[Device] : family'[s] # family'[jar]
  BY <1>1, <1>2, <1>3 DEF Good
<1>10. \A u \in Tabs : Mine(u)' => Undisturbed(u)'
  <2>1. ASSUME NEW u \in Tabs, Mine(u)' PROVE Undisturbed(u)'
    <3>1. Mine(u) /\ Undisturbed(u) /\ u # r
      BY <1>2, <1>3, <1>5, <2>1, MineUndisturbed DEF Mine
    <3>2. ASSUME kind[u] \in {"login", "refresh"}, reply[u] = "200"
          PROVE  session'[issued[u]] = session[issued[u]]
      <4>1. issued[u] # 0 /\ issued[u] \in Sessions
        BY <1>3, <3>2, Granted
      <4>2. issued[u] \notin snapshot[r]
        <5>1. CASE kind[u] = "refresh"
          <6>1. family[issued[u]] = family[jar]
            BY <1>3, <3>1, <4>1, <5>1 DEF Ground, Issued, Mine
          <6> QED
            BY <1>7, <6>1
        <5>2. CASE kind[u] = "login"
          <6>1. ASSUME issued[u] \in snapshot[r] PROVE FALSE
            <7>1. refresh[r] \in Stored /\ family[refresh[r]] = family[issued[u]]
              BY <1>6, <6>1
            <7>2. refresh[r] = issued[u]
              BY <1>3, <4>1, <5>2, <7>1 DEF Ground, Issued, Stored
            <7> QED
              BY <1>1, <1>3, <4>1, <7>2 DEF Ground, Issued, Secret
          <6> QED
            BY <6>1
        <5> QED
          BY <3>2, <5>1, <5>2
      <4> QED
        BY <1>2, <4>1, <4>2
    <3> QED
      BY <1>2, <1>3, <1>8, <3>1, <3>2 DEF Undisturbed
  <2> QED
    BY <2>1
<1>11. session'[jar] = "active" \/ \E u \in Tabs : Renewing(u)'
  <2>1. \A u \in Tabs : Renewing(u) => Renewing(u)'
    BY <1>1, <1>2, <1>3 DEF Renewing
  <2> QED
    BY <1>8, <2>1 DEF Good
<1> QED
  BY <1>2, <1>9, <1>10, <1>11 DEF Good, Mine

LEMMA ChangePasswordGood ==
  ASSUME Inv, Ground, Good, ChangePassword, Still PROVE Good'
<1>1. /\ \A q \in Requesters :
           q # Device => kind'[q] = kind[q] /\ at'[q] = at[q]
      /\ at'[Device] = "revoke"
      /\ UNCHANGED <<session, family, lapsed, jtis, families,
                     access, refresh, issued, snapshot, reply, jar, tab>>
  BY DEF ChangePassword, MoveOn, Ground, TypeOK, ServerTypeOK, rows, clocks, redis,
     Still, Requesters
<1>2. \A u \in Tabs : u \in Requesters /\ u # Device
  BY DEF Requesters
<1> QED
  BY <1>1, <1>2 DEF Good, Renewing, Undisturbed

LEMMA ExpireGood ==
  ASSUME Inv, Ground, Good, NEW s, Expire(s), Still PROVE Good'
BY DEF Expire, rows, redis, cookies, handlers, Still, Good, Renewing, Undisturbed

LEMMA CloseGood ==
  ASSUME Inv, Ground, Good, excuses' = {}, NEW t \in Tabs, Close(t) PROVE Good'
<1>1. /\ UNCHANGED <<session, family, lapsed, jtis, families,
                     kind, access, refresh, at, issued, snapshot, reply, jar>>
      /\ \A u \in Tabs : tab'[u] = IF u = t THEN "closed" ELSE tab[u]
      /\ tab[t] # "refreshing"
  BY DEF Close, Goes, serverVars, rows, clocks, redis, cookies, handlers, Ground,
     TypeOK
<1>2. session[jar] = "active" \/ \E u \in Tabs : Renewing(u)'
  BY <1>1 DEF Good, Renewing
<1>3. \A u \in Tabs : Mine(u)' => Undisturbed(u)'
  BY <1>1 DEF Good, Mine, Undisturbed
<1> QED
  BY <1>1, <1>2, <1>3 DEF Good, Mine

Peace == Inv /\ Ground /\ Peaceful

LEMMA ServerIsGood ==
  ASSUME Inv, Ground, Good, excuses' = {},
         \/ \E t \in Tabs : ServeLostCommit(t)
         \/ \E r \in Requesters : Serve(r) \/ ServeFailure(r) \/ ServeRevoke(r)
         \/ ServeElsewhere
         \/ \E s \in Sessions : Later(s)
  PROVE  Good'
<1>1. ASSUME NEW t \in Tabs, ServeLostCommit(t) PROVE Good'
  BY <1>1 DEF ServeLostCommit
<1>2. ASSUME NEW r \in Requesters, Serve(r) PROVE Good'
  <2>1. Still /\ Handles(r)
    BY <1>2 DEF Serve, browserVars, Still
  <2>2. CASE Moves(r)
    BY <2>1, <2>2, MovesGood
  <2>3. CASE (Login(r) \/ Rotate(r)) /\ ~UNCHANGED <<session, family, issued>>
    BY <2>1, <2>3, LoginRotateCreates, CreatesGood
  <2>4. CASE Commit(r)
    <3>1. Commits(r, "200")
      <4>1. PICK status \in {"200", "503"} : Commits(r, status)
        BY <2>1, <2>4, CommitCommits
      <4>2. reply' = [reply EXCEPT ![r] = "200"]
        BY <2>4 DEF Commit, Reply
      <4> QED
        BY <4>1, <4>2 DEF Commits
    <3> QED
      BY <2>1, <3>1, CommitsGood
  <2> QED
    BY <2>1, <2>2, <2>3, <2>4 DEF Handles, Moves
<1>3. ASSUME NEW r \in Requesters, ServeFailure(r) PROVE Good'
  BY <1>3, MovesGood, RollbackGood DEF ServeFailure, Moves, Still
<1>4. ASSUME NEW r \in Requesters, ServeRevoke(r) PROVE Good'
  <2>1. r \in Tabs
    BY <1>4 DEF ServeRevoke, Requesters
  <2> QED
    BY <1>4, <2>1, RevokeGood DEF ServeRevoke, Still
<1>5. CASE ServeElsewhere
  BY <1>5, ChangePasswordGood DEF ServeElsewhere, Still
<1>6. ASSUME NEW s \in Sessions, Later(s) PROVE Good'
  BY <1>6, ExpireGood DEF Later, browserVars, Still
<1> QED
  BY <1>1, <1>2, <1>3, <1>4, <1>5, <1>6

LEMMA DeliveryIsGood ==
  ASSUME Inv, Ground, Peaceful, excuses' = {}, NEW t \in Tabs, Delivers(t)
  PROVE  Good'
<1>1. Arrives(t)
  BY DEF Delivers, FirstAnswered, SecondAnswered, RefreshAnswered,
     RetryAnswered, LoginAnswered, LogoutAnswered, LateAnswer
<1>2. CASE SignsIn(t)
  BY <1>2, SignInIsGood
<1>3. CASE ~SignsIn(t)
  <2>1. excuses = {} /\ ~Crosses(t) /\ jar' = JarAfter(t)
    BY <1>1, <1>3 DEF Arrives, ExcusesAfter
  <2>2. Asking(t)
    BY AnswersAsk
  <2> QED
    BY <1>3, <2>1, <2>2, AskingIsGood DEF Peaceful
<1> QED
  BY <1>2, <1>3

LEMMA PeacefulNext ==
  ASSUME Inv, Ground, Peaceful, [Next]_vars PROVE Peaceful'
<1> SUFFICES ASSUME excuses' = {} PROVE Good'
  BY DEF Peaceful
<1>1. CASE UNCHANGED vars
  BY <1>1
  DEF vars, serverVars, rows, clocks, redis, cookies, handlers, browserVars,
      Peaceful, Good, Renewing, Undisturbed
<1>2. ASSUME NEW t \in Tabs, Delivers(t) PROVE Good'
  BY <1>2, DeliveryIsGood
<1>3. ASSUME NEW t \in Tabs,
             \/ Check(t) \/ SubmitLogin(t) \/ SubmitLogout(t) \/ TakeTurn(t)
             \/ Lose(t)
      PROVE  Good'
  <2>1. excuses = {} /\ jar' = jar
    BY <1>3 DEF Check, SubmitLogin, SubmitLogout, TakeTurn, Lose
  <2>2. ~(reply[t] = "200" /\ kind[t] = "refresh")
    <3>1. CASE Lose(t)
      BY <1>3, <3>1 DEF Lose
    <3>2. CASE ~Lose(t)
      <4>1. at[t] = "idle"
        BY <1>3, <3>2 DEF Check, SubmitLogin, SubmitLogout, TakeTurn, Inv, Waiting
      <4>2. t \in Requesters
        BY DEF Requesters
      <4> QED
        BY <4>1, <4>2 DEF Ground, Replies
    <3> QED
      BY <3>1, <3>2
  <2>3. Asking(t)
    BY <1>3, TabAsks
  <2> QED
    BY <1>3, <2>1, <2>2, <2>3, AskingIsGood DEF Peaceful
<1>4. ASSUME NEW t \in Tabs, Close(t) PROVE Good'
  BY <1>4, CloseGood DEF Close, Peaceful
<1>5. ASSUME \/ \E t \in Tabs : ServeLostCommit(t)
             \/ \E r \in Requesters : Serve(r) \/ ServeFailure(r) \/ ServeRevoke(r)
             \/ ServeElsewhere
             \/ \E s \in Sessions : Later(s)
      PROVE  Good'
  <2>1. excuses = {}
    BY <1>5 DEF ServeLostCommit, Serve, ServeFailure, ServeRevoke, ServeElsewhere,
       Later, browserVars
  <2> QED
    BY <1>5, <2>1, ServerIsGood DEF Peaceful
<1> QED
  BY <1>1, <1>2, <1>3, <1>4, <1>5 DEF Next

LEMMA PeaceInit == Init => Peace
BY InvInit, GroundInit, GoodInit DEF Peace, Peaceful

LEMMA PeaceNext == Peace /\ [Next]_vars => Peace'
<1> SUFFICES ASSUME Peace, [Next]_vars PROVE Peace'
  OBVIOUS
<1>1. Inv'
  BY InvNext DEF Peace
<1> QED
  BY <1>1, GroundNext, PeacefulNext DEF Peace

(* The types of the sessions, the requests and the tabs.                   *)
THEOREM TabTypes == Spec => []TypeOK
<1>1. Peace => TypeOK
  BY DEF Peace, Ground
<1> QED
  BY <1>1, PeaceInit, PeaceNext, PTL DEF Spec

(* However many tabs renew one session together, they do not waste its     *)
(* single-use token: as long as nothing has happened that may end the      *)
(* session, the jar's token can be used or its replacement is on its way.  *)
THEOREM TabsDoNotWasteTokens == Spec => []JarRenewable
<1>1. Peace => JarRenewable
  BY DEF Peace, Peaceful, Good, Renewing, JarRenewable
<1> QED
  BY <1>1, PeaceInit, PeaceNext, PTL DEF Spec

(* What a tab that is refused knows: its renewal is refused only when its  *)
(* request was ended with the session.                                     *)
LEMMA RefusedRenewal ==
  ASSUME Peace, NEW t \in Tabs, RefreshAnswered(t), reply[t] = "401"
  PROVE  excuses' # {}
<1> SUFFICES ASSUME excuses' = {} PROVE FALSE
  OBVIOUS
<1> USE DEF Peace
<1>1. kind[t] = "refresh" /\ t \in Requesters
  BY TabPages DEF RefreshAnswered, Requesters
<1>2. excuses = {} /\ ~Crosses(t)
  BY <1>1 DEF RefreshAnswered, Arrives, ExcusesAfter, SignsIn
<1>3. Good
  BY <1>2 DEF Peaceful
<1>4. jar # 0 /\ family[jar] # 0
  BY <1>3, HomeOfJar
<1>5. FamilyOf(jar) = FamilyOf(refresh[t])
  BY <1>1, <1>2, <1>4 DEF Crosses, JarAfter
<1>6. Mine(t)
  BY <1>4, <1>5 DEF FamilyOf, Mine
<1> QED
  BY <1>1, <1>3, <1>6, MineUndisturbed DEF Undisturbed

LEMMA RefusedRetry ==
  ASSUME Peace, NEW t \in Tabs, RetryAnswered(t), reply[t] = "401"
  PROVE  \/ excuses' # {}
         \/ access[t] \in expired
         \/ FamilyOf(access[t]) # FamilyOf(jar)
<1> SUFFICES ASSUME excuses' = {}, access[t] \notin expired,
                    FamilyOf(access[t]) = FamilyOf(jar)
             PROVE  FALSE
  OBVIOUS
<1> USE DEF Peace
<1>1. kind[t] = "resource" /\ t \in Requesters
  BY TabPages DEF RetryAnswered, Requesters
<1>2. excuses = {}
  BY <1>1 DEF RetryAnswered, Arrives, ExcusesAfter, SignsIn
<1>3. Good
  BY <1>2 DEF Peaceful
<1>4. jar # 0 /\ family[jar] # 0
  BY <1>3, HomeOfJar
<1>5. access[t] # 0 /\ family[access[t]] = family[jar]
  BY <1>4 DEF FamilyOf
<1>6. access[t] \in jtis \/ family[access[t]] \in families
  BY <1>1, <1>5 DEF Ground, Refusals
<1> QED
  BY <1>3, <1>5, <1>6 DEF Good

LEMMA ToLogin ==
  ASSUME TypeOK, Next, NEW t \in Tabs, tab[t] \in Checking, tab'[t] = "login"
  PROVE  reply[t] = "401" /\ (RefreshAnswered(t) \/ RetryAnswered(t))
<1> USE DEF TypeOK, Goes, Checking
<1>1. ASSUME NEW u \in Tabs, u # t,
             \/ Check(u) \/ SubmitLogin(u) \/ SubmitLogout(u) \/ TakeTurn(u)
             \/ Delivers(u) \/ Lose(u) \/ Close(u)
      PROVE  tab'[t] = tab[t]
  <2>1. \/ UNCHANGED tab
        \/ \E page \in Pages : tab' = [tab EXCEPT ![u] = page]
    <3>1. CASE Delivers(u)
      BY <3>1 DEF Delivers, FirstAnswered, SecondAnswered, RefreshAnswered,
         RetryAnswered, LoginAnswered, LogoutAnswered, LateAnswer, AsksForTurn,
         Renewed, Pages
    <3>2. CASE ~Delivers(u)
      BY <1>1, <3>2 DEF Check, SubmitLogin, SubmitLogout, TakeTurn, Lose, Close,
         Pages
    <3> QED
      BY <3>1, <3>2
  <2> QED
    BY <1>1, <2>1
<1>2. ASSUME \/ \E u \in Tabs : ServeLostCommit(u)
             \/ \E r \in Requesters : Serve(r) \/ ServeFailure(r) \/ ServeRevoke(r)
             \/ ServeElsewhere
             \/ \E s \in Sessions : Later(s)
      PROVE  tab'[t] = tab[t]
  BY <1>2 DEF ServeLostCommit, Serve, ServeFailure, ServeRevoke, ServeElsewhere,
     Later, browserVars
<1>3. CASE \/ Check(t) \/ SubmitLogin(t) \/ SubmitLogout(t) \/ TakeTurn(t)
           \/ Lose(t) \/ Close(t)
  BY <1>3 DEF Check, SubmitLogin, SubmitLogout, TakeTurn, Lose, Close
<1>4. CASE Delivers(t)
  BY <1>4 DEF Delivers, FirstAnswered, SecondAnswered, RefreshAnswered,
     RetryAnswered, LoginAnswered, LogoutAnswered, LateAnswer, AsksForTurn,
     Renewed
<1> QED
  BY <1>1, <1>2, <1>3, <1>4 DEF Next

(* A tab is sent to the login page only for a reason, whatever the other   *)
(* tabs' renewals do (auth-session.js, withSession of script.js).          *)
THEOREM TabsAreSignedOutForAReason == Spec => SignedOutForAReason
<1>1. Peace /\ [Next]_vars =>
        [\A t \in Tabs :
           tab[t] \in Checking /\ tab'[t] = "login" =>
             \/ excuses' # {}
             \/ /\ tab[t] = "retry"
                /\ \/ access[t] \in expired
                   \/ FamilyOf(access[t]) # FamilyOf(jar)]_vars
  <2> SUFFICES ASSUME Peace, Next, NEW t \in Tabs,
                      tab[t] \in Checking, tab'[t] = "login"
               PROVE  \/ excuses' # {}
                      \/ /\ tab[t] = "retry"
                         /\ \/ access[t] \in expired
                            \/ FamilyOf(access[t]) # FamilyOf(jar)
    OBVIOUS
  <2>1. reply[t] = "401" /\ (RefreshAnswered(t) \/ RetryAnswered(t))
    BY ToLogin DEF Peace, Ground
  <2>2. RetryAnswered(t) => tab[t] = "retry"
    BY DEF RetryAnswered
  <2> QED
    BY <2>1, <2>2, RefusedRenewal, RefusedRetry
<1> QED
  BY <1>1, PeaceInit, PeaceNext, PTL DEF Spec, SignedOutForAReason
=============================================================================
