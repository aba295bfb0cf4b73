---------------------------- MODULE AuthSessions -----------------------------
(***************************************************************************)
(* The server's side of sign-in: auth/service.py, the refresh sessions of  *)
(* db/stores.py, the token blacklist of cache/blacklist.py and the cookies *)
(* of api/auth.py.                                                         *)
(*                                                                         *)
(* A refresh session is the row of one single-use token; the access token  *)
(* issued with it carries its number, so a session, its refresh token and  *)
(* its access token are one number here, and 0 is no token.  A family is   *)
(* named by the session the login created.  One action is what a request   *)
(* does between two awaits of the database or of Redis; the transactions   *)
(* of PostgreSQL run in READ COMMITTED.                                    *)
(*                                                                         *)
(* Passwords, the attempt limiter and the lookup of users only let a login *)
(* or a change of password through or not.  Blacklist entries live until   *)
(* the tokens they name have expired, so they are never seen to vanish.    *)
(***************************************************************************)
EXTENDS Naturals, FiniteSets

CONSTANTS
  Tabs,         (* browser tabs that send requests, one at a time          *)
  Device,       (* another device of the user                              *)
  MaxSessions   (* bound: refresh sessions                                 *)

ASSUME SessionsAssumption ==
  /\ MaxSessions \in Nat \ {0}
  /\ Device \notin Tabs

VARIABLES
  (* refresh_sessions                                                      *)
  session,      (* "unused", "pending" in an open transaction, "active",   *)
                (* "revoked"                                               *)
  family,       (* family_id                                               *)
  replacedBy,   (* replaced_by                                             *)
  (* Time                                                                  *)
  expired,      (* access tokens past their exp                            *)
  lapsed,       (* sessions past their expires_at                          *)
  (* Redis                                                                 *)
  jtis,         (* blacklisted access tokens                               *)
  families,     (* blacklisted families                                    *)
  (* The request of each requester                                         *)
  kind,         (* its route                                               *)
  access, refresh,  (* the tokens of its cookies                           *)
  at,           (* where the handler stands                                *)
  issued,       (* the session it creates                                  *)
  snapshot,     (* the rows its UPDATE of a family sees, then revoked      *)
  reply         (* the status of its response                              *)

rows == <<session, family, replacedBy>>
clocks == <<expired, lapsed>>
redis == <<jtis, families>>
cookies == <<kind, access, refresh>>
handlers == <<at, issued, snapshot, reply>>
serverVars == <<rows, clocks, redis, cookies, handlers>>

Requesters == Tabs \cup {Device}
Sessions == 1..MaxSessions
Tokens == 0..MaxSessions

Kinds == {"none", "resource", "refresh", "login", "logout", "password"}
Steps == {"idle", "received", "named", "rotating", "updated", "revoke",
          "revoking", "blacklist", "replied"}
Statuses == {"none", "200", "204", "401", "503"}

ServerTypeOK ==
  /\ session \in [Sessions -> {"unused", "pending", "active", "revoked"}]
  /\ family \in [Sessions -> Tokens]
  /\ replacedBy \in [Sessions -> Tokens]
  /\ expired \in SUBSET Sessions /\ lapsed \in SUBSET Sessions
  /\ jtis \in SUBSET Sessions /\ families \in SUBSET Sessions
  /\ kind \in [Requesters -> Kinds]
  /\ access \in [Requesters -> Tokens] /\ refresh \in [Requesters -> Tokens]
  /\ at \in [Requesters -> Steps]
  /\ issued \in [Requesters -> Tokens]
  /\ snapshot \in [Requesters -> SUBSET Sessions]
  /\ reply \in [Requesters -> Statuses]

(* One session exists: the user signed in before.                          *)
ServerInit ==
  /\ session = [s \in Sessions |-> IF s = 1 THEN "active" ELSE "unused"]
  /\ family = [s \in Sessions |-> IF s = 1 THEN 1 ELSE 0]
  /\ replacedBy = [s \in Sessions |-> 0]
  /\ expired = {} /\ lapsed = {}
  /\ jtis = {} /\ families = {}
  /\ kind = [r \in Requesters |-> "none"]
  /\ access = [r \in Requesters |-> 0]
  /\ refresh = [r \in Requesters |-> 0]
  /\ at = [r \in Requesters |-> "idle"]
  /\ issued = [r \in Requesters |-> 0]
  /\ snapshot = [r \in Requesters |-> {}]
  /\ reply = [r \in Requesters |-> "none"]

-----------------------------------------------------------------------------
(* Helpers.                                                                *)

Reply(r, status) ==
  /\ at' = [at EXCEPT ![r] = "replied"]
  /\ reply' = [reply EXCEPT ![r] = status]

MoveOn(r, step) ==
  /\ at' = [at EXCEPT ![r] = step]
  /\ UNCHANGED reply

(* A new row takes a number no row has: uuid4.                             *)
Unused == {s \in Sessions : session[s] = "unused"}
Fresh == CHOOSE s \in Unused : TRUE

(* A rotation that has not committed holds the lock of the row it revokes. *)
Locked(s) == \E r \in Requesters : at[r] = "updated" /\ refresh[r] = s

(* authenticate(), _resolve()                                              *)
Authenticates(token) ==
  /\ token # 0
  /\ token \notin expired
  /\ token \notin jtis
  /\ family[token] \notin families

-----------------------------------------------------------------------------
(* Requests for a resource, /users/me among them.                          *)

Resource(r) ==
  /\ at[r] = "received" /\ kind[r] = "resource"
  /\ Reply(r, IF Authenticates(access[r]) THEN "200" ELSE "401")
  /\ UNCHANGED <<rows, clocks, redis, cookies, issued, snapshot>>

(* Login: a session of a new family, or wrong credentials.                 *)
Login(r) ==
  /\ at[r] = "received" /\ kind[r] = "login"
  /\ \/ /\ Unused # {}
        /\ session' = [session EXCEPT ![Fresh] = "active"]
        /\ family' = [family EXCEPT ![Fresh] = Fresh]
        /\ issued' = [issued EXCEPT ![r] = Fresh]
        /\ Reply(r, "200")
     \/ /\ Reply(r, "401")
        /\ UNCHANGED <<session, family, issued>>
  /\ UNCHANGED <<replacedBy, clocks, redis, cookies, snapshot>>

-----------------------------------------------------------------------------
(* Refresh.                                                                *)

(* get_by_token_hash; a revoked token is a reused one, whatever its age.   *)
FindToken(r) ==
  /\ at[r] = "received" /\ kind[r] = "refresh"
  /\ LET token == refresh[r]
     IN  \/ token = 0 /\ Reply(r, "401")
         \/ /\ token # 0 /\ session[token] = "revoked"
            /\ MoveOn(r, "revoke")
         \/ /\ token # 0 /\ session[token] = "active" /\ token \in lapsed
            /\ Reply(r, "401")
         \/ /\ token # 0 /\ session[token] = "active" /\ token \notin lapsed
            /\ MoveOn(r, "rotating")
  /\ UNCHANGED <<rows, clocks, redis, cookies, issued, snapshot>>

RotateUnchecked(r) ==       (* mutant: the UPDATE asks only for the row's id *)
  /\ at[r] = "rotating" /\ ~Locked(refresh[r]) /\ Unused # {}
  /\ session' = [session EXCEPT ![Fresh] = "pending"]
  /\ family' = [family EXCEPT ![Fresh] = family[refresh[r]]]
  /\ issued' = [issued EXCEPT ![r] = Fresh]
  /\ MoveOn(r, "updated")
  /\ UNCHANGED <<replacedBy, clocks, redis, cookies, snapshot>>

(* rotate(): INSERT of the replacement and UPDATE of the current row in    *)
(* one transaction.  The UPDATE waits for the row's lock and then looks at *)
(* revoked_at again; when it finds no row, the replacement is rolled back  *)
(* and the token counts as reused.                                         *)
Rotate(r) ==
  /\ at[r] = "rotating" /\ ~Locked(refresh[r])
  /\ \/ /\ session[refresh[r]] = "active" /\ Unused # {}
        /\ session' = [session EXCEPT ![Fresh] = "pending"]
        /\ family' = [family EXCEPT ![Fresh] = family[refresh[r]]]
        /\ issued' = [issued EXCEPT ![r] = Fresh]
        /\ MoveOn(r, "updated")
     \/ /\ session[refresh[r]] # "active"
        /\ MoveOn(r, "revoke")
        /\ UNCHANGED <<session, family, issued>>
     \/ /\ Unused = {}                    (* the bound: as a failure       *)
        /\ Reply(r, "503")
        /\ UNCHANGED <<session, family, issued>>
  /\ UNCHANGED <<replacedBy, clocks, redis, cookies, snapshot>>

Committed(r) ==
  /\ at[r] = "updated"
  /\ session' = [session EXCEPT ![issued[r]] = "active",
                                ![refresh[r]] = "revoked"]
  /\ replacedBy' = [replacedBy EXCEPT ![refresh[r]] = issued[r]]
  /\ UNCHANGED <<family, clocks, redis, cookies, issued, snapshot>>

Commit(r) == Committed(r) /\ Reply(r, "200")

(* The connection breaks while COMMIT is on its way.                       *)
CommitLost(r) == Committed(r) /\ Reply(r, "503")

Rollback(r) ==
  /\ at[r] = "updated"
  /\ session' = [session EXCEPT ![issued[r]] = "unused"]
  /\ family' = [family EXCEPT ![issued[r]] = 0]
  /\ issued' = [issued EXCEPT ![r] = 0]
  /\ Reply(r, "503")
  /\ UNCHANGED <<replacedBy, clocks, redis, cookies, snapshot>>

-----------------------------------------------------------------------------
(* Logout, and a change of password on another device.                     *)

NameAccessUnread(r) ==                   (* mutant: there may be no cookie *)
  /\ at[r] = "received" /\ kind[r] = "logout"
  /\ jtis' = jtis \cup ({access[r]} \ expired)
  /\ MoveOn(r, "named")
  /\ UNCHANGED <<rows, clocks, families, cookies, issued, snapshot>>

(* A token that still counts is blacklisted by its jti.                    *)
NameAccess(r) ==
  /\ at[r] = "received" /\ kind[r] = "logout"
  /\ jtis' = jtis \cup ({access[r]} \ ({0} \cup expired))
  /\ MoveOn(r, "named")
  /\ UNCHANGED <<rows, clocks, families, cookies, issued, snapshot>>

(* The family the cookies of a request name.  Both cookies are set and     *)
(* cleared together, and the refresh cookie lives longer.                  *)
Named(r) == {family[token] : token \in {refresh[r]} \ {0}}

NameRefresh(r) ==
  /\ at[r] = "named"
  /\ \/ Named(r) # {} /\ MoveOn(r, "revoke")
     \/ Named(r) = {} /\ Reply(r, "204")
  /\ UNCHANGED <<rows, clocks, redis, cookies, issued, snapshot>>

(* change_password after the new hash is stored; the device keeps its own  *)
(* family, which is none of the browser's.                                 *)
ChangePassword ==
  /\ at[Device] = "idle"
  /\ kind' = [kind EXCEPT ![Device] = "password"]
  /\ MoveOn(Device, "revoke")
  /\ UNCHANGED <<rows, clocks, redis, access, refresh, issued, snapshot>>

(* revoke_family(), revoke_user_sessions(): one UPDATE.  It sees the rows  *)
(* committed when it starts and waits for those a rotation has locked; a   *)
(* row it finds revoked then is left out.                                  *)
RevokeStart(r) ==
  /\ at[r] = "revoke"
  /\ snapshot' =
       [snapshot EXCEPT ![r] =
          {s \in Sessions : session[s] = "active"
                            /\ (kind[r] = "password" \/ family[s] \in Named(r))}]
  /\ MoveOn(r, "revoking")
  /\ UNCHANGED <<rows, clocks, redis, cookies, issued>>

RevokeEnd(r) ==
  /\ at[r] = "revoking"
  /\ \A s \in snapshot[r] : ~Locked(s)
  /\ snapshot' = [snapshot EXCEPT ![r] =
                    {s \in snapshot[r] : session[s] = "active"}]
  /\ session' = [s \in Sessions |-> IF s \in snapshot[r] THEN "revoked"
                                                         ELSE session[s]]
  /\ MoveOn(r, "blacklist")
  /\ UNCHANGED <<family, replacedBy, clocks, redis, cookies, issued>>

(* The families whose access tokens stop working at once.                  *)
Doomed(r) == IF kind[r] = "password" THEN {family[s] : s \in snapshot[r]}
                                     ELSE Named(r)

Blacklist(r) ==
  /\ at[r] = "blacklist"
  /\ families' = families \cup Doomed(r)
  /\ snapshot' = [snapshot EXCEPT ![r] = {}]
  /\ Reply(r, IF kind[r] = "refresh" THEN "401" ELSE "204")
  /\ UNCHANGED <<rows, clocks, jtis, cookies, issued>>

(* The database or Redis does not answer: nothing of the step happens.     *)
Fails(r) ==
  /\ at[r] \in {"received", "named", "rotating", "revoke", "revoking",
                "blacklist"}
  /\ Reply(r, "503")
  /\ snapshot' = [snapshot EXCEPT ![r] = {}]
  /\ UNCHANGED <<rows, clocks, redis, cookies, issued>>

-----------------------------------------------------------------------------
(* Time.  An access token expires before the session it was issued with.   *)

Expire(s) ==
  /\ session[s] \in {"active", "revoked"} /\ s \notin expired
  /\ expired' = expired \cup {s}
  /\ UNCHANGED <<rows, lapsed, redis, cookies, handlers>>

Lapse(s) ==
  /\ s \in expired \ lapsed
  /\ lapsed' = lapsed \cup {s}
  /\ UNCHANGED <<rows, expired, redis, cookies, handlers>>

Handles(r) ==
  \/ Resource(r) \/ Login(r) \/ FindToken(r) \/ Rotate(r) \/ Commit(r)
  \/ NameAccess(r) \/ NameRefresh(r) \/ RevokeStart(r) \/ Blacklist(r)

-----------------------------------------------------------------------------
(* Properties.                                                             *)

(* A family has one session that can be used, whatever requests with one   *)
(* token overlap: rotate() gives the token one replacement, and the rest   *)
(* of the family stays revoked.                                            *)
OneActivePerFamily ==
  \A s, u \in Sessions :
    session[s] = "active" /\ session[u] = "active" /\ family[s] = family[u]
      => s = u
=============================================================================
