------------------------------ MODULE Sessions ------------------------------
(***************************************************************************)
(* Sessions: who is logged in to the two panels, and what a change of      *)
(* password does to them (internal/db/session.go, internal/panel and       *)
(* internal/admin login, logout and password handlers,                     *)
(* Manager.ChangePanelPassword, `vps passwd`, `vps admin-passwd`).         *)
(*                                                                         *)
(* The users' sessions are rows of the database, which refer to the users  *)
(* table; the administrator's are in the memory of the panel process. A    *)
(* request is a run of statements with nothing held in between: a password *)
(* is compared with a hash read earlier, and a handler looks the user up   *)
(* again by name after the session gave it the row.                        *)
(***************************************************************************)
EXTENDS Integers, FiniteSets

CONSTANTS
  Handlers,     \* goroutines of the panel, and CLI commands
  Users,        \* names of users
  Admin,        \* the administrator
  Tokens,       \* random tokens: one that was closed is not seen again
  MaxSessions,  \* of the administrator's store: 2048 in the program
  MaxId,        \* bound on the users ever made
  None,         \* no account, session or request
  Faults        \* calls that may fail, out of FaultKinds

FaultKinds == {"db", "crash"}
ASSUME FaultsAssumption == Faults \subseteq FaultKinds
ASSUME AdminAssumption == Admin \notin Users
ASSUME NoneAssumption == None \notin Tokens /\ None \notin Nat
ASSUME BoundsAssumption == MaxSessions \in Nat /\ MaxId \in Nat

Accounts == Users \cup {Admin}
AdminId == 0

VARIABLES
  account,  \* the users table and the administrator's setting: an id each
  lastId,   \* AUTOINCREMENT: an id is not given twice
  session,  \* both stores of sessions
  request,  \* per handler: what it has read, at its next call
  half      \* history: ids whose last change of password closed no session

vars == <<account, lastId, session, request, half>>

Ids == 0..MaxId

(* Of a hash nothing matters but whether it has been replaced since a      *)
(* login compared with it: "current" if not, "old" if it was after the     *)
(* session's creation, "late" if it was before.                            *)
Standing == {"current", "old", "late"}
Session == [id : Ids, by : Standing, expired : BOOLEAN]
ASSUME SessionAssumption == None \notin Session
LoginRequest == [req : {"login"}, id : Ids, by : Standing \ {"old"}]
(* keep: the session that asks, if any; cli: a command, not the panel.     *)
ChangeRequest ==
  {r \in [req : {"change"}, name : Accounts \cup {None}, id : Ids, keep : Tokens \cup {None},
          cli : BOOLEAN, at : {"identify", "find", "update", "sweep"}] :
     r.at = "identify" \/ r.name \in Accounts}
ASSUME ChangeAssumption == None \notin ChangeRequest
LogoutRequest == [req : {"logout"}, id : Ids, keep : Tokens]

TypeOK ==
  /\ account \in [Accounts -> Ids \cup {None}]
  /\ lastId \in Ids
  /\ session \in [Tokens -> Session \cup {None}]
  /\ request \in [Handlers -> LoginRequest \cup ChangeRequest \cup LogoutRequest \cup {None}]
  /\ half \subseteq Ids

Init ==
  /\ account = [a \in Accounts |-> IF a = Admin THEN AdminId ELSE None]
  /\ lastId = 0
  /\ session = [t \in Tokens |-> None]
  /\ request = [h \in Handlers |-> None]
  /\ half = {}

-----------------------------------------------------------------------------
Idle(h) == request[h] = None
Serves(h, req) == ~Idle(h) /\ request[h].req = req
Changes(h, at) == Serves(h, "change") /\ request[h].at = at
Begin(h, r) == Idle(h) /\ request' = [request EXCEPT ![h] = r]
Proceed(h, r) == request' = [request EXCEPT ![h] = r]
Finish(h) == Proceed(h, None)

Exists(id) == \E a \in Accounts : account[a] = id
Open == {t \in Tokens : session[t] # None}
OpenOf(id) == {t \in Open : session[t].id = id}
Closed(ts) == [t \in Tokens |-> IF t \in ts THEN None ELSE session[t]]

(* A token that no browser and no request knows.                           *)
Fresh(t) == session[t] = None /\ \A h \in Handlers :
              ~Idle(h) /\ "keep" \in DOMAIN request[h] => request[h].keep # t

-----------------------------------------------------------------------------
(* The accounts come and go with `vps add` and `vps del`.                  *)
AddUser(u) ==
  /\ account[u] = None /\ lastId < MaxId
  /\ lastId' = lastId + 1
  /\ account' = [account EXCEPT ![u] = lastId + 1]
  /\ UNCHANGED <<session, request, half>>

DelUser(u) ==
  /\ account[u] # None
  /\ account' = [account EXCEPT ![u] = None]
  /\ session' = Closed(OpenOf(account[u]))
  /\ half' = half \ {account[u]}
  /\ UNCHANGED <<lastId, request>>

-----------------------------------------------------------------------------
(* handleLogin of either panel: the hash is read and the right password    *)
(* verified against it, then the session is made. (A wrong password, a     *)
(* name without a row and a client over its limit change nothing here.)    *)
Login(h, a) ==
  /\ account[a] # None
  /\ Begin(h, [req |-> "login", id |-> account[a], by |-> "current"])
  /\ UNCHANGED <<account, lastId, session, half>>

NewSession(r) == [id |-> r.id, by |-> r.by, expired |-> FALSE]

(* Mutant: sessions do not refer to the users table.                       *)
CreateSessionFreely(h, t) ==
  /\ Serves(h, "login") /\ request[h].id # AdminId /\ Fresh(t)
  /\ session' = [session EXCEPT ![t] = NewSession(request[h])]
  /\ Finish(h)
  /\ UNCHANGED <<account, lastId, half>>

(* CreateSession: a row, if the user it refers to is still there.          *)
CreateSession(h, t) ==
  /\ Serves(h, "login") /\ request[h].id # AdminId /\ Fresh(t)
  /\ \/ Exists(request[h].id) /\ session' = [session EXCEPT ![t] = NewSession(request[h])]
     \/ (~Exists(request[h].id) \/ "db" \in Faults) /\ UNCHANGED session
  /\ Finish(h)
  /\ UNCHANGED <<account, lastId, half>>

(* Mutant: the store looks when it is past its bound.                      *)
PrunedLate == LET stored == OpenOf(AdminId)
              IN IF Cardinality(stored) > MaxSessions THEN {t \in stored : session[t].expired}
                 ELSE {}

(* The administrator's store forgets what expired only when it is full,    *)
(* and takes the new one in any case.                                      *)
Pruned == LET stored == OpenOf(AdminId)
          IN IF Cardinality(stored) >= MaxSessions THEN {t \in stored : session[t].expired} ELSE {}

Create(h, t) ==
  /\ Serves(h, "login") /\ request[h].id = AdminId /\ Fresh(t)
  /\ session' = [Closed(Pruned) EXCEPT ![t] = NewSession(request[h])]
  /\ Finish(h)
  /\ UNCHANGED <<account, lastId, half>>

-----------------------------------------------------------------------------
(* requireAuth: a session that is stored and has not expired; an expired   *)
(* one is deleted as it is met. The user's row is the next statement.      *)
Enter(h, t, r) ==
  /\ Idle(h) /\ t \in Open /\ ~session[t].expired
  /\ Begin(h, r)
  /\ UNCHANGED <<account, lastId, session, half>>

Expired(t) ==
  /\ t \in Open /\ session[t].expired
  /\ session' = Closed({t})
  /\ UNCHANGED <<account, lastId, request, half>>

Change(name, id, keep, at, cli) ==
  [req |-> "change", name |-> name, id |-> id, keep |-> keep, at |-> at, cli |-> cli]

(* handlePanelPassword; Identify is SessionUser's second statement.        *)
PanelPassword(h, t) ==
  /\ t \in Open /\ session[t].id # AdminId
  /\ Enter(h, t, Change(None, session[t].id, t, "identify", FALSE))

Identify(h) ==
  /\ Changes(h, "identify")
  /\ \/ \E u \in Users :
          /\ account[u] = request[h].id
          /\ Proceed(h, [request[h] EXCEPT !.at = "find", !.name = u])
     \/ (~Exists(request[h].id) \/ "db" \in Faults) /\ Finish(h)
  /\ UNCHANGED <<account, lastId, session, half>>

(* The administrator's reset of a user's password, and `vps passwd`.       *)
ResetPanelPass(h, t, u) ==
  /\ t \in OpenOf(AdminId)
  /\ Enter(h, t, Change(u, AdminId, None, "find", FALSE))

Passwd(h, u) ==
  /\ Begin(h, Change(u, AdminId, None, "find", TRUE))
  /\ UNCHANGED <<account, lastId, session, half>>

(* handleAdminPass and `vps admin-passwd` write the setting at once.       *)
AdminPass(h, t) ==
  /\ t \in OpenOf(AdminId)
  /\ Enter(h, t, Change(Admin, AdminId, t, "update", FALSE))

AdminPasswd(h) ==
  /\ Begin(h, Change(Admin, AdminId, None, "update", TRUE))
  /\ UNCHANGED <<account, lastId, session, half>>

(* ChangePanelPassword looks the user up by name.                          *)
Find(h) ==
  /\ Changes(h, "find")
  /\ LET a == account[request[h].name]
     IN \/ a # None /\ Proceed(h, [request[h] EXCEPT !.at = "update", !.id = a])
        \/ (a = None \/ "db" \in Faults) /\ Finish(h)
  /\ UNCHANGED <<account, lastId, session, half>>

(* UpdatePassword, SetSetting: no row is no error. A login under way has   *)
(* compared with the hash this replaces. The command that changes the      *)
(* administrator's password is in a process without the store.             *)
MakeLate(id, r) == IF r # None /\ r.req = "login" /\ r.id = id THEN [r EXCEPT !.by = "late"] ELSE r
MakeOld(id) ==
  [t \in Tokens |-> IF t \in OpenOf(id) /\ session[t].by = "current"
                    THEN [session[t] EXCEPT !.by = "old"] ELSE session[t]]

Update(h) ==
  /\ Changes(h, "update")
  /\ LET r == request[h]
         last == r.name = Admin /\ r.cli
         next == IF last THEN None ELSE [r EXCEPT !.at = "sweep"]
     IN \/ /\ session' = MakeOld(r.id)
           /\ request' = [g \in Handlers |-> IF g = h THEN next ELSE MakeLate(r.id, request[g])]
           /\ half' = IF last THEN half \cup {r.id} ELSE half
        \/ "db" \in Faults /\ Finish(h) /\ UNCHANGED <<session, half>>
  /\ UNCHANGED <<account, lastId>>

(* Mutants: the sessions of every user are closed; none is.                *)
SweepEveryone(h) ==
  /\ Changes(h, "sweep")
  /\ session' = Closed({t \in Open : (session[t].id = AdminId) = (request[h].id = AdminId)}
                       \ {request[h].keep})
  /\ half' = half \ {request[h].id}
  /\ Finish(h)
  /\ UNCHANGED <<account, lastId>>

SweepNobody(h) ==
  /\ Changes(h, "sweep")
  /\ Finish(h)
  /\ UNCHANGED <<account, lastId, session, half>>

(* DeleteSessionsForUserExcept, clearExcept: the session that asked stays, *)
(* and is as good as one opened with the new password.                     *)
Sweep(h) ==
  /\ Changes(h, "sweep")
  /\ LET r == request[h]
     IN \/ /\ session' = [t \in Tokens |-> IF t \notin OpenOf(r.id) THEN session[t]
                                            ELSE IF t # r.keep THEN None
                                            ELSE [session[t] EXCEPT !.by = "current"]]
           /\ half' = half \ {r.id}
        \/ "db" \in Faults /\ r.id # AdminId /\ half' = half \cup {r.id} /\ UNCHANGED session
  /\ Finish(h)
  /\ UNCHANGED <<account, lastId>>

-----------------------------------------------------------------------------
(* handleLogout: an error is not looked at.                                *)
Logout(h, t) ==
  /\ t \in Open
  /\ Enter(h, t, [req |-> "logout", id |-> session[t].id, keep |-> t])

DeleteSession(h) ==
  /\ Serves(h, "logout")
  /\ \/ session' = Closed({request[h].keep})
     \/ "db" \in Faults /\ request[h].id # AdminId /\ UNCHANGED session
  /\ Finish(h)
  /\ UNCHANGED <<account, lastId, half>>

(* session_days pass.                                                      *)
Expire(t) ==
  /\ t \in Open /\ ~session[t].expired
  /\ session' = [session EXCEPT ![t].expired = TRUE]
  /\ UNCHANGED <<account, lastId, request, half>>

-----------------------------------------------------------------------------
(* A command dies, or the panel's process with all its requests and with   *)
(* the administrator's sessions (and starts again).                        *)
IsCli(h) == Serves(h, "change") /\ request[h].cli
Unswept(hs) == {request[h].id : h \in {g \in hs : Changes(g, "sweep")}}

CrashCli(h) ==
  /\ "crash" \in Faults /\ IsCli(h)
  /\ half' = half \cup Unswept({h})
  /\ Finish(h)
  /\ UNCHANGED <<account, lastId, session>>

Restart ==
  /\ "crash" \in Faults
  /\ LET panel == {h \in Handlers : ~IsCli(h)}
     IN /\ request' = [h \in Handlers |-> IF h \in panel THEN None ELSE request[h]]
        /\ half' = half \cup Unswept(panel)
  /\ session' = Closed(OpenOf(AdminId))
  /\ UNCHANGED <<account, lastId>>

Next ==
  \/ \E u \in Users : AddUser(u) \/ DelUser(u)
  \/ \E t \in Tokens : Expired(t) \/ Expire(t)
  \/ \E h \in Handlers :
       \/ \E a \in Accounts : Login(h, a)
       \/ \E t \in Tokens : \/ CreateSession(h, t) \/ Create(h, t)
                            \/ PanelPassword(h, t) \/ AdminPass(h, t) \/ Logout(h, t)
                            \/ \E u \in Users : ResetPanelPass(h, t, u)
       \/ \E u \in Users : Passwd(h, u)
       \/ AdminPasswd(h) \/ Identify(h) \/ Find(h) \/ Update(h) \/ Sweep(h) \/ DeleteSession(h)
       \/ CrashCli(h)
  \/ Restart

Spec == Init /\ [][Next]_vars

-----------------------------------------------------------------------------
(* "Every other admin session is now stale ... so a stolen/long-open       *)
(* session cannot outlive the rotation" (admin/handlers.go:428-429), and   *)
(* mgr.go:785-788 for users: with no change of its password at work, every *)
(* session of an account was opened with its present password or asked for *)
(* the last change -- but for a login that had read the old hash when it   *)
(* was replaced, and until a change completes after one that closed no     *)
(* session: it failed or died half-way, or was `vps admin-passwd`.         *)
SessionsAreCurrent ==
  \A t \in Open :
    (/\ session[t].id \notin half
     /\ \A h \in Handlers : Changes(h, "sweep") => request[h].id # session[t].id) =>
       session[t].by # "old"

(* No session outlives its user, and none appears for one who was deleted  *)
(* while logging in or whose name was given to another: the foreign key    *)
(* covers both sides (db.go:59-62).                                        *)
SessionsHaveAccounts == \A t \in Open : Exists(session[t].id)

(* A session ends by its own logout, by expiry, by a change of its         *)
(* account's password that it did not ask for itself, with its account, or *)
(* with the panel's process when it is the administrator's: never by what  *)
(* another account does (session.go:55-63, sessions.go:57-67).             *)
EndsForACause ==
  [][\A t \in Open :
       session'[t] = None =>
         \/ session[t].expired
         \/ \E h \in Handlers : Serves(h, "logout") /\ request[h].keep = t
         \/ \E h \in Handlers : /\ Changes(h, "sweep")
                                /\ request[h].id = session[t].id /\ request[h].keep # t
         \/ \E a \in Accounts : account[a] = session[t].id /\ account'[a] = None
         \/ session[t].id = AdminId /\ \A h \in Handlers : request'[h] = None \/ IsCli(h)]_vars

(* The store of admin sessions grows past its bound only by sessions that  *)
(* are all alive: those that expired and were never used again do not      *)
(* accumulate (sessions.go:36-38).                                         *)
FullOfLiveSessions ==
  [][LET stored == {t \in Tokens : session'[t] # None /\ session'[t].id = AdminId}
     IN (Cardinality(stored) > MaxSessions /\ ~(stored \subseteq Open)) =>
          \A t \in stored : ~session'[t].expired]_vars
=============================================================================
