--------------------------- MODULE Sessions_proofs ---------------------------
(***************************************************************************)
(* Proofs about Sessions, for any number of handlers, users and tokens and *)
(* any failures: its types, that no session is without its account, that   *)
(* none is of a password replaced before the last completed change, why    *)
(* one ends, and what fills the administrator's store.                     *)
(***************************************************************************)
EXTENDS Sessions, FiniteSetTheorems, TLAPS

Requests == LoginRequest \cup ChangeRequest \cup LogoutRequest \cup {None}

AdminIsThere == account[Admin] = AdminId

(* What the steps of a request have in common.                             *)
Entering(h) ==
  \/ \E a \in Accounts : Login(h, a)
  \/ \E t \in Tokens : PanelPassword(h, t) \/ AdminPass(h, t) \/ Logout(h, t)
  \/ \E t \in Tokens, u \in Users : ResetPanelPass(h, t, u)
  \/ \E u \in Users : Passwd(h, u)
  \/ AdminPasswd(h)

LEMMA NextSteps ==
  ASSUME Next
  PROVE  \/ \E u \in Users : AddUser(u) \/ DelUser(u)
         \/ \E t \in Tokens : Expired(t) \/ Expire(t)
         \/ \E h \in Handlers : \/ Entering(h) \/ Identify(h) \/ Find(h)
                                \/ Update(h) \/ Sweep(h) \/ DeleteSession(h) \/ CrashCli(h)
                                \/ \E t \in Tokens : CreateSession(h, t) \/ Create(h, t)
         \/ Restart
BY DEF Next, Entering

-----------------------------------------------------------------------------
(* Types.                                                                  *)

LEMMA ZeroIsId == AdminId \in Ids /\ None \notin Ids
BY BoundsAssumption, NoneAssumption DEF AdminId, Ids

(* Which kind a request is tells its fields.                               *)
LEMMA RequestKinds ==
  ASSUME TypeOK, NEW h \in Handlers
  PROVE  /\ request[h] \in Requests
         /\ Serves(h, "login") => request[h] \in LoginRequest
         /\ Serves(h, "change") => request[h] \in ChangeRequest
         /\ Serves(h, "logout") => request[h] \in LogoutRequest
BY DEF TypeOK, Requests, LoginRequest, ChangeRequest, LogoutRequest, Serves, Idle

LEMMA ChangeTypes ==
  ASSUME NEW name \in Accounts \cup {None}, NEW id \in Ids, NEW keep \in Tokens \cup {None},
         NEW at \in {"identify", "find", "update", "sweep"}, NEW cli \in BOOLEAN,
         at = "identify" \/ name \in Accounts
  PROVE  Change(name, id, keep, at, cli) \in Requests
BY DEF Change, Requests, ChangeRequest

(* A request begins: nothing else changes, and it has nothing to sweep.    *)
LEMMA EnteringBegins ==
  ASSUME TypeOK, NEW h \in Handlers, Entering(h)
  PROVE  /\ UNCHANGED <<account, lastId, session, half>>
         /\ Idle(h)
         /\ \E r \in Requests : /\ request' = [request EXCEPT ![h] = r]
                                /\ r.req = "change" => r.at # "sweep"
<1>0. account \in [Accounts -> Ids \cup {None}] /\ session \in [Tokens -> Session \cup {None}]
      /\ AdminId \in Ids /\ Admin \in Accounts /\ Users \subseteq Accounts
  BY ZeroIsId DEF TypeOK, Accounts
<1>1. CASE \E a \in Accounts : Login(h, a)
  <2>1. PICK a \in Accounts : Login(h, a)
    BY <1>1
  <2>2. [req |-> "login", id |-> account[a], by |-> "current"] \in LoginRequest
    BY <1>0, <2>1 DEF Login, LoginRequest, Standing
  <2>. QED
    <3>1. PICK r \in LoginRequest : request' = [request EXCEPT ![h] = r]
      BY <2>1, <2>2 DEF Login, Begin
    <3>. QED
      BY <2>1, <3>1 DEF Login, Begin, Requests, LoginRequest
<1>2. CASE \E t \in Tokens : PanelPassword(h, t) \/ AdminPass(h, t) \/ Logout(h, t)
  <2>1. PICK t \in Tokens : PanelPassword(h, t) \/ AdminPass(h, t) \/ Logout(h, t)
    BY <1>2
  <2>2. session[t].id \in Ids
    BY <1>0, <2>1 DEF PanelPassword, AdminPass, Logout, Enter, Open, OpenOf, Session
  <2>3. /\ Change(None, session[t].id, t, "identify", FALSE) \in Requests
        /\ Change(Admin, AdminId, t, "update", FALSE) \in Requests
    BY <1>0, <2>2, ChangeTypes
  <2>4. [req |-> "logout", id |-> session[t].id, keep |-> t] \in Requests
    BY <2>2 DEF Requests, LogoutRequest
  <2>. QED
    BY <2>1, <2>3, <2>4 DEF PanelPassword, AdminPass, Logout, Enter, Begin, Change
<1>3. CASE \E t \in Tokens, u \in Users : ResetPanelPass(h, t, u)
  <2>1. PICK t \in Tokens, u \in Users : ResetPanelPass(h, t, u)
    BY <1>3
  <2>2. Change(u, AdminId, None, "find", FALSE) \in Requests
    BY <1>0, ChangeTypes
  <2>. QED
    BY <2>1, <2>2 DEF ResetPanelPass, Enter, Begin, Change
<1>4. CASE \E u \in Users : Passwd(h, u)
  <2>1. PICK u \in Users : Passwd(h, u)
    BY <1>4
  <2>2. Change(u, AdminId, None, "find", TRUE) \in Requests
    BY <1>0, ChangeTypes
  <2>. QED
    BY <2>1, <2>2 DEF Passwd, Begin, Change
<1>5. CASE AdminPasswd(h)
  <2>1. Change(Admin, AdminId, None, "update", TRUE) \in Requests
    BY <1>0, ChangeTypes
  <2>. QED
    BY <1>5, <2>1 DEF AdminPasswd, Begin, Change
<1>. QED
  BY <1>1, <1>2, <1>3, <1>4, <1>5 DEF Entering

(* A lookup ends the request or takes it on, never to its sweep.           *)
LEMMA LookupSteps ==
  ASSUME TypeOK, NEW h \in Handlers, Identify(h) \/ Find(h)
  PROVE  /\ UNCHANGED <<account, lastId, session, half>>
         /\ Changes(h, "identify") \/ Changes(h, "find")
         /\ \E r \in Requests : /\ request' = [request EXCEPT ![h] = r]
                                /\ r = None \/ r.at # "sweep"
<1>0. request[h] \in ChangeRequest
  BY RequestKinds DEF Identify, Find, Changes
<1>1. CASE Identify(h)
  <2>1. \A u \in Users : [request[h] EXCEPT !.at = "find", !.name = u] \in ChangeRequest
    BY <1>0 DEF ChangeRequest, Accounts
  <2>2. \A u \in Users : [request[h] EXCEPT !.at = "find", !.name = u].at = "find"
    BY <1>0 DEF ChangeRequest
  <2>. QED
    BY <1>1, <2>1, <2>2 DEF Identify, Proceed, Finish, Requests
<1>2. CASE Find(h)
  <2>0. request[h].name \in Accounts /\ request[h].at = "find"
    BY <1>0, <1>2 DEF Find, Changes, ChangeRequest
  <2>. DEFINE next(a) == [request[h] EXCEPT !.at = "update", !.id = a]
  <2>1. \A a \in Ids : next(a) \in Requests /\ next(a).at = "update"
    BY <1>0, <2>0 DEF ChangeRequest, Requests
  <2>2. CASE Finish(h)
    BY <1>2, <2>0, <2>2 DEF Find, Changes, Finish, Proceed, Requests
  <2>3. CASE ~Finish(h)
    <3>1. /\ account[request[h].name] \in Ids
          /\ request' = [request EXCEPT ![h] = next(account[request[h].name])]
      BY <1>2, <2>0, <2>3 DEF Find, Proceed, TypeOK
    <3>. HIDE DEF next
    <3>. QED
      BY <1>2, <2>1, <3>1 DEF Find
  <2>. QED
    BY <2>2, <2>3
<1>. QED
  BY <1>1, <1>2

LEMMA ClosedType ==
  ASSUME TypeOK, NEW ts
  PROVE  Closed(ts) \in [Tokens -> Session \cup {None}]
BY DEF TypeOK, Closed

(* A login makes a session of the right type, whatever it closes first.    *)
LEMMA NewSessionType ==
  ASSUME NEW r \in LoginRequest
  PROVE  NewSession(r) \in Session
BY DEF NewSession, Session, LoginRequest, Standing

LEMMA MakeOldType ==
  ASSUME TypeOK, NEW id
  PROVE  MakeOld(id) \in [Tokens -> Session \cup {None}]
BY DEF TypeOK, MakeOld, OpenOf, Open, Session, Standing

LEMMA MakeLateType ==
  ASSUME NEW r \in Requests, NEW id
  PROVE  /\ MakeLate(id, r) \in Requests
         /\ r.req = "change" => MakeLate(id, r) = r
<1>1. CASE r # None /\ r.req = "login" /\ r.id = id
  <2>1. r \in LoginRequest
    BY <1>1 DEF Requests, LoginRequest, ChangeRequest, LogoutRequest
  <2>2. [r EXCEPT !.by = "late"] \in LoginRequest
    BY <2>1 DEF LoginRequest, Standing
  <2>. QED
    BY <1>1, <2>2 DEF MakeLate, Requests
<1>2. CASE ~(r # None /\ r.req = "login" /\ r.id = id)
  BY <1>2 DEF MakeLate
<1>. QED
  BY <1>1, <1>2

(* What a change writes: its own request is dropped or goes to its sweep.  *)
LEMMA UpdateStep ==
  ASSUME TypeOK, NEW h \in Handlers, Update(h)
  PROVE  /\ request' \in [Handlers -> Requests]
         /\ request[h] \in ChangeRequest /\ request[h].at = "update"
         /\ half' \subseteq Ids
         /\ \A g \in Handlers \ {h} : Changes(g, "sweep") => request'[g] = request[g]
         /\ \/ session' = session /\ half' = half
            \/ /\ session' = MakeOld(request[h].id)
               /\ \/ half' = half \cup {request[h].id}
                  \/ /\ half' = half
                     /\ request'[h] # None /\ request'[h].req = "change"
                     /\ request'[h].at = "sweep" /\ request'[h].id = request[h].id
<1>. DEFINE r == request[h]
            swept == [r EXCEPT !.at = "sweep"]
<1>0. r \in ChangeRequest /\ r.at = "update" /\ r.id \in Ids /\ half \subseteq Ids
      /\ request \in [Handlers -> Requests]
  BY RequestKinds DEF Update, Changes, TypeOK, ChangeRequest, Requests
<1>1. /\ swept \in ChangeRequest /\ swept.req = "change" /\ swept.at = "sweep"
      /\ swept.id = r.id
  BY <1>0 DEF ChangeRequest
<1>2. swept # None
  BY <1>1, ChangeAssumption
<1>3. \A g \in Handlers : /\ MakeLate(r.id, request[g]) \in Requests
                          /\ Changes(g, "sweep") => MakeLate(r.id, request[g]) = request[g]
  BY <1>0, MakeLateType DEF Changes, Serves
<1>4. None \in Requests /\ swept \in Requests
  BY <1>1 DEF Requests
<1>5. CASE Finish(h) /\ UNCHANGED <<session, half>>
  BY <1>0, <1>4, <1>5 DEF Finish, Proceed, Changes
<1>6. CASE ~(Finish(h) /\ UNCHANGED <<session, half>>)
  <2>. DEFINE last == r.name = Admin /\ r.cli
  <2>1. /\ session' = MakeOld(r.id)
        /\ request' = [g \in Handlers |-> IF g = h THEN IF last THEN None ELSE swept
                                          ELSE MakeLate(r.id, request[g])]
        /\ half' = IF last THEN half \cup {r.id} ELSE half
    BY <1>6 DEF Update
  <2>. HIDE DEF swept, last
  <2>. QED
    BY <1>0, <1>1, <1>2, <1>3, <1>4, <2>1
<1>. QED
  BY <1>5, <1>6

LEMMA TypeStep == TypeOK /\ [Next]_vars => TypeOK'
<1>. SUFFICES ASSUME TypeOK, [Next]_vars PROVE TypeOK'
  OBVIOUS
<1>0. None \in Requests /\ request \in [Handlers -> Requests]
  BY DEF Requests, TypeOK
<1>. USE DEF TypeOK
<1>1. CASE \E u \in Users : AddUser(u)
  BY <1>1, BoundsAssumption DEF AddUser, Ids, Accounts
<1>2. CASE \E u \in Users : DelUser(u)
  BY <1>2, ClosedType DEF DelUser, Accounts
<1>3. CASE \E t \in Tokens : Expired(t) \/ Expire(t)
  <2>1. CASE \E t \in Tokens : Expired(t)
    BY <2>1, ClosedType DEF Expired
  <2>2. CASE \E t \in Tokens : Expire(t)
    BY <2>2 DEF Expire, Open, Session
  <2>. QED
    BY <1>3, <2>1, <2>2
<1>4. ASSUME NEW h \in Handlers, Entering(h) \/ Identify(h) \/ Find(h) PROVE TypeOK'
  BY <1>0, <1>4, EnteringBegins, LookupSteps DEF Requests
<1>5. ASSUME NEW h \in Handlers, Update(h) PROVE TypeOK'
  BY <1>5, UpdateStep, MakeOldType DEF Update, Requests
<1>6. ASSUME NEW h \in Handlers, Sweep(h) PROVE TypeOK'
  <2>1. request[h].id \in Ids
    BY <1>6, RequestKinds DEF Sweep, Changes, ChangeRequest
  <2>2. session' \in [Tokens -> Session \cup {None}]
    BY <1>6 DEF Sweep, OpenOf, Open, Session, Standing
  <2>3. half' \subseteq Ids
    BY <1>6, <2>1 DEF Sweep
  <2>. QED
    BY <1>0, <1>6, <2>2, <2>3 DEF Sweep, Finish, Proceed, Requests
<1>7. ASSUME NEW h \in Handlers, DeleteSession(h) PROVE TypeOK'
  BY <1>0, <1>7, ClosedType DEF DeleteSession, Finish, Proceed, Requests
<1>8. ASSUME NEW h \in Handlers, NEW t \in Tokens, CreateSession(h, t) \/ Create(h, t)
      PROVE TypeOK'
  <2>1. NewSession(request[h]) \in Session
    BY <1>8, RequestKinds, NewSessionType DEF CreateSession, Create
  <2>2. session' \in [Tokens -> Session \cup {None}]
    BY <1>8, <2>1, ClosedType DEF CreateSession, Create
  <2>. QED
    BY <1>0, <1>8, <2>2 DEF CreateSession, Create, Finish, Proceed, Requests
<1>9. ASSUME NEW h \in Handlers, CrashCli(h) PROVE TypeOK'
  <2>1. Unswept({h}) \subseteq Ids
    BY RequestKinds DEF Unswept, Changes, ChangeRequest
  <2>. QED
    BY <1>0, <1>9, <2>1 DEF CrashCli, Finish, Proceed, Requests
<1>10. CASE Restart
  <2>1. \A hs \in SUBSET Handlers : Unswept(hs) \subseteq Ids
    BY RequestKinds DEF Unswept, Changes, ChangeRequest
  <2>. QED
    BY <1>0, <1>10, <2>1, ClosedType DEF Restart, Requests
<1>11. CASE UNCHANGED vars
  BY <1>11 DEF vars
<1>. QED
  BY <1>1, <1>2, <1>3, <1>4, <1>5, <1>6, <1>7, <1>8, <1>9, <1>10, <1>11, NextSteps

LEMMA TypeInit == Init => TypeOK
BY ZeroIsId DEF Init, TypeOK, Accounts, AdminId

(* Every variable of Sessions keeps its type: what a request has read,     *)
(* what a session records, and the ids of accounts made and deleted.       *)
THEOREM TypesKept == Spec => []TypeOK
BY TypeInit, TypeStep, PTL DEF Spec

-----------------------------------------------------------------------------
(* No session without its account.                                         *)

(* An open session that stays is still its account's.                      *)
SessionsOnlyClose ==
  \A t \in Tokens : session'[t] = None \/ (session[t] # None /\ session'[t].id = session[t].id)

LEMMA ClosedOnlyCloses ==
  ASSUME NEW ts, session' = Closed(ts) \/ session' = session
  PROVE  SessionsOnlyClose
BY DEF SessionsOnlyClose, Closed

LEMMA SweepOnlyCloses ==
  ASSUME TypeOK, NEW h \in Handlers, Sweep(h)
  PROVE  SessionsOnlyClose
BY DEF TypeOK, Sweep, SessionsOnlyClose, OpenOf, Open, Session

LEMMA MakeOldOnlyCloses ==
  ASSUME TypeOK, NEW id, session' = MakeOld(id)
  PROVE  SessionsOnlyClose
BY DEF TypeOK, MakeOld, SessionsOnlyClose, OpenOf, Open, Session

LEMMA AccountsKept ==
  ASSUME SessionsHaveAccounts, SessionsOnlyClose, UNCHANGED account
  PROVE  SessionsHaveAccounts'
BY DEF SessionsHaveAccounts, SessionsOnlyClose, Open, Exists

LEMMA AccountsStep ==
  ASSUME TypeOK, AdminIsThere, SessionsHaveAccounts, [Next]_vars
  PROVE  AdminIsThere' /\ SessionsHaveAccounts'
<1>1. ASSUME NEW u \in Users, AddUser(u) PROVE AdminIsThere' /\ SessionsHaveAccounts'
  <2>1. \A a \in Accounts : account[a] # None => account'[a] = account[a]
    BY <1>1 DEF AddUser, TypeOK
  <2>2. \A t \in Open : session[t].id # None
    BY ZeroIsId DEF TypeOK, Open, Session
  <2>. QED
    BY <1>1, <2>1, <2>2, ZeroIsId
       DEF AddUser, AdminIsThere, SessionsHaveAccounts, Open, Exists, Accounts
<1>2. ASSUME NEW u \in Users, DelUser(u) PROVE AdminIsThere' /\ SessionsHaveAccounts'
  <2>1. \A a \in Accounts : a # u => account'[a] = account[a]
    BY <1>2 DEF DelUser, TypeOK
  <2>2. \A t \in Tokens : session'[t] # None =>
          session[t] # None /\ session'[t] = session[t] /\ session[t].id # account[u]
    BY <1>2 DEF DelUser, Closed, OpenOf, Open
  <2>3. Admin # u
    BY AdminAssumption
  <2>. QED
    BY <2>1, <2>2, <2>3 DEF AdminIsThere, SessionsHaveAccounts, Open, Exists, Accounts
<1>3. ASSUME NEW t \in Tokens, Expired(t) \/ Expire(t)
      PROVE  AdminIsThere' /\ SessionsHaveAccounts'
  <2>1. SessionsOnlyClose
    BY <1>3, ClosedOnlyCloses DEF Expired, Expire, SessionsOnlyClose, TypeOK, Open, Session
  <2>. QED
    BY <1>3, <2>1, AccountsKept DEF Expired, Expire, AdminIsThere
<1>4. ASSUME NEW h \in Handlers, Entering(h) \/ Identify(h) \/ Find(h)
      PROVE  AdminIsThere' /\ SessionsHaveAccounts'
  BY <1>4, EnteringBegins, LookupSteps, ClosedOnlyCloses, AccountsKept DEF AdminIsThere
<1>5. ASSUME NEW h \in Handlers, Update(h) PROVE AdminIsThere' /\ SessionsHaveAccounts'
  BY <1>5, UpdateStep, MakeOldOnlyCloses, ClosedOnlyCloses, AccountsKept
     DEF Update, AdminIsThere
<1>6. ASSUME NEW h \in Handlers, Sweep(h) PROVE AdminIsThere' /\ SessionsHaveAccounts'
  BY <1>6, SweepOnlyCloses, AccountsKept DEF Sweep, AdminIsThere
<1>7. ASSUME NEW h \in Handlers, DeleteSession(h) \/ CrashCli(h)
      PROVE  AdminIsThere' /\ SessionsHaveAccounts'
  BY <1>7, ClosedOnlyCloses, AccountsKept DEF DeleteSession, CrashCli, AdminIsThere
<1>8. ASSUME NEW h \in Handlers, NEW t \in Tokens, CreateSession(h, t) \/ Create(h, t)
      PROVE  AdminIsThere' /\ SessionsHaveAccounts'
  <2>1. \A q \in Tokens : \/ session'[q] = None
                          \/ session[q] # None /\ session'[q] = session[q]
                          \/ session'[q] = NewSession(request[h]) /\ Exists(request[h].id)
    <3>. DEFINE new == NewSession(request[h])
                put(s) == [s EXCEPT ![t] = new]
    <3>0. /\ \A q \in Tokens : put(session)[q] = IF q = t THEN new ELSE session[q]
          /\ \A ts : \A q \in Tokens : put(Closed(ts))[q] = IF q = t THEN new ELSE Closed(ts)[q]
      BY DEF TypeOK, Closed
    <3>. HIDE DEF new
    <3>1. CASE CreateSession(h, t)
      BY <3>0, <3>1 DEF CreateSession, new
    <3>2. CASE Create(h, t)
      <4>1. Exists(request[h].id)
        BY <3>2 DEF Create, AdminIsThere, Exists, Accounts
      <4>. QED
        BY <3>0, <3>2, <4>1 DEF Create, Closed, new
    <3>. QED
      BY <1>8, <3>1, <3>2
  <2>2. NewSession(request[h]).id = request[h].id
    BY DEF NewSession
  <2>3. UNCHANGED account
    BY <1>8 DEF CreateSession, Create
  <2>. QED
    BY <2>1, <2>2, <2>3 DEF AdminIsThere, SessionsHaveAccounts, Open, Exists
<1>9. CASE Restart
  BY <1>9, ClosedOnlyCloses, AccountsKept DEF Restart, AdminIsThere
<1>10. CASE UNCHANGED vars
  BY <1>10, ClosedOnlyCloses, AccountsKept DEF vars, AdminIsThere
<1>. QED
  BY <1>1, <1>2, <1>3, <1>4, <1>5, <1>6, <1>7, <1>8, <1>9, <1>10, NextSteps

LEMMA AccountsInit == Init => AdminIsThere /\ SessionsHaveAccounts
BY DEF Init, AdminIsThere, SessionsHaveAccounts, Open, Accounts

(* The database's foreign key, with its cascade, and the administrator     *)
(* who is never deleted: no session of either store outlives its account.  *)
THEOREM NoSessionWithoutAccount == Spec => []SessionsHaveAccounts
<1>1. Init => TypeOK /\ AdminIsThere /\ SessionsHaveAccounts
  BY TypeInit, AccountsInit
<1>2. TypeOK /\ AdminIsThere /\ SessionsHaveAccounts /\ [Next]_vars
        => TypeOK' /\ AdminIsThere' /\ SessionsHaveAccounts'
  BY TypeStep, AccountsStep
<1>. QED
  BY <1>1, <1>2, PTL DEF Spec

-----------------------------------------------------------------------------
(* No session of an old password.                                          *)

(* Some change of the account's password has yet to close its sessions, or *)
(* the last one closed none.                                               *)
Unsettled(id) == id \in half \/ \E h \in Handlers : Changes(h, "sweep") /\ request[h].id = id

Current == \A t \in Open : session[t].by = "old" => Unsettled(session[t].id)

LEMMA CurrentIsInv == Current <=> SessionsAreCurrent
BY DEF Current, SessionsAreCurrent, Unsettled

(* Sessions that stay are no older, and what was unsettled stays so.       *)
LEMMA CurrentKept ==
  ASSUME Current,
         \A t \in Tokens : \/ session'[t] = None
                           \/ session'[t].by # "old"
                           \/ /\ session[t] # None
                              /\ session'[t].by = session[t].by /\ session'[t].id = session[t].id
                              /\ Unsettled(session[t].id) => Unsettled(session[t].id)'
  PROVE  Current'
BY DEF Current, Open

(* A step of a request that has nothing to sweep.                          *)
LEMMA UnsettledKept ==
  ASSUME TypeOK, NEW h \in Handlers, ~Changes(h, "sweep"), NEW r,
         request' = [request EXCEPT ![h] = r], half \subseteq half', NEW id, Unsettled(id)
  PROVE  Unsettled(id)'
BY DEF TypeOK, Unsettled, Changes, Serves, Idle

LEMMA CurrentStep ==
  ASSUME TypeOK, Current, [Next]_vars
  PROVE  Current'
<1>0. \A t \in Open : session[t] \in Session /\ session[t].id \in Ids
  BY DEF TypeOK, Open, Session
<1>1. ASSUME NEW u \in Users, AddUser(u) PROVE Current'
  BY <1>1 DEF AddUser, Current, Open, Unsettled, Changes, Serves, Idle
<1>2. ASSUME NEW u \in Users, DelUser(u) PROVE Current'
  <2>1. \A t \in Tokens : session'[t] # None =>
          session[t] # None /\ session'[t] = session[t] /\ session[t].id # account[u]
    BY <1>2 DEF DelUser, Closed, OpenOf, Open
  <2>2. \A id : id # account[u] /\ Unsettled(id) => Unsettled(id)'
    BY <1>2 DEF DelUser, Unsettled, Changes, Serves, Idle
  <2>. QED
    BY <2>1, <2>2, CurrentKept
<1>3. ASSUME NEW t \in Tokens, Expired(t) \/ Expire(t) PROVE Current'
  <2>1. \A id : Unsettled(id) => Unsettled(id)'
    BY <1>3 DEF Expired, Expire, Unsettled, Changes, Serves, Idle
  <2>2. \A q \in Tokens : session'[q] # None =>
          /\ session[q] # None
          /\ session'[q].by = session[q].by /\ session'[q].id = session[q].id
    BY <1>0, <1>3 DEF Expired, Expire, Closed, TypeOK, Open, Session
  <2>. QED
    BY <2>1, <2>2, CurrentKept
<1>4. ASSUME NEW h \in Handlers, Entering(h) \/ Identify(h) \/ Find(h) PROVE Current'
  <2>1. ~Changes(h, "sweep")
    BY <1>4, EnteringBegins, LookupSteps DEF Changes, Serves
  <2>2. /\ UNCHANGED <<session, half>>
        /\ \E r \in Requests : request' = [request EXCEPT ![h] = r]
    BY <1>4, EnteringBegins, LookupSteps
  <2>3. \A id : Unsettled(id) => Unsettled(id)'
    BY <2>1, <2>2, UnsettledKept
  <2>. QED
    BY <2>2, <2>3, CurrentKept DEF Open
<1>5. ASSUME NEW h \in Handlers, Update(h) PROVE Current'
  <2>0. ~Changes(h, "sweep")
    BY <1>5, UpdateStep DEF Changes
  <2>1. \A id : Unsettled(id) => Unsettled(id)'
    <3>1. SUFFICES ASSUME NEW g \in Handlers, Changes(g, "sweep") PROVE Changes(g, "sweep")'
                   /\ request'[g] = request[g]
      BY <1>5, UpdateStep DEF Unsettled
    <3>. QED
      BY <1>5, <2>0, <3>1, UpdateStep DEF Changes, Serves, Idle
  <2>2. CASE session' = session /\ half' = half
    BY <2>1, <2>2, CurrentKept DEF Open
  <2>3. CASE session' = MakeOld(request[h].id) /\ ~(session' = session /\ half' = half)
    <3>1. \A id : id = request[h].id => Unsettled(id)'
      BY <1>5, <2>3, UpdateStep DEF Unsettled, Changes, Serves, Idle
    <3>2. \A t \in Open : /\ session'[t].id = session[t].id
                          /\ session'[t].by = session[t].by \/ session[t].id = request[h].id
      BY <1>0, <2>3 DEF MakeOld, OpenOf, Open, Session
    <3>3. \A t \in Tokens : session'[t] # None => t \in Open
      BY <2>3 DEF MakeOld, OpenOf, Open
    <3>. QED
      BY <2>1, <3>1, <3>2, <3>3 DEF Current, Open
  <2>. QED
    BY <1>5, <2>2, <2>3, UpdateStep
<1>6. ASSUME NEW h \in Handlers, Sweep(h) PROVE Current'
  <2>0. request[h].id \in Ids
    BY <1>6, RequestKinds DEF Sweep, Changes, ChangeRequest
  <2>1. \A id : id # request[h].id /\ Unsettled(id) => Unsettled(id)'
    BY <1>6 DEF Sweep, Unsettled, Changes, Serves, Idle, Finish, Proceed, TypeOK
  <2>2. CASE session' = session
    <3>1. \/ \A id : id = request[h].id => Unsettled(id)'
          \/ \A t \in Open : session[t].id # request[h].id \/ session[t].by # "old"
      BY <1>6, <2>2 DEF Sweep, Unsettled, OpenOf, Open, TypeOK, Session
    <3>. QED
      BY <2>1, <2>2, <3>1 DEF Current, Open
  <2>3. CASE session' # session
    <3>1. \A t \in Tokens : \/ session'[t] = None
                            \/ session'[t].by # "old"
                            \/ /\ session[t] # None /\ session'[t] = session[t]
                               /\ session[t].id # request[h].id
      BY <1>0, <1>6, <2>3 DEF Sweep, OpenOf, Open, Session
    <3>. QED
      BY <2>1, <3>1, CurrentKept
  <2>. QED
    BY <2>2, <2>3
<1>7. ASSUME NEW h \in Handlers, DeleteSession(h) PROVE Current'
  <2>1. ~Changes(h, "sweep")
    BY <1>7 DEF DeleteSession, Changes, Serves
  <2>2. \A id : Unsettled(id) => Unsettled(id)'
    BY <1>7, <2>1, UnsettledKept DEF DeleteSession, Finish, Proceed
  <2>. QED
    BY <1>7, <2>2, CurrentKept DEF DeleteSession, Closed
<1>8. ASSUME NEW h \in Handlers, NEW t \in Tokens, CreateSession(h, t) \/ Create(h, t)
      PROVE  Current'
  <2>1. ~Changes(h, "sweep") /\ request[h] \in LoginRequest
    BY <1>8, RequestKinds DEF CreateSession, Create, Changes, Serves
  <2>2. \A id : Unsettled(id) => Unsettled(id)'
    BY <1>8, <2>1, UnsettledKept DEF CreateSession, Create, Finish, Proceed
  <2>3. NewSession(request[h]).by # "old"
    BY <2>1 DEF NewSession, LoginRequest
  <2>4. \A q \in Tokens : \/ session'[q] = None
                          \/ session[q] # None /\ session'[q] = session[q]
                          \/ session'[q] = NewSession(request[h])
    BY <1>8 DEF CreateSession, Create, Closed, TypeOK
  <2>. QED
    BY <2>2, <2>3, <2>4, CurrentKept
<1>9. ASSUME NEW h \in Handlers, CrashCli(h) PROVE Current'
  <2>1. \A id : Unsettled(id) => Unsettled(id)'
    BY <1>9 DEF CrashCli, Unsettled, Unswept, Changes, Serves, Idle, Finish, Proceed, TypeOK
  <2>. QED
    BY <1>9, <2>1, CurrentKept DEF CrashCli, Open
<1>10. CASE Restart
  <2>1. \A id : Unsettled(id) => Unsettled(id)'
    BY <1>10 DEF Restart, Unsettled, Unswept, Changes, Serves, Idle, TypeOK
  <2>. QED
    BY <1>10, <2>1, CurrentKept DEF Restart, Closed
<1>11. CASE UNCHANGED vars
  BY <1>11 DEF vars, Current, Open, Unsettled, Changes, Serves, Idle
<1>. QED
  BY <1>1, <1>2, <1>3, <1>4, <1>5, <1>6, <1>7, <1>8, <1>9, <1>10, <1>11, NextSteps

(* A completed change of password leaves no session of the old one, except *)
(* the login that was comparing with it and the session that asked.        *)
THEOREM RotationEndsSessions == Spec => []SessionsAreCurrent
<1>1. Init => TypeOK /\ Current
  BY TypeInit DEF Init, Current, Open
<1>2. TypeOK /\ Current /\ [Next]_vars => TypeOK' /\ Current'
  BY TypeStep, CurrentStep
<1>3. Current => SessionsAreCurrent
  BY CurrentIsInv
<1>. QED
  BY <1>1, <1>2, <1>3, PTL DEF Spec

-----------------------------------------------------------------------------
(* Why a session ends.                                                     *)

(* The steps that end none.                                                *)
Spares == \A t \in Open : session'[t] # None

LEMMA SparingSteps ==
  ASSUME TypeOK,
         \/ \E u \in Users : AddUser(u)
         \/ \E t \in Tokens : Expire(t)
         \/ \E h \in Handlers : \/ Entering(h) \/ Identify(h) \/ Find(h) \/ Update(h) \/ CrashCli(h)
                                \/ \E t \in Tokens : CreateSession(h, t)
  PROVE  Spares
<1>0. /\ session \in [Tokens -> Session \cup {None}]
      /\ \A t \in Open : t \in Tokens /\ session[t] \in Session /\ session[t] # None
  BY DEF TypeOK, Open
<1>1. CASE UNCHANGED session
  BY <1>0, <1>1 DEF Spares
<1>2. ASSUME NEW t \in Tokens, Expire(t) PROVE Spares
  <2>1. [session[t] EXCEPT !.expired = TRUE] \in Session
    BY <1>0, <1>2 DEF Expire, Session
  <2>. QED
    BY <1>0, <1>2, <2>1, SessionAssumption DEF Expire, Spares
<1>3. ASSUME NEW h \in Handlers, Update(h) PROVE Spares
  <2>1. \A t \in Open : [session[t] EXCEPT !.by = "old"] \in Session
    BY <1>0 DEF Session, Standing
  <2>2. \A id : \A t \in Open : MakeOld(id)[t] # None
    BY <1>0, <2>1, SessionAssumption DEF MakeOld
  <2>3. session' = session \/ session' = MakeOld(request[h].id)
    BY <1>3 DEF Update
  <2>. QED
    BY <1>0, <2>2, <2>3 DEF Spares
<1>4. ASSUME NEW h \in Handlers, NEW t \in Tokens, CreateSession(h, t) PROVE Spares
  <2>1. session' = session \/ session' = [session EXCEPT ![t] = NewSession(request[h])]
    BY <1>4 DEF CreateSession
  <2>2. t \notin Open
    BY <1>4 DEF CreateSession, Fresh, Open
  <2>. QED
    BY <1>0, <2>1, <2>2 DEF Spares
<1>. QED
  BY <1>1, <1>2, <1>3, <1>4, EnteringBegins, LookupSteps DEF AddUser, CrashCli

CausesOf(t) ==
  \/ session[t].expired
  \/ \E h \in Handlers : Serves(h, "logout") /\ request[h].keep = t
  \/ \E h \in Handlers : /\ Changes(h, "sweep")
                         /\ request[h].id = session[t].id /\ request[h].keep # t
  \/ \E a \in Accounts : account[a] = session[t].id /\ account'[a] = None
  \/ session[t].id = AdminId /\ \A h \in Handlers : request'[h] = None \/ IsCli(h)

LEMMA CauseOfEnd ==
  ASSUME TypeOK, [Next]_vars, NEW t \in Open, session'[t] = None
  PROVE  CausesOf(t)
<1>0. t \in Tokens /\ session[t] # None /\ session \in [Tokens -> Session \cup {None}]
  BY DEF TypeOK, Open
<1>1. ~Spares
  BY DEF Spares
<1>2. ASSUME NEW u \in Users, DelUser(u) PROVE CausesOf(t)
  <2>1. session[t].id = account[u] /\ u \in Accounts
    BY <1>0, <1>2 DEF DelUser, Closed, OpenOf, Accounts
  <2>2. account'[u] = None
    BY <1>2, <2>1 DEF DelUser, TypeOK
  <2>. QED
    BY <2>1, <2>2 DEF CausesOf
<1>3. ASSUME NEW q \in Tokens, Expired(q) PROVE CausesOf(t)
  BY <1>0, <1>3 DEF Expired, Closed, CausesOf
<1>4. ASSUME NEW h \in Handlers, Sweep(h) PROVE CausesOf(t)
  <2>1. Changes(h, "sweep") /\ session' # session
    BY <1>0, <1>4 DEF Sweep
  <2>2. session' = [q \in Tokens |-> IF q \notin OpenOf(request[h].id) THEN session[q]
                                     ELSE IF q # request[h].keep THEN None
                                     ELSE [session[q] EXCEPT !.by = "current"]]
    BY <1>4, <2>1 DEF Sweep
  <2>3. [session[t] EXCEPT !.by = "current"] \in Session
    BY <1>0 DEF Session, Standing
  <2>4. t \in OpenOf(request[h].id) /\ t # request[h].keep
    BY <1>0, <2>2, <2>3, SessionAssumption
  <2>. QED
    BY <2>1, <2>4 DEF OpenOf, CausesOf
<1>5. ASSUME NEW h \in Handlers, DeleteSession(h) PROVE CausesOf(t)
  <2>1. Serves(h, "logout") /\ (session' = session \/ session' = Closed({request[h].keep}))
    BY <1>5 DEF DeleteSession
  <2>. QED
    BY <1>0, <2>1 DEF Closed, CausesOf
<1>6. ASSUME NEW h \in Handlers, NEW q \in Tokens, Create(h, q) PROVE CausesOf(t)
  <2>1. session' = [Closed(Pruned) EXCEPT ![q] = NewSession(request[h])] /\ q # t
    BY <1>0, <1>6 DEF Create, Fresh
  <2>2. t \in Pruned
    BY <1>0, <2>1 DEF Closed
  <2>. QED
    BY <2>2 DEF Pruned, CausesOf
<1>7. CASE Restart
  <2>1. t \in OpenOf(AdminId)
    BY <1>0, <1>7 DEF Restart, Closed
  <2>2. \A h \in Handlers : request'[h] = None \/ IsCli(h)
    BY <1>7 DEF Restart
  <2>. QED
    BY <2>1, <2>2 DEF OpenOf, CausesOf
<1>8. CASE UNCHANGED vars
  BY <1>0, <1>8 DEF vars
<1>. QED
  BY <1>1, <1>2, <1>3, <1>4, <1>5, <1>6, <1>7, <1>8, SparingSteps, NextSteps

(* A session ends by its own logout, by expiry, by a change of its         *)
(* account's password that another session or a command asked for, with    *)
(* its account, or with the panel's process: never by what another account *)
(* does, however the requests of all of them interleave or fail.           *)
THEOREM SessionsEndForACause == Spec => EndsForACause
<1>1. TypeOK /\ [Next]_vars =>
        [\A t \in Open : session'[t] = None => CausesOf(t)]_vars
  BY CauseOfEnd
<1>2. TypeOK /\ [Next]_vars =>
        [\A t \in Open :
           session'[t] = None =>
             \/ session[t].expired
             \/ \E h \in Handlers : Serves(h, "logout") /\ request[h].keep = t
             \/ \E h \in Handlers : /\ Changes(h, "sweep")
                                    /\ request[h].id = session[t].id /\ request[h].keep # t
             \/ \E a \in Accounts : account[a] = session[t].id /\ account'[a] = None
             \/ session[t].id = AdminId /\ \A h \in Handlers : request'[h] = None \/ IsCli(h)]_vars
  BY <1>1 DEF CausesOf
<1>. QED
  BY <1>2, TypesKept, PTL DEF Spec, EndsForACause

-----------------------------------------------------------------------------
(* The administrator's store.                                              *)

Stored == {t \in Tokens : session'[t] # None /\ session'[t].id = AdminId}

(* Only a login of the administrator adds to it.                           *)
LEMMA OnlyCreateAdds ==
  ASSUME TypeOK, [Next]_vars, ~(Stored \subseteq Open)
  PROVE  \E h \in Handlers, t \in Tokens : Create(h, t)
<1>0. PICK t \in Tokens : session'[t] # None /\ session'[t].id = AdminId /\ session[t] = None
  BY DEF Stored, Open
<1>1. ~SessionsOnlyClose
  BY <1>0 DEF SessionsOnlyClose
<1>2. session' # session
  BY <1>0
<1>3. \A u \in Users : ~DelUser(u)
  BY <1>1, ClosedOnlyCloses DEF DelUser
<1>4. \A q \in Tokens : ~Expired(q) /\ ~Expire(q)
  <2>1. \A q \in Tokens : ~Expired(q)
    BY <1>1, ClosedOnlyCloses DEF Expired
  <2>2. ASSUME NEW q \in Tokens, Expire(q) PROVE FALSE
    <3>1. q # t /\ session' = [session EXCEPT ![q].expired = TRUE]
      BY <1>0, <2>2 DEF Expire, Open
    <3>. QED
      BY <1>0, <3>1 DEF TypeOK
  <2>. QED
    BY <2>1, <2>2
<1>5. ASSUME NEW h \in Handlers
      PROVE  ~Update(h) /\ ~Sweep(h) /\ ~DeleteSession(h) /\ ~CrashCli(h)
  <2>1. ~Update(h)
    BY <1>1, <1>2, MakeOldOnlyCloses DEF Update
  <2>2. ~Sweep(h)
    BY <1>1, SweepOnlyCloses
  <2>3. ~DeleteSession(h)
    BY <1>1, <1>2, ClosedOnlyCloses DEF DeleteSession
  <2>. QED
    BY <1>2, <2>1, <2>2, <2>3 DEF CrashCli
<1>6. ASSUME NEW h \in Handlers, NEW q \in Tokens, CreateSession(h, q)
      PROVE  FALSE
  <2>1. session' = [session EXCEPT ![q] = NewSession(request[h])] /\ request[h].id # AdminId
    BY <1>2, <1>6 DEF CreateSession
  <2>2. q = t
    BY <1>0, <2>1 DEF TypeOK
  <2>3. session'[t] = NewSession(request[h])
    BY <2>1, <2>2 DEF TypeOK
  <2>. QED
    BY <1>0, <2>1, <2>3 DEF NewSession
<1>7. ~Restart
  BY <1>1, ClosedOnlyCloses DEF Restart
<1>8. \A u \in Users : ~AddUser(u)
  BY <1>2 DEF AddUser
<1>9. \A h \in Handlers : ~Entering(h) /\ ~Identify(h) /\ ~Find(h)
  BY <1>2, EnteringBegins, LookupSteps
<1>10. Next
  BY <1>2 DEF vars
<1>. QED
  BY <1>3, <1>4, <1>5, <1>6, <1>7, <1>8, <1>9, <1>10, NextSteps

LEMMA FullOfLive ==
  ASSUME IsFiniteSet(Tokens), TypeOK, [Next]_vars, ~(Stored \subseteq Open),
         Cardinality(Stored) > MaxSessions, NEW q \in Stored
  PROVE  ~session'[q].expired
<1>1. PICK h \in Handlers, t \in Tokens : Create(h, t)
  BY OnlyCreateAdds
<1>2. session' = [Closed(Pruned) EXCEPT ![t] = NewSession(request[h])]
  BY <1>1 DEF Create
<1>3. session'[t] = NewSession(request[h])
      /\ \A p \in Tokens \ {t} : session'[p] = IF p \in Pruned THEN None ELSE session[p]
  BY <1>2 DEF Closed
<1>4. CASE q = t
  BY <1>3, <1>4 DEF NewSession
<1>5. CASE q # t
  <2>1. q \in Tokens /\ q \notin Pruned /\ q \in OpenOf(AdminId) /\ session'[q] = session[q]
    BY <1>3, <1>5 DEF Stored, OpenOf, Open
  <2>2. CASE Cardinality(OpenOf(AdminId)) >= MaxSessions
    BY <2>1, <2>2 DEF Pruned
  <2>3. CASE ~(Cardinality(OpenOf(AdminId)) >= MaxSessions)
    <3>1. Stored \subseteq OpenOf(AdminId) \cup {t}
      BY <1>3 DEF Stored, OpenOf, Open
    <3>2. IsFiniteSet(OpenOf(AdminId))
      BY FS_Subset DEF OpenOf, Open
    <3>3. /\ IsFiniteSet(OpenOf(AdminId) \cup {t})
          /\ Cardinality(OpenOf(AdminId) \cup {t}) <= Cardinality(OpenOf(AdminId)) + 1
      <4>. DEFINE S == OpenOf(AdminId)
      <4>1. IsFiniteSet(S) /\ Cardinality(S) \in Nat
        BY <3>2, FS_CardinalityType
      <4>. HIDE DEF S
      <4>2. /\ IsFiniteSet(S \cup {t})
            /\ Cardinality(S \cup {t}) = IF t \in S THEN Cardinality(S) ELSE Cardinality(S) + 1
        BY <4>1, FS_AddElement
      <4>3. Cardinality(S \cup {t}) <= Cardinality(S) + 1
        BY <4>1, <4>2
      <4>. QED
        BY <4>2, <4>3 DEF S
    <3>4. Cardinality(Stored) <= Cardinality(OpenOf(AdminId) \cup {t}) /\ IsFiniteSet(Stored)
      BY <3>1, <3>3, FS_Subset
    <3>5. /\ Cardinality(Stored) \in Nat /\ Cardinality(OpenOf(AdminId)) \in Nat
          /\ Cardinality(OpenOf(AdminId) \cup {t}) \in Nat
      BY <3>2, <3>3, <3>4, FS_CardinalityType
    <3>. QED
      BY <2>3, <3>3, <3>4, <3>5, BoundsAssumption
  <2>. QED
    BY <2>2, <2>3
<1>. QED
  BY <1>4, <1>5

(* sessionStore.create prunes what has expired before it goes past its      *)
(* bound, so a store that is larger holds live sessions only, whichever    *)
(* logins, expiries and changes came before.                               *)
THEOREM StoreIsOfLiveSessions ==
  ASSUME IsFiniteSet(Tokens)
  PROVE  Spec => FullOfLiveSessions
<1>1. TypeOK /\ [Next]_vars =>
        [LET stored == {t \in Tokens : session'[t] # None /\ session'[t].id = AdminId}
         IN (Cardinality(stored) > MaxSessions /\ ~(stored \subseteq Open)) =>
              \A t \in stored : ~session'[t].expired]_vars
  BY FullOfLive DEF Stored
<1>. QED
  BY <1>1, TypesKept, PTL DEF Spec, FullOfLiveSessions
=============================================================================
