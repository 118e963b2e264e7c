--------------------------- MODULE Domains_proofs ---------------------------
(***************************************************************************)
(* Proofs about Domains, for any handlers, users, domains and failures:    *)
(* its types with the constraints of the schema, that the table implements *)
(* Ownership, and that the files follow the table.                         *)
(***************************************************************************)
EXTENDS Domains, TLAPS

Requests == DomainRequest \cup PurgeRequest \cup SyncRequest \cup {None}
DomainKinds == {"add", "del", "set"}

(* Which kind a request is tells its fields.                               *)
LEMMA RequestKinds ==
  ASSUME TypeOK, NEW h \in Handlers, h \in Busy
  PROVE  /\ request[h].req \in DomainKinds => request[h] \in DomainRequest
         /\ request[h].req = "purge" => request[h] \in PurgeRequest
         /\ request[h].req = "sync" => request[h] \in SyncRequest
BY DEF TypeOK, DomainRequest, PurgeRequest, SyncRequest, Busy, Idle, DomainKinds

(* One request moves on: its handler's next value is of the right type.    *)
LEMMA RequestMoves ==
  ASSUME TypeOK, NEW h \in Handlers, NEW r \in Requests,
         request' = [request EXCEPT ![h] = r]
  PROVE  request' \in [Handlers -> Requests]
BY DEF TypeOK, Requests

LEMMA StepTypes ==
  ASSUME NEW at
  PROVE  /\ \A r \in DomainRequest : at \in {"row", "write", "rename", "undo", "remove"}
              => [r EXCEPT !.at = at] \in DomainRequest
         /\ \A r \in PurgeRequest : at \in {"cascade", "sessions", "remove"}
              => [r EXCEPT !.at = at] \in PurgeRequest
BY DEF DomainRequest, PurgeRequest

(* A request ends or goes to another of its steps.                         *)
LEMMA DomainStep ==
  ASSUME TypeOK, NEW h \in Handlers, request[h] \in DomainRequest,
         NEW at \in {"row", "write", "rename", "undo", "remove"},
         Finish(h) \/ GiveUp(h) \/ Goto(h, at)
  PROVE  request' \in [Handlers -> Requests] /\ drift' \subseteq DomainNames
<1>1. [request[h] EXCEPT !.at = at] \in Requests /\ None \in Requests
  BY StepTypes DEF Requests
<1>2. request' \in [Handlers -> Requests]
  BY <1>1, RequestMoves DEF Finish, GiveUp, Goto
<1>3. Reach(request[h]) \subseteq DomainNames
  BY DEF Reach, DomainRequest
<1>. QED
  BY <1>2, <1>3 DEF Finish, GiveUp, Goto, TypeOK

LEMMA ReachType == \A r \in DomainRequest \cup PurgeRequest \cup SyncRequest : Reach(r) \subseteq DomainNames
BY DEF Reach, DomainRequest, PurgeRequest, SyncRequest

LEMMA BeginTypes ==
  ASSUME TypeOK, NEW h \in Handlers, NEW r \in DomainRequest \cup PurgeRequest \cup SyncRequest,
         Begin(h, r)
  PROVE  request' \in [Handlers -> Requests] /\ drift' \subseteq DomainNames
<1>1. \A g \in Busy : request[g] \in DomainRequest \cup PurgeRequest \cup SyncRequest
  BY DEF TypeOK, Busy, Idle
<1>2. \A g \in Busy : request[g].req = "sync" => [request[g] EXCEPT !.clean = FALSE] \in Requests
  <2>1. \A q \in SyncRequest : [q EXCEPT !.clean = FALSE] \in SyncRequest
    BY DEF SyncRequest
  <2>. QED
    BY <2>1, RequestKinds DEF Requests, Busy
<1>3. request' \in [Handlers -> Requests]
  BY <1>2 DEF Begin, TypeOK, Requests, Busy
<1>4. \A g \in Busy : Meet(r, request[g]) \subseteq DomainNames
  BY <1>1, ReachType DEF Meet
<1>. QED
  BY <1>3, <1>4 DEF Begin, TypeOK

(* The constraints of the schema, on the table alone.                      *)
Constraints ==
  /\ rows \subseteq Row
  /\ \A r \in rows : r.user \in users
  /\ \A r, q \in rows : r.domain = q.domain \/ r.id = q.id => r = q

(* An INSERT: the foreign key and the UNIQUE column let it pass.           *)
LEMMA InsertKeeps ==
  ASSUME Constraints, NEW i \in FreshIds, NEW u \in users \cap Users, NEW d \in DomainNames,
         NEW on \in BOOLEAN, ~Bound(d), UNCHANGED users,
         rows' = rows \cup {[id |-> i, user |-> u, domain |-> d, proxy |-> on]}
  PROVE  Constraints'
BY DEF Constraints, Row, FreshIds, Bound

LEMMA DeleteKeeps ==
  ASSUME Constraints, rows' \subseteq rows, \A r \in rows' : r.user \in users'
  PROVE  Constraints'
BY DEF Constraints

LEMMA UpdateKeeps ==
  ASSUME Constraints, NEW i, NEW on \in BOOLEAN, rows' = Flagged(i, on), UNCHANGED users
  PROVE  Constraints'
<1>1. \A r \in rows : /\ [r EXCEPT !.proxy = on] \in Row
                      /\ [r EXCEPT !.proxy = on].id = r.id
                      /\ [r EXCEPT !.proxy = on].user = r.user
                      /\ [r EXCEPT !.proxy = on].domain = r.domain
  BY DEF Constraints, Row
<1>2. \A q \in rows' : \E r \in rows : q.id = r.id /\ q.user = r.user /\ q.domain = r.domain
                                      /\ q = (IF r.id = i THEN [r EXCEPT !.proxy = on] ELSE r)
  BY <1>1 DEF Flagged
<1>3. \A q \in rows' : q \in Row
  BY <1>1, <1>2 DEF Constraints
<1>4. \A q \in rows' : q.user \in users'
  BY <1>2 DEF Constraints
<1>5. ASSUME NEW p \in rows', NEW q \in rows', p.domain = q.domain \/ p.id = q.id
      PROVE  p = q
  <2>1. PICK r \in rows : p.id = r.id /\ p.domain = r.domain
                           /\ p = (IF r.id = i THEN [r EXCEPT !.proxy = on] ELSE r)
    BY <1>2
  <2>2. PICK t \in rows : q.id = t.id /\ q.domain = t.domain
                           /\ q = (IF t.id = i THEN [t EXCEPT !.proxy = on] ELSE t)
    BY <1>2
  <2>3. r = t
    BY <1>5, <2>1, <2>2 DEF Constraints
  <2>. QED
    BY <2>1, <2>2, <2>3
<1>. QED
  BY <1>3, <1>4, <1>5 DEF Constraints

Stores ==
  /\ yaml \in [DomainNames -> File \cup {None}]
  /\ tmp \in [DomainNames -> File \cup {None}]

LEMMA TypeParts ==
  TypeOK <=> /\ users \subseteq Users /\ Constraints /\ Stores
             /\ request \in [Handlers -> Requests] /\ drift \subseteq DomainNames
BY DEF TypeOK, Constraints, Stores, Requests

LEMMA NextTypeParts ==
  TypeOK' <=> /\ users' \subseteq Users /\ Constraints' /\ Stores'
              /\ request' \in [Handlers -> Requests] /\ drift' \subseteq DomainNames
BY DEF TypeOK, Constraints, Stores, Requests

LEMMA RenameKeeps ==
  ASSUME Stores, NEW d \in DomainNames, Renamed(d)
  PROVE  Stores'
BY DEF Stores, Renamed

(* One step per action that begins a request.                              *)
LEMMA ArriveTypes ==
  ASSUME TypeOK, NEW h \in Handlers, Arrive(h)
  PROVE  TypeOK'
<1>. USE TypeParts, NextTypeParts
<1>1. CASE SyncAllDomains(h)
  <2>1. [req |-> "sync", at |-> "write", user |-> None, known |-> {r.domain : r \in rows},
         todo |-> rows, now |-> None, files |-> {}, clean |-> Busy = {}] \in SyncRequest
    BY DEF SyncRequest, Constraints, Row
  <2>. QED
    BY <1>1, <2>1, BeginTypes DEF SyncAllDomains, Constraints, Stores
<1>2. ASSUME NEW u \in Users, Del(h, u) PROVE TypeOK'
  <2>1. PICK listed \in SUBSET DomainsOf(u) :
          Begin(h, [req |-> "purge", at |-> "cascade", user |-> u, todo |-> listed])
    BY <1>2 DEF Del
  <2>2. [req |-> "purge", at |-> "cascade", user |-> u, todo |-> listed] \in PurgeRequest
    BY DEF PurgeRequest, Constraints, Row, DomainsOf
  <2>. QED
    BY <1>2, <2>1, <2>2, BeginTypes DEF Del, Constraints, Stores
<1>3. ASSUME NEW u \in Users, NEW d \in DomainNames, DelDomain(h, u, d) PROVE TypeOK'
  <2>1. PICK r \in RowOf(u, d) :
          Begin(h, [req |-> "del", at |-> "row", user |-> u, domain |-> d, id |-> None,
                    proxy |-> r.proxy, old |-> r.proxy])
    BY <1>3 DEF DelDomain
  <2>2. [req |-> "del", at |-> "row", user |-> u, domain |-> d, id |-> None,
         proxy |-> r.proxy, old |-> r.proxy] \in DomainRequest
    BY DEF DomainRequest, Constraints, Row, RowOf
  <2>. QED
    BY <1>3, <2>1, <2>2, BeginTypes DEF DelDomain, Constraints, Stores
<1>4. ASSUME NEW u \in Users, NEW d \in DomainNames, NEW on \in BOOLEAN, AddDomain(h, u, d, on)
      PROVE  TypeOK'
  <2>1. PICK i \in FreshIds :
          /\ rows' = rows \cup {[id |-> i, user |-> u, domain |-> d, proxy |-> on]}
          /\ Begin(h, [req |-> "add", at |-> "write", user |-> u, domain |-> d, id |-> None,
                       proxy |-> on, old |-> on])
    BY <1>4 DEF AddDomain
  <2>2. [req |-> "add", at |-> "write", user |-> u, domain |-> d, id |-> None,
         proxy |-> on, old |-> on] \in DomainRequest
    BY DEF DomainRequest
  <2>3. Constraints'
    BY <1>4, <2>1, InsertKeeps DEF AddDomain
  <2>. QED
    BY <1>4, <2>1, <2>2, <2>3, BeginTypes DEF AddDomain, Stores
<1>5. ASSUME NEW u \in Users, NEW d \in DomainNames, NEW on \in BOOLEAN,
             SetDomainProtocol(h, u, d, on)
      PROVE  TypeOK'
  <2>1. PICK r \in RowOf(u, d) :
          Begin(h, [req |-> "set", at |-> "row", user |-> u, domain |-> d, id |-> r.id,
                    proxy |-> on, old |-> r.proxy])
    BY <1>5 DEF SetDomainProtocol
  <2>2. [req |-> "set", at |-> "row", user |-> u, domain |-> d, id |-> r.id,
         proxy |-> on, old |-> r.proxy] \in DomainRequest
    BY DEF DomainRequest, Constraints, Row, RowOf
  <2>. QED
    BY <1>5, <2>1, <2>2, BeginTypes DEF SetDomainProtocol, Constraints, Stores
<1>. QED
  BY <1>1, <1>2, <1>3, <1>4, <1>5 DEF Arrive

(* A step of a request on one domain.                                      *)
LEMMA ServesDomain ==
  ASSUME TypeOK, NEW h \in Handlers, NEW req \in DomainKinds, NEW at, Serves(h, req, at)
  PROVE  /\ request[h] \in DomainRequest /\ request[h].domain \in DomainNames
         /\ request[h].user \in Users
         /\ request[h].proxy \in BOOLEAN /\ request[h].old \in BOOLEAN
BY RequestKinds DEF Serves, Busy, DomainRequest

LEMMA DomainTypes ==
  ASSUME TypeOK, NEW h \in Handlers,
         \/ DelRow(h) \/ DelFile(h) \/ DelUndo(h)
         \/ SetRow(h) \/ WriteTmp(h) \/ RenameTmp(h) \/ AddUndo(h) \/ SetUndo(h)
  PROVE  TypeOK'
<1>. USE TypeParts, NextTypeParts, DomainStep DEF DomainKinds
<1>1. CASE DelRow(h)
  <2>1. request[h] \in DomainRequest
    BY <1>1, ServesDomain DEF DelRow
  <2>2. Constraints'
    BY <1>1, DeleteKeeps DEF DelRow, Constraints
  <2>. QED
    BY <1>1, <2>1, <2>2 DEF DelRow, Stores
<1>2. CASE DelFile(h)
  <2>1. request[h] \in DomainRequest
    BY <1>2, ServesDomain DEF DelFile
  <2>. QED
    BY <1>2, <2>1 DEF DelFile, Stores, Constraints
<1>3. CASE DelUndo(h)
  <2>1. request[h] \in DomainRequest /\ request[h].domain \in DomainNames
        /\ request[h].user \in Users /\ request[h].old \in BOOLEAN
    BY <1>3, ServesDomain DEF DelUndo
  <2>2. CASE /\ request[h].user \in users /\ ~Bound(request[h].domain)
             /\ \E i \in FreshIds :
                  rows' = rows \cup {[id |-> i, user |-> request[h].user,
                                      domain |-> request[h].domain, proxy |-> request[h].old]}
             /\ Finish(h)
    <3>1. Constraints'
      BY <1>3, <2>1, <2>2, InsertKeeps DEF DelUndo
    <3>. QED
      BY <1>3, <2>1, <2>2, <3>1 DEF DelUndo, Stores
  <2>3. CASE GiveUp(h) /\ UNCHANGED rows
    BY <1>3, <2>1, <2>3 DEF DelUndo, Stores, Constraints
  <2>. QED
    BY <1>3, <2>2, <2>3 DEF DelUndo
<1>4. CASE SetRow(h)
  <2>1. request[h] \in DomainRequest /\ request[h].proxy \in BOOLEAN
    BY <1>4, ServesDomain DEF SetRow
  <2>2. Constraints'
    BY <1>4, <2>1, UpdateKeeps DEF SetRow
  <2>. QED
    BY <1>4, <2>1, <2>2 DEF SetRow, Stores
<1>5. CASE WriteTmp(h)
  <2>1. request[h] \in DomainRequest /\ request[h].domain \in DomainNames
        /\ [user |-> request[h].user, proxy |-> request[h].proxy] \in File
    BY <1>5, ServesDomain DEF WriteTmp, File
  <2>. QED
    BY <1>5, <2>1 DEF WriteTmp, Stores, Constraints
<1>6. CASE RenameTmp(h)
  <2>1. request[h] \in DomainRequest /\ request[h].domain \in DomainNames
    BY <1>6, ServesDomain DEF RenameTmp
  <2>2. Stores'
    BY <1>6, <2>1, RenameKeeps DEF RenameTmp, Stores
  <2>. QED
    BY <1>6, <2>1, <2>2 DEF RenameTmp, Constraints
<1>7. CASE AddUndo(h)
  <2>1. request[h] \in DomainRequest
    BY <1>7, ServesDomain DEF AddUndo
  <2>2. Constraints'
    BY <1>7, DeleteKeeps DEF AddUndo, Constraints
  <2>. QED
    BY <1>7, <2>1, <2>2 DEF AddUndo, Stores
<1>8. CASE SetUndo(h)
  <2>1. request[h] \in DomainRequest /\ request[h].old \in BOOLEAN
    BY <1>8, ServesDomain DEF SetUndo
  <2>2. Constraints'
    BY <1>8, <2>1, UpdateKeeps DEF SetUndo, Constraints
  <2>. QED
    BY <1>8, <2>1, <2>2 DEF SetUndo, Stores
<1>. QED
  BY <1>1, <1>2, <1>3, <1>4, <1>5, <1>6, <1>7, <1>8

(* A step of a user's deletion or of a sync.                               *)
LEMMA ServesPurge ==
  ASSUME TypeOK, NEW h \in Handlers, NEW at, Serves(h, "purge", at)
  PROVE  request[h] \in PurgeRequest
BY RequestKinds DEF Serves, Busy

LEMMA ServesSync ==
  ASSUME TypeOK, NEW h \in Handlers, NEW at, Serves(h, "sync", at)
  PROVE  request[h] \in SyncRequest
BY RequestKinds DEF Serves, Busy

LEMMA PurgeTypes ==
  ASSUME TypeOK, NEW h \in Handlers,
         \/ DeleteUser(h) \/ DeleteSessionsForUser(h) \/ PurgeDone(h)
         \/ \E d \in DomainNames : PurgeFile(h, d)
  PROVE  TypeOK'
<1>. USE TypeParts, NextTypeParts
<1>1. CASE DeleteUser(h)
  <2>1. [request[h] EXCEPT !.at = "sessions"] \in Requests /\ None \in Requests
    BY <1>1, ServesPurge, StepTypes DEF DeleteUser, Requests
  <2>2. CASE /\ users' = users \ {request[h].user}
             /\ rows' = {r \in rows : r.user # request[h].user}
             /\ request' = [request EXCEPT ![h].at = "sessions"]
             /\ drift' = drift \cup (DomainsOf(request[h].user) \ request[h].todo)
    <3>1. request' \in [Handlers -> Requests]
      BY <2>1, <2>2, RequestMoves
    <3>2. Constraints'
      BY <2>2, DeleteKeeps DEF Constraints
    <3>3. drift' \subseteq DomainNames
      BY <2>2 DEF DomainsOf, Constraints, Row
    <3>. QED
      BY <1>1, <2>2, <3>1, <3>2, <3>3 DEF DeleteUser, Stores
  <2>3. CASE Finish(h) /\ UNCHANGED <<users, rows>>
    <3>1. request' \in [Handlers -> Requests]
      BY <2>1, <2>3, RequestMoves DEF Finish
    <3>. QED
      BY <1>1, <2>3, <3>1 DEF DeleteUser, Finish, Stores, Constraints
  <2>. QED
    BY <1>1, <2>2, <2>3 DEF DeleteUser
<1>4. CASE DeleteSessionsForUser(h)
  <2>1. request[h] \in PurgeRequest
    BY <1>4, ServesPurge DEF DeleteSessionsForUser
  <2>2. [request[h] EXCEPT !.at = "remove"] \in Requests /\ None \in Requests
    BY <2>1, StepTypes DEF Requests
  <2>3. request' \in [Handlers -> Requests]
    BY <1>4, <2>2, RequestMoves DEF DeleteSessionsForUser, Goto, GiveUp
  <2>4. drift' \subseteq DomainNames
    BY <1>4, <2>1, ReachType DEF DeleteSessionsForUser, Goto, GiveUp
  <2>. QED
    BY <1>4, <2>3, <2>4 DEF DeleteSessionsForUser, Stores, Constraints
<1>2. CASE PurgeDone(h)
  <2>1. request' \in [Handlers -> Requests]
    BY <1>2, RequestMoves DEF PurgeDone, Finish, Requests
  <2>. QED
    BY <1>2, <2>1 DEF PurgeDone, Finish, Stores, Constraints
<1>3. ASSUME NEW d \in DomainNames, PurgeFile(h, d) PROVE TypeOK'
  <2>1. request[h] \in PurgeRequest
    BY <1>3, ServesPurge DEF PurgeFile
  <2>2. [request[h] EXCEPT !.todo = @ \ {d}] \in Requests
    BY <2>1 DEF PurgeRequest, Requests
  <2>3. request' = [request EXCEPT ![h] = [request[h] EXCEPT !.todo = @ \ {d}]]
    BY <1>3 DEF PurgeFile
  <2>4. request' \in [Handlers -> Requests]
    BY <2>2, <2>3, RequestMoves
  <2>. QED
    BY <1>3, <2>4 DEF PurgeFile, Stores, Constraints
<1>. QED
  BY <1>1, <1>2, <1>3, <1>4

LEMMA SyncTypes ==
  ASSUME TypeOK, NEW h \in Handlers,
         \/ SyncList(h) \/ SyncDone(h) \/ SyncRename(h)
         \/ (\E d \in DomainNames : SyncRemove(h, d)) \/ (\E r \in Row : SyncWrite(h, r))
  PROVE  TypeOK'
<1>. USE TypeParts, NextTypeParts
<1>0. ASSUME NEW r \in SyncRequest, request' = [request EXCEPT ![h] = r]
      PROVE  request' \in [Handlers -> Requests]
  BY <1>0, RequestMoves DEF Requests
<1>1. CASE SyncList(h)
  <2>1. request[h] \in SyncRequest
    BY <1>1, ServesSync DEF SyncList
  <2>. DEFINE next == [request[h] EXCEPT !.at = "remove",
                         !.files = {d \in DomainNames : yaml[d] # None} \ request[h].known]
  <2>2. next \in SyncRequest /\ request' = [request EXCEPT ![h] = next]
    BY <1>1, <2>1 DEF SyncList, SyncRequest
  <2>3. request' \in [Handlers -> Requests]
    BY <1>0, <2>2
  <2>. QED
    BY <1>1, <2>3 DEF SyncList, Stores, Constraints
<1>2. CASE SyncDone(h)
  <2>1. request' \in [Handlers -> Requests]
    BY <1>2, RequestMoves DEF SyncDone, Requests
  <2>. QED
    BY <1>2, <2>1 DEF SyncDone, Stores, Constraints
<1>3. CASE SyncRename(h)
  <2>1. request[h] \in SyncRequest
    BY <1>3, ServesSync DEF SyncRename
  <2>. DEFINE next == [request[h] EXCEPT !.at = "write", !.now = None]
  <2>2. next \in SyncRequest /\ [next EXCEPT !.clean = FALSE] \in SyncRequest
    BY <2>1 DEF SyncRequest
  <2>3. request' \in [Handlers -> Requests]
    BY <1>0, <1>3, <2>2 DEF SyncRename
  <2>4. Stores'
    BY <1>3 DEF SyncRename, Stores, Renamed
  <2>. QED
    BY <1>3, <2>3, <2>4 DEF SyncRename, Constraints
<1>4. ASSUME NEW d \in DomainNames, SyncRemove(h, d) PROVE TypeOK'
  <2>1. request[h] \in SyncRequest
    BY <1>4, ServesSync DEF SyncRemove
  <2>. DEFINE next == [request[h] EXCEPT !.files = @ \ {d}]
              failed == [request[h] EXCEPT !.files = @ \ {d}, !.clean = FALSE]
  <2>2. next \in SyncRequest /\ failed \in SyncRequest
    BY <2>1 DEF SyncRequest
  <2>3. request' = [request EXCEPT ![h] = next] \/ request' = [request EXCEPT ![h] = failed]
    BY <1>4 DEF SyncRemove
  <2>4. request' \in [Handlers -> Requests]
    BY <1>0, <2>2, <2>3
  <2>. QED
    BY <1>4, <2>4 DEF SyncRemove, Stores, Constraints
<1>5. ASSUME NEW r \in Row, SyncWrite(h, r) PROVE TypeOK'
  <2>1. request[h] \in SyncRequest
    BY <1>5, ServesSync DEF SyncWrite
  <2>. DEFINE next == [request[h] EXCEPT !.at = "rename", !.todo = @ \ {r}, !.now = r]
              failed == [request[h] EXCEPT !.todo = @ \ {r}, !.clean = FALSE]
  <2>2. next \in SyncRequest /\ failed \in SyncRequest
    BY <2>1 DEF SyncRequest
  <2>3. request' = [request EXCEPT ![h] = next] \/ request' = [request EXCEPT ![h] = failed]
    BY <1>5 DEF SyncWrite
  <2>4. request' \in [Handlers -> Requests]
    BY <1>0, <2>2, <2>3
  <2>5. r.domain \in DomainNames /\ [user |-> r.user, proxy |-> r.proxy] \in File
    BY DEF Row, File
  <2>6. /\ UNCHANGED <<users, rows, yaml, drift>>
        /\ \/ \E f \in File : tmp' = [tmp EXCEPT ![r.domain] = f]
           \/ tmp' = tmp
    BY <1>5, <2>5 DEF SyncWrite
  <2>7. Stores'
    BY <2>5, <2>6 DEF Stores
  <2>. QED
    BY <2>4, <2>6, <2>7 DEF Constraints
<1>. QED
  BY <1>1, <1>2, <1>3, <1>4, <1>5

LEMMA NextTypes ==
  ASSUME TypeOK, [Next]_vars
  PROVE  TypeOK'
<1>1. ASSUME NEW u \in Users, CreateUser(u) PROVE TypeOK'
  BY <1>1 DEF CreateUser, TypeOK
<1>2. ASSUME NEW h \in Handlers, Continue(h) PROVE TypeOK'
  BY <1>2, DomainTypes, PurgeTypes, SyncTypes DEF Continue
<1>3. ASSUME NEW h \in Handlers, Crash(h) PROVE TypeOK'
  <2>1. request[h] \in DomainRequest \cup PurgeRequest \cup SyncRequest
    BY <1>3 DEF Crash, Idle, TypeOK
  <2>2. Reach(request[h]) \subseteq DomainNames
    BY <2>1, ReachType
  <2>. QED
    BY <1>3, <2>2 DEF Crash, GiveUp, TypeOK
<1>4. CASE UNCHANGED vars
  BY <1>4 DEF vars, TypeOK
<1>. QED
  BY <1>1, <1>2, <1>3, <1>4, ArriveTypes DEF Next

(* Every value has its type, and the constraints of the schema hold at     *)
(* every moment: the order in which requests insert, delete and put back   *)
(* rows never binds a domain twice or to an account that is gone           *)
(* (db/db.go:51-58, domain.go:20-125).                                     *)
THEOREM TableWellFormed == Spec => []TypeOK
<1>1. Init => TypeOK
  BY DEF Init, TypeOK
<1>. QED
  BY <1>1, NextTypes, PTL DEF Spec

-----------------------------------------------------------------------------
(* FilesFollowRows: the invariant it follows from. What is of one domain:  *)
(* its rows R (one at most), its file y and its temporary file t.          *)
RowsAt(d) == {r \in rows : r.domain = d}
Served(r) == [user |-> r.user, proxy |-> r.proxy]
Restored(r) == [user |-> r.user, proxy |-> r.old]
Fits(R, y) == (\A r \in R : y = Served(r)) /\ (R = {} => y = None)

(* What a request on one domain has done to it so far.                     *)
AddOn(r, R, y, t) ==
  /\ y = None /\ R # {} /\ \A q \in R : Served(q) = Served(r)
  /\ r.at = "rename" => t = Served(r)
DelOn(r, R, y) ==
  /\ y = Restored(r)
  /\ r.at = "row" => R # {} /\ \A q \in R : Served(q) = Restored(r)
  /\ r.at # "row" => R = {}
SetOn(r, R, y, t) ==
  /\ y = Restored(r) /\ R # {}
  /\ \A q \in R : q.id = r.id /\ Served(q) = IF r.at = "row" THEN Restored(r) ELSE Served(r)
  /\ r.at = "rename" => t = Served(r)

(* A purge lists domains of its user, and leaves them without a row.       *)
PurgeOn(r, d, R, y) ==
  d \in r.todo => IF r.at = "cascade" THEN Fits(R, y) /\ \A q \in R : q.user = r.user
                                     ELSE R = {}

(* What a sync has read of a domain is so still.                           *)
SyncReads(r, d, R, t) ==
  /\ \A q \in r.todo : q.domain = d => q \in R
  /\ R # {} <=> d \in r.known
  /\ r.at = "rename" /\ r.now.domain = d => r.now \in R /\ t = Served(r.now)
  /\ r.at = "remove" /\ d \in r.files => R = {}

(* What a sync that has met nothing has repaired.                          *)
SyncRepairs(r, d, R, y) ==
  /\ \A q \in R : q \in r.todo \/ (r.at = "rename" /\ q = r.now) \/ y = Served(q)
  /\ r.at = "remove" => r.todo = {} /\ (R = {} /\ y # None => d \in r.files)

On(r, d, R, y, t) ==
  /\ r.req = "add" /\ r.domain = d => AddOn(r, R, y, t)
  /\ r.req = "del" /\ r.domain = d => DelOn(r, R, y)
  /\ r.req = "set" /\ r.domain = d => SetOn(r, R, y, t)
  /\ r.req = "purge" => PurgeOn(r, d, R, y)
  /\ r.req = "sync" => SyncReads(r, d, R, t) /\ Fits(R, y)

(* Requests that meet on a domain have it in drift.                        *)
Apart == \A g, h \in Busy : g # h => Meet(request[g], request[h]) \subseteq drift

(* The id a request will update is of no row of another domain or account. *)
IdsKept == \A h \in Busy : request[h].req = "set" =>
             \A q \in rows : q.id = request[h].id =>
               q.domain = request[h].domain /\ q.user = request[h].user

Following(d) ==
  /\ \A h \in Busy : On(request[h], d, RowsAt(d), yaml[d], tmp[d])
  /\ (\A h \in Busy : d \notin Reach(request[h])) => Fits(RowsAt(d), yaml[d])

CleanSync == \A h \in Busy : request[h].req = "sync" /\ request[h].clean =>
               /\ Busy = {h}
               /\ \A d \in DomainNames : /\ SyncReads(request[h], d, RowsAt(d), tmp[d])
                                         /\ SyncRepairs(request[h], d, RowsAt(d), yaml[d])

FollowInv == /\ Apart /\ IdsKept /\ CleanSync
             /\ \A d \in DomainNames \ drift : Following(d)

Same(d) == UNCHANGED <<RowsAt(d), yaml[d], tmp[d]>>

(* A step of a request h: it ends or goes on, and the others stay.         *)
Onward(h) ==
  /\ h \in Busy
  /\ \A g \in Handlers : g # h => request'[g] = request[g]
  /\ request'[h] # None =>
       /\ request'[h].req = request[h].req /\ request'[h].user = request[h].user
       /\ Reach(request'[h]) \subseteq Reach(request[h])
       /\ request[h].req = "set" => /\ request'[h].id = request[h].id
                                    /\ request'[h].domain = request[h].domain

(* Its rows: as before but for the flag, or one it has inserted.           *)
Inserts(q, r) == q.id \in FreshIds /\ q.user = r.user /\ q.domain = r.domain
OldOrNew(q, r) == \/ \E p \in rows : p.id = q.id /\ p.domain = q.domain /\ p.user = q.user
                  \/ r.req \in DomainKinds /\ Inserts(q, r)

(* What is left to show of the request that makes the step.                *)
Mine(h) ==
  \A d \in DomainNames \ drift' :
    /\ request'[h] # None => On(request'[h], d, RowsAt(d)', yaml'[d], tmp'[d])
    /\ d \in Reach(request[h]) /\ (request'[h] = None \/ d \notin Reach(request'[h])) =>
         Fits(RowsAt(d)', yaml'[d])

MineClean(h) ==
  request'[h] # None /\ request'[h].req = "sync" /\ request'[h].clean =>
    /\ request[h].clean
    /\ \A d \in DomainNames : /\ SyncReads(request'[h], d, RowsAt(d)', tmp'[d])
                              /\ SyncRepairs(request'[h], d, RowsAt(d)', yaml'[d])

LEMMA FitsAgrees ==
  ASSUME TypeOK, NEW d \in DomainNames, Fits(RowsAt(d), yaml[d])
  PROVE  Agrees(d)
BY DEF Fits, RowsAt, Agrees, Bound, Served

LEMMA MeetLess ==
  ASSUME NEW r, NEW q, NEW s, NEW t, s.req = r.req, s.user = r.user, Reach(s) \subseteq Reach(r),
         t.req = q.req, t.user = q.user, Reach(t) \subseteq Reach(q)
  PROVE  Meet(s, t) \subseteq Meet(r, q)
BY DEF Meet

LEMMA ApartKept ==
  ASSUME NEW h \in Handlers, Onward(h), Apart, drift \subseteq drift'
  PROVE  Apart'
<1>1. \A g \in Busy' : /\ g \in Busy /\ g \in Handlers
                       /\ request'[g].req = request[g].req /\ request'[g].user = request[g].user
                       /\ Reach(request'[g]) \subseteq Reach(request[g])
  BY DEF Onward, Busy, Idle
<1>2. ASSUME NEW g \in Busy', NEW k \in Busy', g # k
      PROVE  Meet(request'[g], request'[k]) \subseteq drift'
  <2>1. Meet(request'[g], request'[k]) \subseteq Meet(request[g], request[k])
    BY <1>1, MeetLess
  <2>. QED
    BY <1>1, <1>2, <2>1 DEF Apart
<1>. QED
  BY <1>2 DEF Apart

LEMMA HasId ==
  ASSUME TypeOK, NEW g \in Busy, request[g].req \in DomainKinds
  PROVE  "id" \in DOMAIN request[g]
<1>1. request[g] \in DomainRequest
  BY RequestKinds DEF Busy
<1>. QED
  BY <1>1 DEF DomainRequest

LEMMA IdsStay ==
  ASSUME TypeOK, IdsKept, NEW h \in Handlers, Onward(h), \A q \in rows' : OldOrNew(q, request[h])
  PROVE  IdsKept'
<1>1. ASSUME NEW g \in Busy', request'[g].req = "set", NEW q \in rows', q.id = request'[g].id
      PROVE  q.domain = request'[g].domain /\ q.user = request'[g].user
  <2>1. /\ g \in Busy /\ request[g].req = "set" /\ request'[g].user = request[g].user
        /\ request'[g].id = request[g].id /\ request'[g].domain = request[g].domain
    BY <1>1 DEF Onward, Busy, Idle
  <2>2. "id" \in DOMAIN request[g]
    BY <2>1, HasId DEF DomainKinds
  <2>3. q.id \notin FreshIds
    BY <1>1, <2>1, <2>2 DEF FreshIds
  <2>4. PICK p \in rows : p.id = q.id /\ p.domain = q.domain /\ p.user = q.user
    BY <2>3 DEF OldOrNew, Inserts
  <2>. QED
    BY <1>1, <2>1, <2>4 DEF IdsKept
<1>. QED
  BY <1>1 DEF IdsKept

(* A request that does not reach a domain does not mind what another one,  *)
(* r, writes there.                                                        *)
LEMMA UnreachedOn ==
  ASSUME NEW r, \A q \in rows' : OldOrNew(q, r), NEW d, d \in Reach(r), d \in DomainNames,
         NEW s, d \notin Reach(s), d \notin Meet(r, s), On(s, d, RowsAt(d), yaml[d], tmp[d])
  PROVE  On(s, d, RowsAt(d)', yaml'[d], tmp'[d])
<1>1. s.req # "sync"
  BY DEF Reach
<1>2. ~(s.req \in DomainKinds /\ s.domain = d)
  BY DEF Reach, DomainKinds
<1>3. ASSUME s.req = "purge" PROVE PurgeOn(s, d, RowsAt(d)', yaml'[d])
  BY <1>3 DEF Reach, PurgeOn
<1>. QED
  BY <1>1, <1>2, <1>3 DEF On, DomainKinds

LEMMA OthersOn ==
  ASSUME TypeOK, Apart, NEW h \in Handlers, Onward(h), \A q \in rows' : OldOrNew(q, request[h]),
         NEW d \in DomainNames \ drift, d \in Reach(request[h]) \/ Same(d),
         NEW g \in Busy, g # h, On(request[g], d, RowsAt(d), yaml[d], tmp[d])
  PROVE  On(request'[g], d, RowsAt(d)', yaml'[d], tmp'[d])
<1>1. g \in Handlers /\ request'[g] = request[g]
  BY DEF Onward, Busy
<1>2. CASE Same(d)
  BY <1>1, <1>2 DEF Same
<1>3. CASE d \in Reach(request[h])
  <2>1. d \notin Meet(request[h], request[g])
    BY DEF Apart, Onward
  <2>2. d \notin Reach(request[g])
    BY <1>3, <2>1 DEF Meet
  <2>. QED
    BY <1>1, <1>3, <2>1, <2>2, UnreachedOn
<1>. QED
  BY <1>2, <1>3

(* A step of a request keeps the invariant if it keeps its own part of it  *)
(* and leaves the domains it does not reach.                               *)
LEMMA StepKeeps ==
  ASSUME TypeOK, FollowInv, NEW h \in Handlers, Onward(h), drift \subseteq drift',
         drift' \subseteq DomainNames,
         \A q \in rows' : OldOrNew(q, request[h]), Mine(h), MineClean(h),
         \A d \in DomainNames \ drift' : d \notin Reach(request[h]) => Same(d)
  PROVE  FollowInv'
<1>0. \A g \in Busy' : g \in Busy /\ g \in Handlers /\ (g # h => request'[g] = request[g])
  BY DEF Onward, Busy, Idle
<1>00. \A g \in Handlers : g \in Busy' <=> request'[g] # None
  BY DEF Busy, Idle
<1>01. h \in Busy /\ \A g \in Busy : g # h => g \in Handlers /\ g \in Busy'
  BY DEF Onward, Busy, Idle
<1>1. Apart' /\ IdsKept'
  BY ApartKept, IdsStay DEF FollowInv
<1>2. CleanSync'
  <2>1. ASSUME NEW g \in Busy', request'[g].req = "sync", request'[g].clean
        PROVE  g = h /\ request[h].clean /\ request[h].req = "sync"
    <3>1. g # h => Busy = {g}
      BY <1>0, <2>1 DEF FollowInv, CleanSync
    <3>2. g = h
      BY <1>01, <3>1
    <3>. QED
      BY <1>00, <1>0, <2>1, <3>2 DEF MineClean, Onward
  <2>2. ASSUME NEW g \in Busy', request'[g].req = "sync", request'[g].clean
        PROVE  Busy' = {g}
    BY <1>0, <1>01, <2>1, <2>2 DEF FollowInv, CleanSync
  <2>3. ASSUME NEW g \in Busy', request'[g].req = "sync", request'[g].clean, NEW d \in DomainNames
        PROVE  /\ SyncReads(request'[g], d, RowsAt(d)', tmp'[d])
               /\ SyncRepairs(request'[g], d, RowsAt(d)', yaml'[d])
    BY <1>00, <1>0, <2>1, <2>3 DEF MineClean
  <2>. QED
    BY <2>2, <2>3 DEF CleanSync
<1>3. ASSUME NEW d \in DomainNames \ drift' PROVE Following(d)'
  <2>1. d \in DomainNames \ drift /\ Following(d)
    BY DEF FollowInv
  <2>2. ASSUME NEW g \in Busy' PROVE On(request'[g], d, RowsAt(d)', yaml'[d], tmp'[d])
    <3>1. CASE g = h
      BY <1>00, <2>2, <3>1 DEF Mine
    <3>2. CASE g # h
      <4>1. On(request[g], d, RowsAt(d), yaml[d], tmp[d])
        BY <1>0, <2>1 DEF Following
      <4>. QED
        BY <1>0, <2>1, <3>2, <4>1, OthersOn DEF FollowInv
    <3>. QED
      BY <3>1, <3>2
  <2>3. ASSUME \A g \in Busy' : d \notin Reach(request'[g])
        PROVE  Fits(RowsAt(d)', yaml'[d])
    <3>1. CASE d \in Reach(request[h])
      BY <1>00, <2>3, <3>1 DEF Mine
    <3>2. CASE d \notin Reach(request[h])
      <4>1. \A g \in Busy : d \notin Reach(request[g])
        BY <1>0, <1>01, <2>3, <3>2
      <4>. QED
        BY <2>1, <3>2, <4>1 DEF Following, Same
    <3>. QED
      BY <3>1, <3>2
  <2>. QED
    BY <2>2, <2>3 DEF Following
<1>. QED
  BY <1>1, <1>2, <1>3 DEF FollowInv

(* The same for a step of a request on one domain.                         *)
LEMMA DomainStepKeeps ==
  ASSUME TypeOK, TypeOK', FollowInv, NEW h \in Handlers, request[h] \in DomainRequest,
         NEW at \in {"row", "write", "rename", "undo", "remove"},
         Finish(h) \/ GiveUp(h) \/ Goto(h, at),
         \A q \in rows' : OldOrNew(q, request[h]),
         NEW d \in DomainNames, d = request[h].domain,
         \A e \in DomainNames : e # d => Same(e),
         d \notin drift' /\ Finish(h) => Fits(RowsAt(d)', yaml'[d]),
         d \notin drift' /\ Goto(h, at) =>
           On([request[h] EXCEPT !.at = at], d, RowsAt(d)', yaml'[d], tmp'[d])
  PROVE  FollowInv'
<1>. DEFINE r == request[h]
            s == [request[h] EXCEPT !.at = at]
<1>1. /\ r \in DomainRequest /\ s.req = r.req /\ s.user = r.user /\ s.id = r.id
      /\ s.domain = r.domain
      /\ r.req \in DomainKinds
  BY DEF DomainRequest, DomainKinds
<1>2. r # None /\ h \in Busy
  BY RequestAssumption DEF Busy, Idle
<1>3. Reach(r) = {d} /\ Reach(s) = {d}
  BY <1>1 DEF Reach, DomainKinds
<1>4. request'[h] = None \/ request'[h] = s
  BY DEF Finish, GiveUp, Goto, TypeOK
<1>5. \A g \in Handlers : g # h => request'[g] = request[g]
  BY DEF Finish, GiveUp, Goto, TypeOK
<1>6. Onward(h)
  BY <1>1, <1>2, <1>3, <1>4, <1>5 DEF Onward
<1>7. drift \subseteq drift' /\ drift' \subseteq DomainNames
  BY DEF Finish, GiveUp, Goto, TypeOK
<1>8. MineClean(h)
  BY <1>1, <1>4 DEF MineClean, DomainKinds
<1>9. Mine(h)
  <2>1. ASSUME NEW e \in DomainNames \ drift', request'[h] # None
        PROVE  On(request'[h], e, RowsAt(e)', yaml'[e], tmp'[e])
    <3>1. request'[h] = s
      BY <1>4, <2>1
    <3>2. CASE e = d
      <4>1. Goto(h, at)
        BY <2>1 DEF Finish, GiveUp, TypeOK
      <4>. QED
        BY <2>1, <3>1, <3>2, <4>1
    <3>3. CASE e # d
      BY <1>1, <3>1, <3>3 DEF On, DomainKinds
    <3>. QED
      BY <3>2, <3>3
  <2>2. ASSUME NEW e \in DomainNames \ drift', e \in Reach(request[h]),
               request'[h] = None \/ e \notin Reach(request'[h])
        PROVE  Fits(RowsAt(e)', yaml'[e])
    <3>1. e = d /\ request'[h] = None
      BY <1>3, <1>4, <2>2
    <3>2. ~GiveUp(h)
      BY <1>3, <2>2 DEF GiveUp
    <3>3. s # None
      BY StepTypes, RequestAssumption
    <3>4. ~Goto(h, at)
      BY <3>1, <3>3 DEF Goto, TypeOK
    <3>. QED
      BY <2>2, <3>1, <3>2, <3>4
  <2>. QED
    BY <2>1, <2>2 DEF Mine
<1>. QED
  BY <1>2, <1>3, <1>6, <1>7, <1>8, <1>9, StepKeeps

(* What the writes of the table do to the rows of each domain.             *)
LEMMA RowsInserted ==
  ASSUME NEW q, NEW r, NEW d, q.domain = d, Inserts(q, r), r.req \in DomainKinds, ~Bound(d),
         rows' = rows \cup {q}
  PROVE  /\ \A p \in rows' : OldOrNew(p, r)
         /\ \A e : e # d => RowsAt(e)' = RowsAt(e)
         /\ RowsAt(d)' = {q}
<1>1. \A p \in rows' : OldOrNew(p, r)
  BY DEF OldOrNew
<1>2. \A e : RowsAt(e)' = RowsAt(e) \cup {p \in {q} : p.domain = e}
  BY DEF RowsAt
<1>3. RowsAt(d) = {}
  BY DEF RowsAt, Bound
<1>. QED
  BY <1>1, <1>2, <1>3

LEMMA RowsDropped ==
  ASSUME NEW r, rows' \subseteq rows
  PROVE  \A q \in rows' : OldOrNew(q, r)
BY DEF OldOrNew

LEMMA RowsFlagged ==
  ASSUME TypeOK, NEW r, NEW i, NEW d, NEW on, \A q \in rows : q.id = i => q.domain = d,
         rows' = Flagged(i, on)
  PROVE  /\ \A q \in rows' : OldOrNew(q, r)
         /\ \A e : e # d => RowsAt(e)' = RowsAt(e)
         /\ \A q \in RowsAt(d)' : \E p \in RowsAt(d) :
              /\ q.id = p.id /\ q.user = p.user
              /\ p.id = i => q.proxy = on
         /\ RowsAt(d) # {} => RowsAt(d)' # {}
<1>. DEFINE F(q) == IF q.id = i THEN [q EXCEPT !.proxy = on] ELSE q
<1>1. \A q \in rows : /\ F(q).id = q.id /\ F(q).user = q.user /\ F(q).domain = q.domain
                      /\ q.id = i => F(q).proxy = on
                      /\ q.domain # d => F(q) = q
  BY DEF TypeOK, Row
<1>2. rows' = {F(q) : q \in rows}
  BY DEF Flagged
<1>. HIDE DEF F
<1>3. \A q \in rows' : OldOrNew(q, r)
  BY <1>1, <1>2 DEF OldOrNew
<1>4. ASSUME NEW e, e # d PROVE RowsAt(e)' = RowsAt(e)
  <2>1. \A q \in RowsAt(e) : q \in rows' /\ q.domain = e
    <3>1. \A q \in RowsAt(e) : q \in rows /\ q.domain = e
      BY DEF RowsAt
    <3>2. \A q \in RowsAt(e) : F(q) = q
      BY <1>1, <1>4, <3>1
    <3>. QED
      BY <1>2, <3>1, <3>2
  <2>2. ASSUME NEW q \in rows', q.domain = e PROVE q \in rows
    <3>1. PICK p \in rows : q = F(p)
      BY <1>2, <2>2
    <3>2. p.domain = e
      BY <1>1, <2>2, <3>1
    <3>. QED
      BY <1>1, <1>4, <3>1, <3>2
  <2>. QED
    BY <2>1, <2>2 DEF RowsAt
<1>5. ASSUME NEW q \in RowsAt(d)'
      PROVE  \E p \in RowsAt(d) : q.id = p.id /\ q.user = p.user /\ (p.id = i => q.proxy = on)
  <2>1. q \in rows' /\ q.domain = d
    BY <1>5 DEF RowsAt
  <2>2. PICK p \in rows : q = F(p)
    BY <1>2, <2>1
  <2>3. p \in RowsAt(d)
    BY <1>1, <2>1, <2>2 DEF RowsAt
  <2>. QED
    BY <1>1, <2>2, <2>3
<1>6. ASSUME NEW p \in RowsAt(d) PROVE F(p) \in RowsAt(d)'
  <2>1. p \in rows /\ p.domain = d
    BY <1>6 DEF RowsAt
  <2>2. F(p) \in rows' /\ F(p).domain = d
    BY <1>1, <1>2, <2>1
  <2>. QED
    BY <2>2 DEF RowsAt
<1>. QED
  BY <1>3, <1>4, <1>5, <1>6

(* What the invariant says of the domain of a request.                     *)
LEMMA OwnOn ==
  ASSUME TypeOK, FollowInv, NEW h \in Handlers, NEW at, NEW req \in DomainKinds,
         Serves(h, req, at), NEW d, d = request[h].domain, d \notin drift
  PROVE  /\ req = "add" => AddOn(request[h], RowsAt(d), yaml[d], tmp[d])
         /\ req = "del" => DelOn(request[h], RowsAt(d), yaml[d])
         /\ req = "set" => SetOn(request[h], RowsAt(d), yaml[d], tmp[d])
<1>1. d \in DomainNames /\ h \in Busy
  BY ServesDomain DEF Serves, Busy
<1>2. On(request[h], d, RowsAt(d), yaml[d], tmp[d])
  BY <1>1 DEF FollowInv, Following
<1>. QED
  BY <1>2 DEF On, Serves

LEMMA AtFields ==
  ASSUME NEW r \in DomainRequest, NEW at
  PROVE  /\ [r EXCEPT !.at = at].req = r.req /\ [r EXCEPT !.at = at].at = at
         /\ [r EXCEPT !.at = at].id = r.id /\ [r EXCEPT !.at = at].domain = r.domain
         /\ Served([r EXCEPT !.at = at]) = Served(r)
         /\ Restored([r EXCEPT !.at = at]) = Restored(r)
BY DEF DomainRequest, Served, Restored

(* A request on one domain ends, goes on, or leaves its domain to drift.   *)
LEMMA FinishKeeps ==
  ASSUME TypeOK, TypeOK', FollowInv, NEW h \in Handlers, request[h] \in DomainRequest, Finish(h),
         \A q \in rows' : OldOrNew(q, request[h]),
         NEW d \in DomainNames, d = request[h].domain,
         \A e \in DomainNames : e # d => Same(e),
         d \notin drift => Fits(RowsAt(d)', yaml'[d])
  PROVE  FollowInv'
<1>1. ~Goto(h, "row")
  <2>1. [request[h] EXCEPT !.at = "row"] # None
    BY StepTypes, RequestAssumption
  <2>. QED
    BY <2>1 DEF Finish, Goto, TypeOK
<1>. QED
  BY <1>1, DomainStepKeeps DEF Finish

LEMMA GotoKeeps ==
  ASSUME TypeOK, TypeOK', FollowInv, NEW h \in Handlers, request[h] \in DomainRequest,
         NEW at \in {"row", "write", "rename", "undo", "remove"}, Goto(h, at),
         \A q \in rows' : OldOrNew(q, request[h]),
         NEW d \in DomainNames, d = request[h].domain,
         \A e \in DomainNames : e # d => Same(e),
         d \notin drift => On([request[h] EXCEPT !.at = at], d, RowsAt(d)', yaml'[d], tmp'[d])
  PROVE  FollowInv'
<1>1. ~Finish(h)
  <2>1. [request[h] EXCEPT !.at = at] # None
    BY StepTypes, RequestAssumption
  <2>. QED
    BY <2>1 DEF Finish, Goto, TypeOK
<1>. QED
  BY <1>1, DomainStepKeeps DEF Goto

LEMMA GiveUpKeeps ==
  ASSUME TypeOK, TypeOK', FollowInv, NEW h \in Handlers, h \in Busy, GiveUp(h),
         UNCHANGED <<rows, yaml, tmp>>
  PROVE  FollowInv'
<1>1. request'[h] = None /\ \A g \in Handlers : g # h => request'[g] = request[g]
  BY DEF GiveUp, TypeOK
<1>2. Onward(h) /\ MineClean(h)
  BY <1>1 DEF Onward, MineClean
<1>3. drift \subseteq drift' /\ drift' \subseteq DomainNames
  BY DEF GiveUp, TypeOK
<1>4. \A d \in DomainNames : Same(d)
  BY DEF Same, RowsAt
<1>5. Mine(h)
  BY <1>1 DEF Mine, GiveUp
<1>6. \A q \in rows' : OldOrNew(q, request[h])
  BY RowsDropped
<1>. QED
  BY <1>2, <1>3, <1>4, <1>5, <1>6, StepKeeps

LEMMA DelKeeps ==
  ASSUME TypeOK, TypeOK', FollowInv, NEW h \in Handlers, DelRow(h) \/ DelFile(h) \/ DelUndo(h)
  PROVE  FollowInv'
<1>. DEFINE r == request[h]
<1>0. /\ \E at : Serves(h, "del", at)
      /\ r.req = "del" /\ r \in DomainRequest /\ r.domain \in DomainNames /\ h \in Busy
  <2>1. PICK at : Serves(h, "del", at)
    BY DEF DelRow, DelFile, DelUndo
  <2>. QED
    BY <2>1, ServesDomain DEF Serves, DomainKinds, Busy
<1>. PICK d \in DomainNames : d = r.domain
  BY <1>0
<1>1. d \notin drift => DelOn(r, RowsAt(d), yaml[d])
  <2>1. PICK at : Serves(h, "del", at)
    BY <1>0
  <2>. QED
    BY <2>1, OwnOn DEF DomainKinds
<1>2. CASE DelRow(h)
  <2>1. /\ rows' = rows \ RowOf(r.user, d) /\ UNCHANGED <<yaml, tmp>> /\ r.at = "row"
        /\ IF RowOf(r.user, d) = {} THEN Finish(h) ELSE Goto(h, "remove")
    BY <1>2 DEF DelRow, Serves
  <2>2. \A e \in DomainNames : e # d => Same(e)
    BY <2>1 DEF Same, RowsAt, RowOf
  <2>3. d \notin drift => RowsAt(d) = RowOf(r.user, d) /\ RowsAt(d) # {} /\ RowsAt(d)' = {}
    <3>1. ASSUME d \notin drift PROVE \A q \in RowsAt(d) : q.user = r.user
      BY <1>1, <2>1, <3>1 DEF DelOn, Served, Restored
    <3>2. ASSUME d \notin drift PROVE RowsAt(d) # {}
      BY <1>1, <2>1, <3>2 DEF DelOn
    <3>. QED
      BY <2>1, <3>1, <3>2 DEF RowOf, RowsAt
  <2>4. \A q \in rows' : OldOrNew(q, r)
    BY <2>1, RowsDropped
  <2>5. CASE Finish(h) /\ RowOf(r.user, d) = {}
    <3>1. d \in drift
      BY <2>3, <2>5
    <3>. QED
      BY <1>0, <2>2, <2>4, <2>5, <3>1, FinishKeeps
  <2>6. CASE Goto(h, "remove")
    <3>1. d \notin drift => On([r EXCEPT !.at = "remove"], d, RowsAt(d)', yaml'[d], tmp'[d])
      BY <1>0, <1>1, <2>1, <2>3, AtFields DEF On, DelOn
    <3>. QED
      BY <1>0, <2>2, <2>4, <2>6, <3>1, GotoKeeps
  <2>. QED
    BY <2>1, <2>5, <2>6
<1>3. CASE DelFile(h)
  <2>1. UNCHANGED <<rows, tmp>> /\ r.at = "remove"
    BY <1>3 DEF DelFile, Serves
  <2>2. \A q \in rows' : OldOrNew(q, r)
    BY <2>1, RowsDropped
  <2>3. d \notin drift => RowsAt(d)' = {}
    BY <1>1, <2>1 DEF DelOn, RowsAt
  <2>4. CASE yaml' = [yaml EXCEPT ![d] = None] /\ Finish(h)
    <3>1. \A e \in DomainNames : e # d => Same(e)
      BY <2>1, <2>4 DEF Same, RowsAt, TypeOK
    <3>2. d \notin drift => Fits(RowsAt(d)', yaml'[d])
      BY <1>0, <2>3, <2>4 DEF Fits, TypeOK
    <3>. QED
      BY <1>0, <2>2, <2>4, <3>1, <3>2, FinishKeeps
  <2>5. CASE Goto(h, "undo") /\ UNCHANGED yaml
    <3>1. \A e \in DomainNames : e # d => Same(e)
      BY <2>1, <2>5 DEF Same, RowsAt
    <3>2. d \notin drift => On([r EXCEPT !.at = "undo"], d, RowsAt(d)', yaml'[d], tmp'[d])
      BY <1>0, <1>1, <2>3, <2>5, AtFields DEF On, DelOn
    <3>. QED
      BY <1>0, <2>2, <2>5, <3>1, <3>2, GotoKeeps
  <2>. QED
    BY <1>3, <2>4, <2>5 DEF DelFile
<1>4. CASE DelUndo(h)
  <2>1. UNCHANGED <<yaml, tmp>> /\ r.at = "undo"
    BY <1>4 DEF DelUndo, Serves
  <2>2. CASE /\ r.user \in users /\ ~Bound(d)
             /\ \E i \in FreshIds :
                  rows' = rows \cup {[id |-> i, user |-> r.user, domain |-> d, proxy |-> r.old]}
             /\ Finish(h)
    <3>1. PICK q : /\ rows' = rows \cup {q}
                   /\ \E i \in FreshIds :
                        q = [id |-> i, user |-> r.user, domain |-> d, proxy |-> r.old]
      BY <2>2
    <3>2. q.domain = d /\ Inserts(q, r) /\ Served(q) = Restored(r)
      BY <3>1 DEF Inserts, Served, Restored
    <3>3. /\ \A p \in rows' : OldOrNew(p, r)
          /\ \A e : e # d => RowsAt(e)' = RowsAt(e)
          /\ RowsAt(d)' = {q}
      BY <1>0, <2>2, <3>1, <3>2, RowsInserted DEF DomainKinds
    <3>4. \A e \in DomainNames : e # d => Same(e)
      BY <2>1, <3>3 DEF Same
    <3>5. d \notin drift => Fits(RowsAt(d)', yaml'[d])
      BY <1>1, <2>1, <3>2, <3>3 DEF Fits, DelOn
    <3>. QED
      BY <1>0, <2>2, <3>3, <3>4, <3>5, FinishKeeps
  <2>3. CASE GiveUp(h) /\ UNCHANGED rows
    BY <1>0, <2>1, <2>3, GiveUpKeeps
  <2>. QED
    BY <1>4, <2>2, <2>3 DEF DelUndo
<1>. QED
  BY <1>2, <1>3, <1>4

LEMMA SetKeeps ==
  ASSUME TypeOK, TypeOK', FollowInv, NEW h \in Handlers, SetRow(h) \/ SetUndo(h)
  PROVE  FollowInv'
<1>. DEFINE r == request[h]
<1>0. /\ \E at : Serves(h, "set", at)
      /\ r.req = "set" /\ r \in DomainRequest /\ r.domain \in DomainNames /\ h \in Busy
  <2>1. PICK at : Serves(h, "set", at)
    BY DEF SetRow, SetUndo
  <2>. QED
    BY <2>1, ServesDomain DEF Serves, DomainKinds, Busy
<1>. PICK d \in DomainNames : d = r.domain
  BY <1>0
<1>1. d \notin drift => SetOn(r, RowsAt(d), yaml[d], tmp[d])
  <2>1. PICK at : Serves(h, "set", at)
    BY <1>0
  <2>. QED
    BY <2>1, OwnOn DEF DomainKinds
<1>2. \A q \in rows : q.id = r.id => q.domain = d
  BY <1>0 DEF FollowInv, IdsKept
<1>3. ASSUME NEW on, rows' = Flagged(r.id, on), UNCHANGED <<yaml, tmp>>
      PROVE  /\ \A q \in rows' : OldOrNew(q, r)
             /\ \A e \in DomainNames : e # d => Same(e)
             /\ d \notin drift => RowsAt(d)' # {}
             /\ d \notin drift => \A q \in RowsAt(d)' :
                  q.id = r.id /\ Served(q) = [user |-> r.user, proxy |-> on]
  <2>. PICK i : i = r.id
    OBVIOUS
  <2>1. /\ \A q \in rows' : OldOrNew(q, r)
        /\ \A e : e # d => RowsAt(e)' = RowsAt(e)
        /\ \A q \in RowsAt(d)' : \E p \in RowsAt(d) :
             q.id = p.id /\ q.user = p.user /\ (p.id = i => q.proxy = on)
        /\ RowsAt(d) # {} => RowsAt(d)' # {}
    BY <1>2, <1>3, RowsFlagged
  <2>2. \A e \in DomainNames : e # d => Same(e)
    BY <1>3, <2>1 DEF Same
  <2>3. d \notin drift => RowsAt(d) # {} /\ \A p \in RowsAt(d) : p.id = i /\ p.user = r.user
    BY <1>1 DEF SetOn, Served, Restored
  <2>. QED
    BY <2>1, <2>2, <2>3 DEF Served
<1>4. CASE SetRow(h)
  <2>. PICK on : on = r.proxy
    OBVIOUS
  <2>1. rows' = Flagged(r.id, on) /\ UNCHANGED <<yaml, tmp>> /\ Goto(h, "write") /\ r.at = "row"
    BY <1>4 DEF SetRow, Serves
  <2>2. Served(r) = [user |-> r.user, proxy |-> on]
    BY DEF Served
  <2>3. d \notin drift => On([r EXCEPT !.at = "write"], d, RowsAt(d)', yaml'[d], tmp'[d])
    BY <1>0, <1>1, <1>3, <2>1, <2>2, AtFields DEF On, SetOn
  <2>. QED
    BY <1>0, <1>3, <2>1, <2>3, GotoKeeps
<1>5. ASSUME SetUndo(h), rows' = Flagged(r.id, r.old), Finish(h) PROVE FollowInv'
  <2>. PICK on : on = r.old
    OBVIOUS
  <2>1. rows' = Flagged(r.id, on) /\ UNCHANGED <<yaml, tmp>>
    BY <1>5 DEF SetUndo
  <2>2. Restored(r) = [user |-> r.user, proxy |-> on]
    BY DEF Restored
  <2>3. d \notin drift => Fits(RowsAt(d)', yaml'[d])
    BY <1>1, <1>3, <2>1, <2>2 DEF Fits, SetOn
  <2>. QED
    BY <1>0, <1>3, <1>5, <2>1, <2>3, FinishKeeps
<1>6. ASSUME SetUndo(h), GiveUp(h), UNCHANGED rows PROVE FollowInv'
  BY <1>0, <1>6, GiveUpKeeps DEF SetUndo
<1>. QED
  BY <1>4, <1>5, <1>6 DEF SetUndo

LEMMA WriteKeeps ==
  ASSUME TypeOK, TypeOK', FollowInv, NEW h \in Handlers, WriteTmp(h) \/ RenameTmp(h)
  PROVE  FollowInv'
<1>. DEFINE r == request[h]
<1>0. /\ \E at : Serves(h, "add", at) \/ Serves(h, "set", at)
      /\ r.req \in {"add", "set"} /\ r \in DomainRequest /\ r.domain \in DomainNames /\ h \in Busy
  <2>1. PICK at : Serves(h, "add", at) \/ Serves(h, "set", at)
    BY DEF WriteTmp, RenameTmp
  <2>. QED
    BY <2>1, ServesDomain DEF Serves, DomainKinds, Busy
<1>. PICK d \in DomainNames : d = r.domain
  BY <1>0
<1>1. d \notin drift => /\ r.req = "add" => AddOn(r, RowsAt(d), yaml[d], tmp[d])
                        /\ r.req = "set" => SetOn(r, RowsAt(d), yaml[d], tmp[d])
  <2>1. PICK at : Serves(h, "add", at) \/ Serves(h, "set", at)
    BY <1>0
  <2>. QED
    BY <2>1, OwnOn DEF DomainKinds, Serves
<1>2. UNCHANGED rows /\ \A q \in rows' : OldOrNew(q, r)
  BY RowsDropped DEF WriteTmp, RenameTmp
<1>3. \A e \in DomainNames : RowsAt(e)' = RowsAt(e)
  BY <1>2 DEF RowsAt
<1>4. ASSUME WriteTmp(h), Goto(h, "rename"),
             tmp' = [tmp EXCEPT ![d] = [user |-> r.user, proxy |-> r.proxy]]
      PROVE  FollowInv'
  <2>1. UNCHANGED yaml /\ r.at = "write"
    BY <1>4 DEF WriteTmp, Serves
  <2>2. tmp'[d] = Served(r) /\ \A e \in DomainNames : e # d => tmp'[e] = tmp[e]
    BY <1>4 DEF TypeOK, Served
  <2>3. \A e \in DomainNames : e # d => Same(e)
    BY <1>3, <2>1, <2>2 DEF Same
  <2>4. d \notin drift => On([r EXCEPT !.at = "rename"], d, RowsAt(d)', yaml'[d], tmp'[d])
    BY <1>0, <1>1, <1>3, <2>1, <2>2, AtFields DEF On, AddOn, SetOn
  <2>. QED
    BY <1>0, <1>2, <1>4, <2>3, <2>4, GotoKeeps
<1>5. ASSUME r.at \in {"write", "rename"}, Goto(h, "undo"), UNCHANGED <<yaml, tmp>>
      PROVE  FollowInv'
  <2>1. \A e \in DomainNames : e # d => Same(e)
    BY <1>3, <1>5 DEF Same
  <2>2. d \notin drift => On([r EXCEPT !.at = "undo"], d, RowsAt(d)', yaml'[d], tmp'[d])
    BY <1>0, <1>1, <1>3, <1>5, AtFields DEF On, AddOn, SetOn
  <2>. QED
    BY <1>0, <1>2, <1>5, <2>1, <2>2, GotoKeeps
<1>6. ASSUME RenameTmp(h), Renamed(d), Finish(h) PROVE FollowInv'
  <2>1. r.at = "rename"
    BY <1>6 DEF RenameTmp, Serves
  <2>2. \A e \in DomainNames : e # d => Same(e)
    BY <1>3, <1>6 DEF Same, Renamed, TypeOK
  <2>3. yaml'[d] = tmp[d]
    BY <1>6 DEF Renamed, TypeOK
  <2>4. d \notin drift => Fits(RowsAt(d)', yaml'[d])
    BY <1>0, <1>1, <1>3, <2>1, <2>3 DEF Fits, AddOn, SetOn
  <2>. QED
    BY <1>0, <1>2, <1>6, <2>2, <2>4, FinishKeeps
<1>7. CASE WriteTmp(h)
  BY <1>4, <1>5, <1>7 DEF WriteTmp, Serves
<1>8. CASE RenameTmp(h)
  BY <1>5, <1>6, <1>8 DEF RenameTmp, Serves
<1>. QED
  BY <1>7, <1>8

LEMMA AddUndoKeeps ==
  ASSUME TypeOK, TypeOK', FollowInv, NEW h \in Handlers, AddUndo(h)
  PROVE  FollowInv'
<1>. DEFINE r == request[h]
<1>0. /\ Serves(h, "add", "undo") /\ h \in Busy
      /\ r.req = "add" /\ r \in DomainRequest /\ r.domain \in DomainNames
  BY ServesDomain DEF AddUndo, Serves, DomainKinds, Busy
<1>. PICK d \in DomainNames : d = r.domain
  BY <1>0
<1>1. d \notin drift => AddOn(r, RowsAt(d), yaml[d], tmp[d])
  BY <1>0, OwnOn DEF DomainKinds
<1>2. ASSUME rows' = rows \ RowOf(r.user, d), Finish(h) PROVE FollowInv'
  <2>1. UNCHANGED <<yaml, tmp>>
    BY DEF AddUndo
  <2>2. \A e \in DomainNames : e # d => Same(e)
    BY <1>2, <2>1 DEF Same, RowsAt, RowOf
  <2>3. ASSUME d \notin drift PROVE RowsAt(d)' = {}
    <3>1. \A q \in RowsAt(d) : q.user = r.user
      BY <1>1, <2>3 DEF AddOn, Served
    <3>. QED
      BY <1>2, <3>1 DEF RowOf, RowsAt
  <2>4. d \notin drift => Fits(RowsAt(d)', yaml'[d])
    BY <1>1, <2>1, <2>3 DEF Fits, AddOn
  <2>5. \A q \in rows' : OldOrNew(q, r)
    BY <1>2, RowsDropped
  <2>. QED
    BY <1>0, <1>2, <2>2, <2>4, <2>5, FinishKeeps
<1>3. ASSUME GiveUp(h), UNCHANGED rows PROVE FollowInv'
  BY <1>0, <1>3, GiveUpKeeps DEF AddUndo
<1>. QED
  BY <1>2, <1>3 DEF AddUndo

LEMMA PurgeKeeps ==
  ASSUME TypeOK, TypeOK', FollowInv, NEW h \in Handlers,
         \/ DeleteUser(h) \/ DeleteSessionsForUser(h) \/ PurgeDone(h)
         \/ \E d \in DomainNames : PurgeFile(h, d)
  PROVE  FollowInv'
<1>. DEFINE r == request[h]
<1>0. r \in PurgeRequest /\ r.req = "purge" /\ h \in Busy /\ Reach(r) = r.todo
  <2>1. PICK at : Serves(h, "purge", at)
    BY DEF DeleteUser, DeleteSessionsForUser, PurgeDone, PurgeFile
  <2>. QED
    BY <2>1, ServesPurge DEF Serves, Busy, Reach
<1>1. \A d \in DomainNames \ drift : PurgeOn(r, d, RowsAt(d), yaml[d])
  BY <1>0 DEF FollowInv, Following, On
<1>2. \A q \in rows' : OldOrNew(q, r)
  BY RowsDropped DEF DeleteUser, DeleteSessionsForUser, PurgeDone, PurgeFile
<1>3. ASSUME DeleteUser(h), ~Finish(h) PROVE FollowInv'
  <2>. DEFINE s == [r EXCEPT !.at = "sessions"]
  <2>1. /\ request'[h] = s /\ r.at = "cascade" /\ UNCHANGED <<yaml, tmp>>
        /\ drift' = drift \cup (DomainsOf(r.user) \ r.todo)
        /\ rows' = {q \in rows : q.user # r.user}
        /\ \A g \in Handlers : g # h => request'[g] = request[g]
    BY <1>3 DEF DeleteUser, Serves, TypeOK
  <2>2. s.req = r.req /\ s.at = "sessions" /\ s.user = r.user /\ s.todo = r.todo
    BY <1>0 DEF PurgeRequest
  <2>3. Reach(s) = r.todo
    BY <1>0, <2>2 DEF Reach
  <2>4. Onward(h)
    BY <1>0, <2>1, <2>2, <2>3 DEF Onward
  <2>5. ASSUME NEW d \in DomainNames \ drift'
        PROVE  /\ d \notin r.todo => Same(d)
               /\ d \in r.todo => RowsAt(d)' = {}
    <3>1. RowsAt(d)' = {q \in RowsAt(d) : q.user # r.user}
      BY <2>1 DEF RowsAt
    <3>2. d \notin r.todo => \A q \in RowsAt(d) : q.user # r.user
      BY <2>1, <2>5 DEF RowsAt, DomainsOf
    <3>3. d \in r.todo => \A q \in RowsAt(d) : q.user = r.user
      BY <1>1, <2>1, <2>5 DEF PurgeOn
    <3>. QED
      BY <2>1, <3>1, <3>2, <3>3 DEF Same
  <2>6. Mine(h)
    <3>1. ASSUME NEW d \in DomainNames \ drift'
          PROVE  On(request'[h], d, RowsAt(d)', yaml'[d], tmp'[d])
      BY <1>0, <2>1, <2>2, <2>5 DEF On, PurgeOn
    <3>2. s # None
      <4>1. s \in PurgeRequest
        BY <1>0, StepTypes
      <4>. QED
        BY <4>1, RequestAssumption
    <3>. QED
      BY <1>0, <2>1, <2>3, <3>1, <3>2 DEF Mine
  <2>7. MineClean(h)
    BY <1>0, <2>1, <2>2 DEF MineClean
  <2>8. drift \subseteq drift' /\ drift' \subseteq DomainNames
    BY <2>1 DEF TypeOK
  <2>. QED
    BY <1>0, <1>2, <2>4, <2>5, <2>6, <2>7, <2>8, StepKeeps
<1>6. ASSUME DeleteUser(h), Finish(h) PROVE FollowInv'
  <2>1. /\ request'[h] = None /\ r.at = "cascade" /\ UNCHANGED <<rows, yaml, tmp, drift>>
        /\ \A g \in Handlers : g # h => request'[g] = request[g]
    <3>1. \A q \in PurgeRequest : [q EXCEPT !.at = "sessions"] # None
      BY StepTypes, RequestAssumption
    <3>. QED
      BY <1>0, <1>6, <3>1 DEF DeleteUser, Finish, Serves, TypeOK
  <2>2. Onward(h) /\ MineClean(h)
    BY <1>0, <2>1 DEF Onward, MineClean
  <2>3. Mine(h)
    <3>1. ASSUME NEW d \in DomainNames \ drift', d \in r.todo
          PROVE  Fits(RowsAt(d)', yaml'[d])
      BY <1>1, <2>1, <3>1 DEF PurgeOn, RowsAt
    <3>. QED
      BY <1>0, <2>1, <3>1 DEF Mine
  <2>4. drift' \subseteq DomainNames /\ \A d \in DomainNames : Same(d)
    BY <2>1 DEF TypeOK, Same, RowsAt
  <2>. QED
    BY <1>2, <2>1, <2>2, <2>3, <2>4, StepKeeps
<1>7. CASE DeleteSessionsForUser(h)
  <2>1. CASE GiveUp(h)
    BY <1>0, <1>7, <2>1, GiveUpKeeps DEF DeleteSessionsForUser
  <2>2. CASE Goto(h, "remove")
    <3>. DEFINE s == [r EXCEPT !.at = "remove"]
    <3>1. /\ request'[h] = s /\ r.at = "sessions" /\ UNCHANGED <<rows, yaml, tmp, drift>>
          /\ \A g \in Handlers : g # h => request'[g] = request[g]
      BY <1>7, <2>2 DEF DeleteSessionsForUser, Goto, Serves, TypeOK
    <3>2. s.req = r.req /\ s.at = "remove" /\ s.user = r.user /\ s.todo = r.todo
      BY <1>0 DEF PurgeRequest
    <3>3. Reach(s) = r.todo
      BY <1>0, <3>2 DEF Reach
    <3>4. Onward(h) /\ MineClean(h)
      BY <1>0, <3>1, <3>2, <3>3 DEF Onward, MineClean
    <3>5. drift' \subseteq DomainNames /\ \A d \in DomainNames : Same(d)
      BY <3>1 DEF TypeOK, Same, RowsAt
    <3>6. s # None
      <4>1. s \in PurgeRequest
        BY <1>0, StepTypes
      <4>. QED
        BY <4>1, RequestAssumption
    <3>7. ASSUME NEW d \in DomainNames \ drift'
          PROVE  On(request'[h], d, RowsAt(d)', yaml'[d], tmp'[d])
      <4>1. PurgeOn(r, d, RowsAt(d), yaml[d]) /\ RowsAt(d)' = RowsAt(d)
        BY <1>1, <3>1, <3>5, <3>7 DEF Same
      <4>. QED
        BY <1>0, <3>1, <3>2, <4>1 DEF On, PurgeOn
    <3>8. Mine(h)
      BY <1>0, <3>1, <3>3, <3>6, <3>7 DEF Mine
    <3>. QED
      BY <1>2, <3>1, <3>4, <3>5, <3>8, StepKeeps
  <2>. QED
    BY <1>7, <2>1, <2>2 DEF DeleteSessionsForUser
<1>4. CASE PurgeDone(h)
  <2>1. /\ request'[h] = None /\ UNCHANGED <<rows, yaml, tmp, drift>> /\ r.todo = {}
        /\ \A g \in Handlers : g # h => request'[g] = request[g]
    BY <1>4 DEF PurgeDone, Finish, TypeOK
  <2>2. Onward(h) /\ MineClean(h) /\ Mine(h)
    BY <1>0, <2>1 DEF Onward, MineClean, Mine
  <2>3. drift' \subseteq DomainNames /\ \A d \in DomainNames : Same(d)
    BY <2>1 DEF TypeOK, Same, RowsAt
  <2>. QED
    BY <1>2, <2>1, <2>2, <2>3, StepKeeps
<1>5. ASSUME NEW f \in DomainNames, PurgeFile(h, f) PROVE FollowInv'
  <2>. DEFINE s == [r EXCEPT !.todo = @ \ {f}]
  <2>1. /\ request'[h] = s /\ r.at = "remove" /\ f \in r.todo /\ UNCHANGED <<rows, tmp>>
        /\ \A g \in Handlers : g # h => request'[g] = request[g]
    BY <1>5 DEF PurgeFile, Serves, TypeOK
  <2>2. s.req = r.req /\ s.at = "remove" /\ s.user = r.user /\ s.todo = r.todo \ {f}
    BY <1>0, <2>1 DEF PurgeRequest
  <2>3. Reach(s) = r.todo \ {f}
    BY <1>0, <2>2 DEF Reach
  <2>4. Onward(h)
    BY <1>0, <2>1, <2>2, <2>3 DEF Onward
  <2>5. drift \subseteq drift' /\ drift' \subseteq DomainNames
    BY <1>5 DEF PurgeFile, TypeOK
  <2>6. \A d \in DomainNames : RowsAt(d)' = RowsAt(d) /\ (d # f => Same(d))
    BY <1>5, <2>1 DEF PurgeFile, RowsAt, Same, TypeOK
  <2>7. Mine(h)
    <3>1. ASSUME NEW d \in DomainNames \ drift'
          PROVE  On(request'[h], d, RowsAt(d)', yaml'[d], tmp'[d])
      <4>1. PurgeOn(r, d, RowsAt(d), yaml[d])
        BY <1>1, <2>5
      <4>. QED
        BY <1>0, <2>1, <2>2, <2>6, <4>1 DEF On, PurgeOn
    <3>2. s # None
      <4>1. s \in PurgeRequest
        BY <1>0 DEF PurgeRequest
      <4>. QED
        BY <4>1, RequestAssumption
    <3>3. ASSUME f \notin drift' PROVE Fits(RowsAt(f)', yaml'[f])
      <4>1. RowsAt(f) = {}
        BY <1>1, <2>1, <2>5, <3>3 DEF PurgeOn
      <4>2. yaml'[f] = None
        BY <1>5, <3>3 DEF PurgeFile, TypeOK
      <4>. QED
        BY <2>6, <4>1, <4>2 DEF Fits
    <3>. QED
      BY <1>0, <2>1, <2>3, <3>1, <3>2, <3>3 DEF Mine
  <2>8. MineClean(h)
    BY <1>0, <2>1, <2>2 DEF MineClean
  <2>. QED
    BY <1>0, <1>2, <2>1, <2>4, <2>5, <2>6, <2>7, <2>8, StepKeeps
<1>. QED
  BY <1>3, <1>4, <1>5, <1>6, <1>7

(* A sync goes on: what it has read is still so, and once it has met       *)
(* nothing what it has repaired stays so.                                  *)
LEMMA SyncStepKeeps ==
  ASSUME TypeOK, TypeOK', FollowInv, NEW h \in Handlers, h \in Busy, request[h].req = "sync",
         request[h] \in SyncRequest, NEW s \in SyncRequest,
         request' = [request EXCEPT ![h] = s], UNCHANGED <<rows, drift>>,
         \A d \in DomainNames \ drift :
           SyncReads(s, d, RowsAt(d), tmp'[d]) /\ Fits(RowsAt(d), yaml'[d]),
         s.clean => /\ request[h].clean
                    /\ \A d \in DomainNames : /\ SyncReads(s, d, RowsAt(d), tmp'[d])
                                              /\ SyncRepairs(s, d, RowsAt(d), yaml'[d])
  PROVE  FollowInv'
<1>1. s.req = "sync" /\ s.user = request[h].user /\ s # None
  BY RequestAssumption DEF SyncRequest
<1>2. Reach(s) = DomainNames /\ Reach(request[h]) = DomainNames
  BY <1>1 DEF Reach
<1>3. request'[h] = s /\ \A g \in Handlers : g # h => request'[g] = request[g]
  BY DEF TypeOK
<1>4. Onward(h)
  BY <1>1, <1>2, <1>3 DEF Onward
<1>5. \A d \in DomainNames : RowsAt(d)' = RowsAt(d)
  BY DEF RowsAt
<1>6. Mine(h)
  <2>1. ASSUME NEW d \in DomainNames \ drift'
        PROVE  On(request'[h], d, RowsAt(d)', yaml'[d], tmp'[d])
    BY <1>1, <1>3, <1>5 DEF On
  <2>. QED
    BY <1>1, <1>2, <1>3, <2>1 DEF Mine
<1>7. MineClean(h)
  BY <1>3, <1>5 DEF MineClean
<1>8. \A q \in rows' : OldOrNew(q, request[h])
  BY RowsDropped
<1>9. drift' \subseteq DomainNames /\ \A d \in DomainNames \ drift' : d \in Reach(request[h])
  BY <1>2 DEF TypeOK
<1>. QED
  BY <1>4, <1>6, <1>7, <1>8, <1>9, StepKeeps

LEMMA SyncKnows ==
  ASSUME TypeOK, FollowInv, NEW h \in Handlers, NEW at, Serves(h, "sync", at)
  PROVE  /\ h \in Busy /\ request[h] \in SyncRequest
         /\ request[h].req = "sync" /\ request[h].at = at
         /\ \A d \in DomainNames \ drift : /\ SyncReads(request[h], d, RowsAt(d), tmp[d])
                                           /\ Fits(RowsAt(d), yaml[d])
         /\ request[h].clean =>
              /\ Busy = {h}
              /\ \A d \in DomainNames : /\ SyncReads(request[h], d, RowsAt(d), tmp[d])
                                        /\ SyncRepairs(request[h], d, RowsAt(d), yaml[d])
<1>1. h \in Busy /\ request[h] \in SyncRequest /\ request[h].req = "sync" /\ request[h].at = at
  BY ServesSync DEF Serves, Busy
<1>2. \A d \in DomainNames \ drift : /\ SyncReads(request[h], d, RowsAt(d), tmp[d])
                                     /\ Fits(RowsAt(d), yaml[d])
  BY <1>1 DEF FollowInv, Following, On
<1>. QED
  BY <1>1, <1>2 DEF FollowInv, CleanSync

LEMMA SyncWriteKeeps ==
  ASSUME TypeOK, TypeOK', FollowInv, NEW h \in Handlers, NEW w \in Row, SyncWrite(h, w)
  PROVE  FollowInv'
<1>. DEFINE r == request[h]
            s == [r EXCEPT !.at = "rename", !.todo = @ \ {w}, !.now = w]
            f == [r EXCEPT !.todo = @ \ {w}, !.clean = FALSE]
<1>0. Serves(h, "sync", "write") /\ w \in r.todo /\ UNCHANGED <<rows, yaml, drift>>
  BY DEF SyncWrite
<1>1. r \in SyncRequest /\ r.at = "write"
  BY <1>0, SyncKnows
<1>2. CASE tmp' = [tmp EXCEPT ![w.domain] = [user |-> w.user, proxy |-> w.proxy]]
           /\ request' = [request EXCEPT ![h] = s]
  <2>1. s \in SyncRequest
    BY <1>1 DEF SyncRequest
  <2>2. s.at = "rename" /\ s.todo = r.todo \ {w} /\ s.now = w /\ s.clean = r.clean
        /\ s.known = r.known /\ s.files = r.files
    BY <1>1 DEF SyncRequest
  <2>. HIDE DEF s
  <2>3. \A d \in DomainNames : tmp'[d] = IF d = w.domain THEN Served(w) ELSE tmp[d]
    BY <1>2 DEF TypeOK, Served
  <2>4. ASSUME NEW d \in DomainNames, SyncReads(r, d, RowsAt(d), tmp[d])
        PROVE  SyncReads(s, d, RowsAt(d), tmp'[d])
    BY <1>0, <2>2, <2>3, <2>4 DEF SyncReads
  <2>5. ASSUME NEW d \in DomainNames, SyncRepairs(r, d, RowsAt(d), yaml[d])
        PROVE  SyncRepairs(s, d, RowsAt(d), yaml[d])
    BY <1>1, <2>2, <2>5 DEF SyncRepairs
  <2>. QED
    BY <1>0, <1>2, <2>1, <2>2, <2>4, <2>5, SyncKnows, SyncStepKeeps
<1>3. CASE request' = [request EXCEPT ![h] = f] /\ UNCHANGED tmp
  <2>1. f \in SyncRequest
    BY <1>1 DEF SyncRequest
  <2>2. f.at = "write" /\ f.todo = r.todo \ {w} /\ ~f.clean /\ f.known = r.known
    BY <1>1 DEF SyncRequest
  <2>. HIDE DEF f
  <2>3. ASSUME NEW d \in DomainNames, SyncReads(r, d, RowsAt(d), tmp[d])
        PROVE  SyncReads(f, d, RowsAt(d), tmp'[d])
    BY <1>1, <1>3, <2>2, <2>3 DEF SyncReads
  <2>. QED
    BY <1>0, <1>3, <2>1, <2>2, <2>3, SyncKnows, SyncStepKeeps
<1>. QED
  BY <1>2, <1>3 DEF SyncWrite

LEMMA SyncRenameKeeps ==
  ASSUME TypeOK, TypeOK', FollowInv, NEW h \in Handlers, SyncRename(h)
  PROVE  FollowInv'
<1>. DEFINE r == request[h]
            s == [r EXCEPT !.at = "write", !.now = None]
            f == [s EXCEPT !.clean = FALSE]
<1>0. Serves(h, "sync", "rename") /\ UNCHANGED <<rows, drift>>
  BY DEF SyncRename
<1>1. r \in SyncRequest /\ r.at = "rename"
  BY <1>0, SyncKnows
<1>2. /\ s \in SyncRequest /\ s.at = "write" /\ s.todo = r.todo /\ s.known = r.known
      /\ s.clean = r.clean
      /\ f \in SyncRequest /\ f.at = "write" /\ f.todo = r.todo /\ f.known = r.known /\ ~f.clean
  BY <1>1 DEF SyncRequest
<1>3. CASE Renamed(r.now.domain) /\ request' = [request EXCEPT ![h] = s]
  <2>. HIDE DEF s, f
  <2>1. \A d \in DomainNames : /\ d = r.now.domain => yaml'[d] = tmp[d]
                               /\ d # r.now.domain => yaml'[d] = yaml[d]
    BY <1>3 DEF Renamed, TypeOK
  <2>2. ASSUME NEW d \in DomainNames, SyncReads(r, d, RowsAt(d), tmp[d])
        PROVE  SyncReads(s, d, RowsAt(d), tmp'[d])
    BY <1>2, <2>2 DEF SyncReads
  <2>3. ASSUME NEW d \in DomainNames, SyncReads(r, d, RowsAt(d), tmp[d]), d = r.now.domain
        PROVE  r.now \in RowsAt(d) /\ (\A q \in RowsAt(d) : q = r.now) /\ yaml'[d] = Served(r.now)
    BY <1>1, <2>1, <2>3 DEF SyncReads, RowsAt, TypeOK
  <2>4. ASSUME NEW d \in DomainNames, SyncReads(r, d, RowsAt(d), tmp[d]), Fits(RowsAt(d), yaml[d])
        PROVE  Fits(RowsAt(d), yaml'[d])
    BY <2>1, <2>3, <2>4 DEF Fits
  <2>5. ASSUME NEW d \in DomainNames, SyncReads(r, d, RowsAt(d), tmp[d]),
               SyncRepairs(r, d, RowsAt(d), yaml[d])
        PROVE  SyncRepairs(s, d, RowsAt(d), yaml'[d])
    <3>1. CASE d = r.now.domain
      BY <1>2, <2>3, <2>5, <3>1 DEF SyncRepairs
    <3>2. CASE d # r.now.domain
      <4>1. \A q \in RowsAt(d) : q # r.now
        BY <3>2 DEF RowsAt
      <4>. QED
        BY <1>2, <2>1, <2>5, <3>2, <4>1 DEF SyncRepairs
    <3>. QED
      BY <3>1, <3>2
  <2>. QED
    BY <1>0, <1>2, <1>3, <2>2, <2>4, <2>5, SyncKnows, SyncStepKeeps
<1>4. CASE request' = [request EXCEPT ![h] = f] /\ UNCHANGED <<yaml, tmp>>
  <2>. HIDE DEF s, f
  <2>1. ASSUME NEW d \in DomainNames, SyncReads(r, d, RowsAt(d), tmp[d])
        PROVE  SyncReads(f, d, RowsAt(d), tmp'[d])
    BY <1>2, <1>4, <2>1 DEF SyncReads
  <2>. QED
    BY <1>0, <1>2, <1>4, <2>1, SyncKnows, SyncStepKeeps
<1>. QED
  BY <1>3, <1>4 DEF SyncRename

LEMMA SyncListKeeps ==
  ASSUME TypeOK, TypeOK', FollowInv, NEW h \in Handlers, SyncList(h)
  PROVE  FollowInv'
<1>. DEFINE r == request[h]
            s == [r EXCEPT !.at = "remove",
                           !.files = {d \in DomainNames : yaml[d] # None} \ r.known]
<1>0. /\ Serves(h, "sync", "write") /\ r.todo = {} /\ UNCHANGED <<rows, yaml, tmp, drift>>
      /\ request' = [request EXCEPT ![h] = s]
  BY DEF SyncList
<1>1. r \in SyncRequest /\ r.at = "write"
  BY <1>0, SyncKnows
<1>2. /\ s \in SyncRequest /\ s.at = "remove" /\ s.todo = {} /\ s.known = r.known
      /\ s.clean = r.clean /\ s.files = {d \in DomainNames : yaml[d] # None} \ r.known
  BY <1>0, <1>1 DEF SyncRequest
<1>. HIDE DEF s
<1>3. ASSUME NEW d \in DomainNames, SyncReads(r, d, RowsAt(d), tmp[d])
      PROVE  SyncReads(s, d, RowsAt(d), tmp'[d])
  BY <1>0, <1>2, <1>3 DEF SyncReads
<1>4. ASSUME NEW d \in DomainNames, SyncReads(r, d, RowsAt(d), tmp[d]),
             SyncRepairs(r, d, RowsAt(d), yaml[d])
      PROVE  SyncRepairs(s, d, RowsAt(d), yaml'[d])
  BY <1>0, <1>1, <1>2, <1>4 DEF SyncReads, SyncRepairs
<1>. QED
  BY <1>0, <1>2, <1>3, <1>4, SyncKnows, SyncStepKeeps

LEMMA SyncRemoveKeeps ==
  ASSUME TypeOK, TypeOK', FollowInv, NEW h \in Handlers, NEW f \in DomainNames, SyncRemove(h, f)
  PROVE  FollowInv'
<1>. DEFINE r == request[h]
            s == [r EXCEPT !.files = @ \ {f}]
            t == [r EXCEPT !.files = @ \ {f}, !.clean = FALSE]
<1>0. Serves(h, "sync", "remove") /\ f \in r.files /\ UNCHANGED <<rows, tmp, drift>>
  BY DEF SyncRemove
<1>1. \/ yaml' = [yaml EXCEPT ![f] = None] /\ request' = [request EXCEPT ![h] = s]
      \/ request' = [request EXCEPT ![h] = t] /\ UNCHANGED yaml
  BY DEF SyncRemove
<1>2. r \in SyncRequest /\ r.at = "remove"
  BY <1>0, SyncKnows
<1>3. /\ s \in SyncRequest /\ s.at = "remove" /\ s.todo = r.todo /\ s.known = r.known
      /\ s.clean = r.clean /\ s.files = r.files \ {f}
      /\ t \in SyncRequest /\ t.at = "remove" /\ t.todo = r.todo /\ t.known = r.known
      /\ ~t.clean /\ t.files = r.files \ {f}
  BY <1>2 DEF SyncRequest
<1>. HIDE DEF s, t
<1>4. ASSUME NEW d \in DomainNames, SyncReads(r, d, RowsAt(d), tmp[d])
      PROVE  SyncReads(s, d, RowsAt(d), tmp'[d]) /\ SyncReads(t, d, RowsAt(d), tmp'[d])
  BY <1>0, <1>2, <1>3, <1>4 DEF SyncReads
<1>5. CASE yaml' = [yaml EXCEPT ![f] = None] /\ request' = [request EXCEPT ![h] = s]
  <2>1. \A d \in DomainNames : yaml'[d] = IF d = f THEN None ELSE yaml[d]
    BY <1>5 DEF TypeOK
  <2>2. ASSUME NEW d \in DomainNames, SyncReads(r, d, RowsAt(d), tmp[d]), Fits(RowsAt(d), yaml[d])
        PROVE  Fits(RowsAt(d), yaml'[d])
    BY <1>0, <1>2, <2>1, <2>2 DEF SyncReads, Fits
  <2>3. ASSUME NEW d \in DomainNames, SyncReads(r, d, RowsAt(d), tmp[d]),
               SyncRepairs(r, d, RowsAt(d), yaml[d])
        PROVE  SyncRepairs(s, d, RowsAt(d), yaml'[d])
    BY <1>0, <1>2, <1>3, <2>1, <2>3 DEF SyncReads, SyncRepairs
  <2>. QED
    BY <1>0, <1>3, <1>4, <1>5, <2>2, <2>3, SyncKnows, SyncStepKeeps
<1>6. CASE request' = [request EXCEPT ![h] = t] /\ UNCHANGED yaml
  BY <1>0, <1>3, <1>4, <1>6, SyncKnows, SyncStepKeeps
<1>. QED
  BY <1>1, <1>5, <1>6

(* A clean sync has repaired every domain, whatever had drifted.           *)
LEMMA SyncDoneKeeps ==
  ASSUME TypeOK, TypeOK', FollowInv, NEW h \in Handlers, SyncDone(h)
  PROVE  FollowInv'
<1>. DEFINE r == request[h]
<1>0. /\ Serves(h, "sync", "remove") /\ r.files = {} /\ UNCHANGED <<rows, yaml, tmp>>
      /\ request'[h] = None /\ \A g \in Handlers : g # h => request'[g] = request[g]
      /\ drift' = IF r.clean THEN {} ELSE drift
  BY DEF SyncDone, TypeOK
<1>1. h \in Busy /\ r.req = "sync" /\ r.at = "remove" /\ r \in SyncRequest
  BY <1>0, SyncKnows
<1>2. \A d \in DomainNames : RowsAt(d)' = RowsAt(d)
  BY <1>0 DEF RowsAt
<1>3. CASE r.clean
  <2>1. Busy' = {}
    BY <1>0, <1>1, <1>3, SyncKnows DEF Busy, Idle
  <2>2. Apart' /\ IdsKept' /\ CleanSync'
    BY <2>1 DEF Apart, IdsKept, CleanSync
  <2>3. ASSUME NEW d \in DomainNames PROVE Fits(RowsAt(d), yaml[d])
    <3>1. SyncRepairs(r, d, RowsAt(d), yaml[d])
      BY <1>0, <1>3, SyncKnows
    <3>. QED
      BY <1>0, <1>1, <3>1 DEF SyncRepairs, Fits
  <2>4. \A d \in DomainNames : Following(d)'
    BY <1>0, <1>2, <2>1, <2>3 DEF Following
  <2>. QED
    BY <2>2, <2>4 DEF FollowInv
<1>4. CASE ~r.clean
  <2>1. Onward(h) /\ MineClean(h)
    BY <1>0, <1>1 DEF Onward, MineClean
  <2>2. Mine(h)
    BY <1>0, <1>2, <1>4, SyncKnows DEF Mine
  <2>3. drift' = drift /\ drift' \subseteq DomainNames /\ \A d \in DomainNames : Same(d)
    BY <1>0, <1>2, <1>4 DEF TypeOK, Same
  <2>4. \A q \in rows' : OldOrNew(q, r)
    BY <1>0, RowsDropped
  <2>. QED
    BY <2>1, <2>2, <2>3, <2>4, StepKeeps
<1>. QED
  BY <1>3, <1>4

-----------------------------------------------------------------------------
(* A request begins: a sync it meets is no longer clean, and what it meets *)
(* on is in drift.                                                         *)
LEMMA BeginKeeps ==
  ASSUME TypeOK, TypeOK', FollowInv, NEW h \in Handlers,
         NEW r \in DomainRequest \cup PurgeRequest \cup SyncRequest, Begin(h, r),
         UNCHANGED <<yaml, tmp>>, \A q \in rows' : OldOrNew(q, r),
         \A d \in DomainNames : d \notin Reach(r) => Same(d),
         r.req = "set" =>
           \A q \in rows' : q.id = r.id => q.domain = r.domain /\ q.user = r.user,
         \A d \in DomainNames \ drift' :
           (d \in Reach(r) => Fits(RowsAt(d), yaml[d])) => On(r, d, RowsAt(d)', yaml'[d], tmp'[d]),
         r.req = "sync" /\ r.clean =>
           /\ Busy = {}
           /\ \A d \in DomainNames : /\ SyncReads(r, d, RowsAt(d)', tmp'[d])
                                     /\ SyncRepairs(r, d, RowsAt(d)', yaml'[d])
  PROVE  FollowInv'
<1>1. /\ h \notin Busy /\ request'[h] = r /\ r # None
      /\ \A g \in Handlers : g # h /\ g \notin Busy => request'[g] = None
      /\ \A g \in Busy : g # h /\ request[g].req # "sync" => request'[g] = request[g]
      /\ \A g \in Busy : g # h /\ request[g].req = "sync" =>
           request'[g] = [request[g] EXCEPT !.clean = FALSE]
  BY RequestAssumption DEF Begin, Busy, Idle
<1>2. \A g \in Busy : g \in Handlers /\ request[g] \in DomainRequest \cup PurgeRequest \cup SyncRequest
  BY DEF TypeOK, Busy, Idle
<1>3. Busy' = Busy \cup {h}
  <2>1. \A q \in SyncRequest : [q EXCEPT !.clean = FALSE] \in SyncRequest
    BY DEF SyncRequest
  <2>2. \A g \in Busy : request'[g] # None
    <3>1. ASSUME NEW g \in Busy, request[g].req = "sync" PROVE request'[g] # None
      <4>1. request[g] \in SyncRequest
        BY <1>2, <3>1, RequestKinds
      <4>. QED
        BY <1>1, <2>1, <3>1, <4>1, RequestAssumption
    <3>2. ASSUME NEW g \in Busy, request[g].req # "sync" PROVE request'[g] # None
      BY <1>1, <3>2 DEF Busy, Idle
    <3>. QED
      BY <3>1, <3>2
  <2>. QED
    BY <1>1, <2>2 DEF Busy, Idle
<1>4. ASSUME NEW g \in Busy
      PROVE  /\ request'[g].req = request[g].req /\ request'[g].user = request[g].user
             /\ request'[g].req = "sync" => ~request'[g].clean
             /\ request[g].req # "sync" => request'[g] = request[g]
             /\ Reach(request'[g]) = Reach(request[g])
             /\ \A d, R, y, t : On(request[g], d, R, y, t) => On(request'[g], d, R, y, t)
  <2>1. CASE request[g].req = "sync"
    <3>1. request[g] \in SyncRequest
      BY <1>2, <2>1, RequestKinds
    <3>2. request'[g] = [request[g] EXCEPT !.clean = FALSE]
      BY <1>1, <2>1
    <3>3. /\ request'[g].req = "sync" /\ request'[g].user = request[g].user
          /\ ~request'[g].clean /\ request'[g].at = request[g].at
          /\ request'[g].todo = request[g].todo /\ request'[g].now = request[g].now
          /\ request'[g].known = request[g].known /\ request'[g].files = request[g].files
      BY <2>1, <3>1, <3>2 DEF SyncRequest
    <3>. QED
      BY <2>1, <3>3 DEF Reach, On, SyncReads
  <2>2. CASE request[g].req # "sync"
    BY <1>1, <2>2
  <2>. QED
    BY <2>1, <2>2
<1>5. /\ drift \subseteq drift' /\ drift' \subseteq DomainNames
      /\ \A g \in Busy : Meet(r, request[g]) \subseteq drift'
  BY DEF Begin, TypeOK
<1>6. Apart'
  <2>1. ASSUME NEW g \in Busy, NEW k \in Busy, g # k
        PROVE  Meet(request'[g], request'[k]) \subseteq drift'
    <3>1. Meet(request'[g], request'[k]) \subseteq Meet(request[g], request[k])
      BY <1>4, MeetLess
    <3>. QED
      BY <1>5, <2>1, <3>1 DEF FollowInv, Apart
  <2>2. ASSUME NEW g \in Busy
        PROVE  Meet(request'[g], request'[h]) \subseteq drift'
               /\ Meet(request'[h], request'[g]) \subseteq drift'
    <3>1. Meet(request'[g], r) \subseteq Meet(request[g], r)
          /\ Meet(r, request'[g]) \subseteq Meet(r, request[g])
      BY <1>4, MeetLess
    <3>2. Meet(request[g], r) = Meet(r, request[g])
      BY DEF Meet
    <3>. QED
      BY <1>1, <1>5, <3>1, <3>2
  <2>. QED
    BY <1>3, <2>1, <2>2 DEF Apart
<1>7. IdsKept'
  <2>1. ASSUME NEW g \in Busy, request'[g].req = "set", NEW q \in rows', q.id = request'[g].id
        PROVE  q.domain = request'[g].domain /\ q.user = request'[g].user
    <3>1. request'[g] = request[g] /\ request[g].req = "set"
      BY <1>4, <2>1
    <3>2. q.id \notin FreshIds
      BY <2>1, <3>1, HasId DEF FreshIds, DomainKinds
    <3>3. PICK p \in rows : p.id = q.id /\ p.domain = q.domain /\ p.user = q.user
      BY <3>2 DEF OldOrNew, Inserts
    <3>. QED
      BY <2>1, <3>1, <3>3 DEF FollowInv, IdsKept
  <2>. QED
    BY <1>1, <1>3, <2>1 DEF IdsKept
<1>8. CleanSync'
  BY <1>1, <1>3, <1>4 DEF CleanSync
<1>9. ASSUME NEW d \in DomainNames \ drift' PROVE Following(d)'
  <2>1. d \notin drift /\ Following(d)
    BY <1>5 DEF FollowInv
  <2>2. d \in Reach(r) => \A g \in Busy : d \notin Reach(request[g])
    BY <1>5 DEF Meet
  <2>3. On(r, d, RowsAt(d)', yaml'[d], tmp'[d])
    BY <2>1, <2>2 DEF Following
  <2>4. ASSUME NEW g \in Busy PROVE On(request'[g], d, RowsAt(d)', yaml'[d], tmp'[d])
    <3>1. On(request[g], d, RowsAt(d), yaml[d], tmp[d])
      BY <2>1 DEF Following
    <3>2. CASE d \notin Reach(r)
      BY <1>4, <3>1, <3>2 DEF Same
    <3>3. CASE d \in Reach(r)
      <4>1. d \notin Reach(request[g]) /\ d \notin Meet(r, request[g])
        BY <1>5, <2>2, <3>3
      <4>. QED
        BY <1>4, <3>1, <3>3, <4>1, UnreachedOn
    <3>. QED
      BY <3>2, <3>3
  <2>5. (\A g \in Busy' : d \notin Reach(request'[g])) => Fits(RowsAt(d)', yaml'[d])
    <3>1. ASSUME \A g \in Busy' : d \notin Reach(request'[g]) PROVE Fits(RowsAt(d)', yaml'[d])
      <4>1. d \notin Reach(r) /\ \A g \in Busy : d \notin Reach(request[g])
        BY <1>1, <1>3, <1>4, <3>1
      <4>. QED
        BY <2>1, <4>1 DEF Following, Same
    <3>. QED
      BY <3>1
  <2>. QED
    BY <1>1, <1>3, <2>3, <2>4, <2>5 DEF Following
<1>. QED
  BY <1>6, <1>7, <1>8, <1>9 DEF FollowInv

LEMMA ArriveKeeps ==
  ASSUME TypeOK, TypeOK', FollowInv, NEW h \in Handlers, Arrive(h)
  PROVE  FollowInv'
<1>0. UNCHANGED rows => /\ \A d : RowsAt(d)' = RowsAt(d)
                        /\ \A r : \A q \in rows' : OldOrNew(q, r)
                        /\ UNCHANGED <<yaml, tmp>> => \A d : Same(d)
  BY RowsDropped DEF RowsAt, Same
<1>1. CASE SyncAllDomains(h)
  <2>. PICK r : r = [req |-> "sync", at |-> "write", user |-> None,
                     known |-> {q.domain : q \in rows}, todo |-> rows, now |-> None,
                     files |-> {}, clean |-> Busy = {}]
    OBVIOUS
  <2>1. r \in SyncRequest
    BY TypeParts DEF SyncRequest, Constraints, Row
  <2>2. /\ r.req = "sync" /\ r.at = "write" /\ r.todo = rows /\ r.known = {q.domain : q \in rows}
        /\ r.clean <=> Busy = {}
    OBVIOUS
  <2>3. Begin(h, r) /\ UNCHANGED <<rows, yaml, tmp>>
    BY <1>1 DEF SyncAllDomains
  <2>4. \A d \in DomainNames : /\ SyncReads(r, d, RowsAt(d), tmp[d])
                               /\ SyncRepairs(r, d, RowsAt(d), yaml[d])
    BY <2>2 DEF SyncReads, SyncRepairs, RowsAt
  <2>5. \A d \in DomainNames : Fits(RowsAt(d), yaml[d]) => On(r, d, RowsAt(d), yaml[d], tmp[d])
    BY <2>2, <2>4 DEF On
  <2>6. Reach(r) = DomainNames
    BY <2>2 DEF Reach
  <2>. QED
    BY <1>0, <2>1, <2>2, <2>3, <2>4, <2>5, <2>6, BeginKeeps
<1>2. ASSUME NEW u \in Users, Del(h, u) PROVE FollowInv'
  <2>0. PICK listed \in SUBSET DomainsOf(u) :
          Begin(h, [req |-> "purge", at |-> "cascade", user |-> u, todo |-> listed])
    BY <1>2 DEF Del
  <2>. PICK r : r = [req |-> "purge", at |-> "cascade", user |-> u, todo |-> listed]
    OBVIOUS
  <2>1. r \in PurgeRequest
    BY TypeParts DEF PurgeRequest, Constraints, Row, DomainsOf
  <2>2. r.req = "purge" /\ r.at = "cascade" /\ r.user = u /\ r.todo \subseteq DomainsOf(u)
    OBVIOUS
  <2>3. Begin(h, r) /\ UNCHANGED <<rows, yaml, tmp>>
    BY <1>2, <2>0 DEF Del
  <2>4. ASSUME NEW d \in DomainNames, d \in Reach(r) => Fits(RowsAt(d), yaml[d])
        PROVE  On(r, d, RowsAt(d), yaml[d], tmp[d])
    <3>1. d \in r.todo => \A q \in RowsAt(d) : q.user = u
      BY <2>2 DEF RowsAt, TypeOK, DomainsOf
    <3>. QED
      BY <2>2, <2>4, <3>1 DEF On, PurgeOn, Reach
  <2>. QED
    BY <1>0, <2>1, <2>2, <2>3, <2>4, BeginKeeps
<1>3. ASSUME NEW u \in Users, NEW d \in DomainNames, DelDomain(h, u, d) PROVE FollowInv'
  <2>1. PICK q \in RowOf(u, d) :
          Begin(h, [req |-> "del", at |-> "row", user |-> u, domain |-> d, id |-> None,
                    proxy |-> q.proxy, old |-> q.proxy])
    BY <1>3 DEF DelDomain
  <2>. PICK r : r = [req |-> "del", at |-> "row", user |-> u, domain |-> d, id |-> None,
                     proxy |-> q.proxy, old |-> q.proxy]
    OBVIOUS
  <2>2. r \in DomainRequest
    BY TypeParts DEF DomainRequest, RowOf, Constraints, Row
  <2>3. r.req = "del" /\ r.at = "row" /\ r.domain = d /\ r.user = u /\ r.old = q.proxy
    OBVIOUS
  <2>4. Begin(h, r) /\ UNCHANGED <<rows, yaml, tmp>>
    BY <1>3, <2>1 DEF DelDomain
  <2>5. RowsAt(d) = {q} /\ Served(q) = Restored(r)
    BY <2>3 DEF RowsAt, RowOf, TypeOK, Served, Restored
  <2>6. \A e \in DomainNames :
          (e \in Reach(r) => Fits(RowsAt(e), yaml[e])) => On(r, e, RowsAt(e), yaml[e], tmp[e])
    BY <2>3, <2>5 DEF On, DelOn, Fits, Reach
  <2>. QED
    BY <1>0, <2>2, <2>3, <2>4, <2>6, BeginKeeps
<1>4. ASSUME NEW u \in Users, NEW d \in DomainNames, NEW on \in BOOLEAN, AddDomain(h, u, d, on)
      PROVE  FollowInv'
  <2>. PICK r : r = [req |-> "add", at |-> "write", user |-> u, domain |-> d, id |-> None,
                     proxy |-> on, old |-> on]
    OBVIOUS
  <2>1. r \in DomainRequest
    BY DEF DomainRequest
  <2>2. r.req = "add" /\ r.at = "write" /\ r.domain = d /\ r.user = u /\ r.proxy = on
    OBVIOUS
  <2>3. PICK i \in FreshIds :
          rows' = rows \cup {[id |-> i, user |-> u, domain |-> d, proxy |-> on]} /\ Begin(h, r)
    BY <1>4 DEF AddDomain
  <2>. PICK q : q = [id |-> i, user |-> u, domain |-> d, proxy |-> on]
    OBVIOUS
  <2>4. ~Bound(d) /\ UNCHANGED <<yaml, tmp>> /\ rows' = rows \cup {q}
    BY <1>4, <2>3 DEF AddDomain
  <2>5. q.domain = d /\ Inserts(q, r) /\ Served(q) = Served(r)
    BY <2>2 DEF Inserts, Served
  <2>6. /\ \A p \in rows' : OldOrNew(p, r)
        /\ \A e : e # d => RowsAt(e)' = RowsAt(e)
        /\ RowsAt(d)' = {q}
    BY <2>2, <2>4, <2>5, RowsInserted DEF DomainKinds
  <2>7. RowsAt(d) = {} /\ Reach(r) = {d}
    BY <2>2, <2>4 DEF RowsAt, Bound, Reach
  <2>8. \A e \in DomainNames :
          (e \in Reach(r) => Fits(RowsAt(e), yaml[e])) => On(r, e, RowsAt(e)', yaml'[e], tmp'[e])
    BY <2>2, <2>4, <2>5, <2>6, <2>7 DEF On, AddOn, Fits
  <2>9. \A e \in DomainNames : e \notin Reach(r) => Same(e)
    BY <2>4, <2>6, <2>7 DEF Same
  <2>. QED
    BY <2>1, <2>2, <2>3, <2>4, <2>6, <2>8, <2>9, BeginKeeps
<1>5. ASSUME NEW u \in Users, NEW d \in DomainNames, NEW on \in BOOLEAN,
             SetDomainProtocol(h, u, d, on)
      PROVE  FollowInv'
  <2>1. PICK q \in RowOf(u, d) :
          Begin(h, [req |-> "set", at |-> "row", user |-> u, domain |-> d, id |-> q.id,
                    proxy |-> on, old |-> q.proxy])
    BY <1>5 DEF SetDomainProtocol
  <2>. PICK r : r = [req |-> "set", at |-> "row", user |-> u, domain |-> d, id |-> q.id,
                     proxy |-> on, old |-> q.proxy]
    OBVIOUS
  <2>2. r \in DomainRequest
    BY TypeParts DEF DomainRequest, RowOf, Constraints, Row
  <2>3. /\ r.req = "set" /\ r.at = "row" /\ r.domain = d /\ r.user = u /\ r.id = q.id
        /\ r.old = q.proxy
    OBVIOUS
  <2>4. Begin(h, r) /\ UNCHANGED <<rows, yaml, tmp>>
    BY <1>5, <2>1 DEF SetDomainProtocol
  <2>5. RowsAt(d) = {q} /\ Served(q) = Restored(r)
    BY <2>3 DEF RowsAt, RowOf, TypeOK, Served, Restored
  <2>6. \A e \in DomainNames :
          (e \in Reach(r) => Fits(RowsAt(e), yaml[e])) => On(r, e, RowsAt(e), yaml[e], tmp[e])
    BY <2>3, <2>5 DEF On, SetOn, Fits, Reach
  <2>7. \A p \in rows' : p.id = r.id => p.domain = r.domain /\ p.user = r.user
    BY <2>3, <2>4 DEF RowOf, TypeOK
  <2>. QED
    BY <1>0, <2>2, <2>3, <2>4, <2>6, <2>7, BeginKeeps
<1>. QED
  BY <1>1, <1>2, <1>3, <1>4, <1>5 DEF Arrive

LEMMA NextFollows ==
  ASSUME TypeOK, TypeOK', FollowInv, [Next]_vars
  PROVE  FollowInv'
<1>1. ASSUME UNCHANGED <<rows, yaml, tmp, request, drift>> PROVE FollowInv'
  <2>1. /\ \A d : RowsAt(d)' = RowsAt(d)
        /\ Busy' = Busy /\ (Apart' <=> Apart) /\ (IdsKept' <=> IdsKept)
    BY <1>1 DEF RowsAt, Busy, Idle, Apart, IdsKept
  <2>2. CleanSync'
    BY <1>1, <2>1 DEF FollowInv, CleanSync
  <2>3. \A d \in DomainNames \ drift : Following(d)'
    BY <1>1, <2>1 DEF FollowInv, Following
  <2>. QED
    BY <1>1, <2>1, <2>2, <2>3 DEF FollowInv
<1>2. ASSUME NEW u \in Users, CreateUser(u) PROVE FollowInv'
  BY <1>1, <1>2 DEF CreateUser
<1>3. ASSUME NEW h \in Handlers, Continue(h) PROVE FollowInv'
  BY <1>3, DelKeeps, SetKeeps, WriteKeeps, AddUndoKeeps, PurgeKeeps, SyncListKeeps, SyncDoneKeeps,
     SyncRemoveKeeps, SyncRenameKeeps, SyncWriteKeeps DEF Continue
<1>4. ASSUME NEW h \in Handlers, Crash(h) PROVE FollowInv'
  BY <1>4, GiveUpKeeps DEF Crash, Busy
<1>5. CASE UNCHANGED vars
  BY <1>1, <1>5 DEF vars
<1>. QED
  BY <1>2, <1>3, <1>4, <1>5, ArriveKeeps DEF Next

LEMMA FollowsAlways == Spec => []FollowInv
<1>1. Init => FollowInv
  <2>1. Init => Busy = {} /\ \A d \in DomainNames : RowsAt(d) = {} /\ yaml[d] = None
    BY DEF Init, Busy, Idle, RowsAt
  <2>. QED
    BY <2>1 DEF FollowInv, Apart, IdsKept, CleanSync, Following, Fits
<1>. QED
  BY <1>1, NextFollows, TableWellFormed, PTL DEF Spec

(* The file of a domain agrees with the table whenever no request is at    *)
(* work on it, whichever writes and removals of other requests fail, for   *)
(* every domain that no overlap, crash, failed roll back or deletion of    *)
(* its user with a failed call has come between; and an undisturbed sync   *)
(* repairs those as well (mgr.go:907-1004, tfx.go:63-112).                 *)
THEOREM FilesAgree == Spec => []FilesFollowRows
<1>1. TypeOK /\ FollowInv => FilesFollowRows
  BY FitsAgrees DEF FollowInv, Following, FilesFollowRows
<1>. QED
  BY <1>1, FollowsAlways, TableWellFormed, PTL

-----------------------------------------------------------------------------
(* The table implements Ownership. What its rows and requests are there.   *)
Binds(r) == [user |-> r.user, domain |-> r.domain, proxy |-> r.proxy]
Owned == {Binds(r) : r \in rows}
AskedBy == [h \in Handlers |-> Asked(request[h])]
OwnedAs(r) == {b \in Owned : b.user = r.user /\ b.domain = r.domain}
Bears(r, flag) == [user |-> r.user, domain |-> r.domain, proxy |-> flag]
Asking(h, r) == AskedBy' = [AskedBy EXCEPT ![h] = r]
Flags(r, flag) == \/ UNCHANGED Owned
                  \/ OwnedAs(r) # {} /\ Owned' = (Owned \ OwnedAs(r)) \cup {Bears(r, flag)}

Marked(r) == [r EXCEPT !.done = TRUE]

Stays == UNCHANGED <<users, Owned, AskedBy>>

LEMMA MarkedAs ==
  /\ \A r \in Ledger!Request :
       Marked(r) = [op |-> r.op, user |-> r.user, domain |-> r.domain, on |-> r.on,
                    old |-> r.old, done |-> TRUE]
  /\ \A r \in Ledger!Departure : Marked(r) = [op |-> r.op, user |-> r.user, done |-> TRUE]
<1>1. ASSUME NEW r \in Ledger!Request, NEW done \in BOOLEAN
      PROVE  [r EXCEPT !.done = done]
             = [op |-> r.op, user |-> r.user, domain |-> r.domain, on |-> r.on, old |-> r.old,
                done |-> done]
  BY DEF Ledger!Request
<1>2. ASSUME NEW r \in Ledger!Departure, NEW done \in BOOLEAN
      PROVE  [r EXCEPT !.done = done] = [op |-> r.op, user |-> r.user, done |-> done]
  BY DEF Ledger!Departure
<1>. QED
  BY <1>1, <1>2 DEF Marked

(* The steps of Ownership, in these terms.                                 *)
LEMMA LedgerBegins ==
  ASSUME NEW h \in Handlers, AskedBy[h] = None, NEW r, Asking(h, r), UNCHANGED users
  PROVE  /\ /\ r \in Ledger!Request /\ r.op = "add" /\ r.done /\ r.user \in users
            /\ \A b \in Owned : b.domain # r.domain
            /\ Owned' = Owned \cup {Bears(r, r.on)}
            => Ledger!Next
         /\ /\ r \in Ledger!Request /\ r.op \in {"del", "set"} /\ ~r.done
            /\ Bears(r, r.old) \in Owned /\ UNCHANGED Owned
            => Ledger!Next
         /\ /\ r \in Ledger!Departure /\ ~r.done /\ r.user \in users /\ UNCHANGED Owned
            => Ledger!Next
<1>1. /\ r.op = "add" /\ r.done /\ r.user \in users
      /\ \A b \in Owned : b.domain # r.domain
      /\ Owned' = Owned \cup {Bears(r, r.on)}
      => Ledger!Bind(h, r)
  BY DEF Ledger!Bind, Ledger!Free, Ledger!Begin, Ledger!Proxied, Owned, Binds, Bears, Asking, AskedBy
<1>2. /\ r.op \in {"del", "set"} /\ ~r.done
      /\ Bears(r, r.old) \in Owned /\ UNCHANGED Owned
      => Ledger!Ask(h, r)
  BY DEF Ledger!Ask, Ledger!Begin, Ledger!Proxied, Owned, Binds, Bears, Asking, AskedBy
<1>3. ~r.done /\ r.user \in users /\ UNCHANGED Owned => Ledger!AskToLeave(h, r)
  BY DEF Ledger!AskToLeave, Ledger!Begin, Owned, Binds, Asking, AskedBy
<1>. QED
  BY <1>1, <1>2, <1>3 DEF Ledger!Next

LEMMA LedgerSteps ==
  ASSUME NEW h \in Handlers, NEW r, AskedBy[h] = r, r # None
  PROVE  /\ /\ r.op = "add" /\ r.done = TRUE /\ UNCHANGED users
            /\ Owned' = Owned \ OwnedAs(r) /\ Asking(h, None)
            => Ledger!Next
         /\ /\ r.op = "del" /\ r.done = FALSE /\ UNCHANGED users
            /\ Owned' = Owned \ OwnedAs(r) /\ Asking(h, Marked(r))
            => Ledger!Next
         /\ /\ r.op = "del" /\ r.done = TRUE /\ r.user \in users /\ UNCHANGED users
            /\ \A b \in Owned : b.domain # r.domain
            /\ Owned' = Owned \cup {Bears(r, r.old)} /\ Asking(h, None)
            => Ledger!Next
         /\ /\ r.op = "set" /\ r.done = FALSE /\ UNCHANGED users
            /\ Flags(r, r.on) /\ Asking(h, Marked(r))
            => Ledger!Next
         /\ /\ r.op = "set" /\ r.done = TRUE /\ UNCHANGED users
            /\ Flags(r, r.old) /\ Asking(h, None)
            => Ledger!Next
         /\ /\ r.op = "leave" /\ r.done = FALSE /\ users' = users \ {r.user}
            /\ Owned' = {b \in Owned : b.user # r.user} /\ Asking(h, Marked(r))
            => Ledger!Next
         /\ UNCHANGED <<users, Owned>> /\ Asking(h, None) => Ledger!Next
<1>. USE DEF Owned, Binds, AskedBy, OwnedAs, Bears, Asking, Flags,
             Ledger!Asks, Ledger!Own, Ledger!Over, Ledger!Done, Ledger!Proxied, Ledger!Free,
             Ledger!Flagged
<1>1. /\ r.op = "add" /\ r.done = TRUE /\ UNCHANGED users
      /\ Owned' = Owned \ OwnedAs(r) /\ Asking(h, None)
      => Ledger!Withdraw(h)
  BY DEF Marked, Ledger!Withdraw
<1>2. /\ r.op = "del" /\ r.done = FALSE /\ UNCHANGED users
      /\ Owned' = Owned \ OwnedAs(r) /\ Asking(h, Marked(r))
      => Ledger!Release(h)
  BY DEF Marked, Ledger!Release
<1>3. /\ r.op = "del" /\ r.done = TRUE /\ r.user \in users /\ UNCHANGED users
      /\ \A b \in Owned : b.domain # r.domain
      /\ Owned' = Owned \cup {Bears(r, r.old)} /\ Asking(h, None)
      => Ledger!Restore(h)
  BY DEF Marked, Ledger!Restore
<1>4. /\ r.op = "set" /\ r.done = FALSE /\ UNCHANGED users
      /\ Flags(r, r.on) /\ Asking(h, Marked(r))
      => Ledger!Switch(h)
  BY DEF Marked, Ledger!Switch
<1>5. /\ r.op = "set" /\ r.done = TRUE /\ UNCHANGED users
      /\ Flags(r, r.old) /\ Asking(h, None)
      => Ledger!SwitchBack(h)
  BY DEF Marked, Ledger!SwitchBack
<1>6. /\ r.op = "leave" /\ r.done = FALSE /\ users' = users \ {r.user}
      /\ Owned' = {b \in Owned : b.user # r.user} /\ Asking(h, Marked(r))
      => Ledger!Leave(h)
  BY DEF Marked, Ledger!Leave
<1>7. UNCHANGED <<users, Owned>> /\ Asking(h, None) => Ledger!End(h)
  BY DEF Marked, Ledger!End
<1>. QED
  BY <1>1, <1>2, <1>3, <1>4, <1>5, <1>6, <1>7 DEF Ledger!Next

(* What the writes of the table do to the bindings.                        *)
LEMMA InsertOwned ==
  ASSUME NEW i, NEW u, NEW d, NEW on, ~Bound(d),
         rows' = rows \cup {[id |-> i, user |-> u, domain |-> d, proxy |-> on]}
  PROVE  /\ Owned' = Owned \cup {[user |-> u, domain |-> d, proxy |-> on]}
         /\ \A b \in Owned : b.domain # d
<1>. DEFINE r == [id |-> i, user |-> u, domain |-> d, proxy |-> on]
            b == [user |-> u, domain |-> d, proxy |-> on]
<1>1. Binds(r) = b /\ rows' = rows \cup {r}
  BY DEF Binds
<1>2. \A c \in Owned : c.domain # d
  BY DEF Owned, Binds, Bound
<1>. HIDE DEF r, b
<1>. QED
  BY <1>1, <1>2 DEF Owned, b

LEMMA DropOwned ==
  ASSUME NEW r, rows' = rows \ RowOf(r.user, r.domain)
  PROVE  Owned' = Owned \ OwnedAs(r)
BY DEF Owned, OwnedAs, Binds, RowOf

LEMMA FlagOwned ==
  ASSUME TypeOK, NEW r, NEW i, NEW on \in BOOLEAN, rows' = Flagged(i, on),
         \A q \in rows : q.id = i => q.domain = r.domain /\ q.user = r.user
  PROVE  Flags(r, on)
<1>1. CASE \A q \in rows : q.id # i
  <2>1. rows' = rows
    BY <1>1 DEF Flagged
  <2>. QED
    BY <2>1 DEF Owned, Binds, Flags
<1>2. ASSUME NEW p \in rows, p.id = i PROVE Flags(r, on)
  <2>1. p.domain = r.domain /\ p.user = r.user
    BY <1>2
  <2>2. \A q \in rows : q.domain = r.domain \/ q.id = i => q = p
    BY <1>2, <2>1 DEF TypeOK
  <2>3. OwnedAs(r) = {Binds(p)}
    BY <2>1, <2>2 DEF OwnedAs, Owned, Binds
  <2>4. Binds([p EXCEPT !.proxy = on]) = Bears(r, on)
    BY <2>1 DEF Binds, Bears, TypeOK, Row
  <2>5. rows' = (rows \ {p}) \cup {[p EXCEPT !.proxy = on]}
    BY <1>2, <2>2 DEF Flagged
  <2>6. \A q \in rows : Binds(q) = Binds(p) => q = p
    <3>1. ASSUME NEW q \in rows, Binds(q) = Binds(p) PROVE q.domain = p.domain
      BY <3>1 DEF Binds
    <3>. QED
      BY <2>1, <2>2, <3>1
  <2>7. Owned' = (Owned \ {Binds(p)}) \cup {Bears(r, on)}
    BY <2>4, <2>5, <2>6 DEF Owned
  <2>. QED
    BY <2>3, <2>7 DEF Flags
<1>. QED
  BY <1>1, <1>2

LEMMA LeaveOwned ==
  ASSUME NEW u, rows' = {r \in rows : r.user # u}
  PROVE  Owned' = {b \in Owned : b.user # u}
BY DEF Owned, Binds

(* What the moves of a request do to what is asked.                        *)
LEMMA AskedAs ==
  /\ Asked(None) = None
  /\ \A r \in DomainRequest :
       /\ Asked(r) = [op |-> r.req, user |-> r.user, domain |-> r.domain, on |-> r.proxy,
                      old |-> r.old, done |-> r.at # "row"]
       /\ Asked(r) \in Ledger!Request
  /\ \A r \in PurgeRequest :
       /\ Asked(r) = [op |-> "leave", user |-> r.user, done |-> r.at # "cascade"]
       /\ Asked(r) \in Ledger!Departure
  /\ \A r \in SyncRequest : Asked(r) = None
<1>1. ASSUME NEW r \in DomainRequest
      PROVE  /\ Asked(r) = [op |-> r.req, user |-> r.user, domain |-> r.domain, on |-> r.proxy,
                            old |-> r.old, done |-> r.at # "row"]
             /\ Asked(r) \in Ledger!Request
  <2>1. r # None /\ r.req \in {"add", "del", "set"}
    BY RequestAssumption DEF DomainRequest
  <2>2. Asked(r) = [op |-> r.req, user |-> r.user, domain |-> r.domain, on |-> r.proxy,
                    old |-> r.old, done |-> r.at # "row"]
    BY <2>1 DEF Asked
  <2>3. /\ r.user \in Users /\ r.domain \in DomainNames
        /\ r.proxy \in BOOLEAN /\ r.old \in BOOLEAN
    BY DEF DomainRequest
  <2>. QED
    BY <2>1, <2>2, <2>3 DEF Ledger!Request
<1>2. ASSUME NEW r \in PurgeRequest
      PROVE  /\ Asked(r) = [op |-> "leave", user |-> r.user, done |-> r.at # "cascade"]
             /\ Asked(r) \in Ledger!Departure
  <2>1. r # None /\ r.req = "purge" /\ r.user \in Users
    BY RequestAssumption DEF PurgeRequest
  <2>2. Asked(r) = [op |-> "leave", user |-> r.user, done |-> r.at # "cascade"]
    BY <2>1 DEF Asked
  <2>. QED
    BY <2>1, <2>2 DEF Ledger!Departure
<1>3. ASSUME NEW r \in SyncRequest PROVE Asked(r) = None
  BY DEF Asked, SyncRequest
<1>4. Asked(None) = None
  BY DEF Asked
<1>. QED
  BY <1>1, <1>2, <1>3, <1>4

LEMMA AskedFields ==
  /\ \A r \in DomainRequest :
       /\ Asked(r).op = r.req /\ Asked(r).user = r.user /\ Asked(r).domain = r.domain
       /\ Asked(r).on = r.proxy /\ Asked(r).old = r.old /\ Asked(r).done = (r.at # "row")
  /\ \A r \in PurgeRequest :
       Asked(r).op = "leave" /\ Asked(r).user = r.user /\ Asked(r).done = (r.at # "cascade")
<1>1. ASSUME NEW r \in DomainRequest
      PROVE  /\ Asked(r).op = r.req /\ Asked(r).user = r.user /\ Asked(r).domain = r.domain
             /\ Asked(r).on = r.proxy /\ Asked(r).old = r.old
             /\ Asked(r).done = (r.at # "row")
  <2>1. Asked(r) = [op |-> r.req, user |-> r.user, domain |-> r.domain, on |-> r.proxy,
                    old |-> r.old, done |-> r.at # "row"]
    BY AskedAs
  <2>. QED
    BY <2>1
<1>2. ASSUME NEW r \in PurgeRequest
      PROVE  Asked(r).op = "leave" /\ Asked(r).user = r.user
             /\ Asked(r).done = (r.at # "cascade")
  <2>1. Asked(r) = [op |-> "leave", user |-> r.user, done |-> r.at # "cascade"]
    BY AskedAs
  <2>. QED
    BY <2>1
<1>. QED
  BY <1>1, <1>2

LEMMA AskedMoves ==
  ASSUME TypeOK, NEW h \in Handlers, NEW r, request' = [request EXCEPT ![h] = r]
  PROVE  Asking(h, Asked(r))
BY DEF TypeOK, Asking, AskedBy

LEMMA AskedStays ==
  ASSUME TypeOK, NEW h \in Handlers, NEW r, request' = [request EXCEPT ![h] = r],
         Asked(r) = Asked(request[h])
  PROVE  AskedBy' = AskedBy
<1>1. Asking(h, Asked(request[h]))
  BY AskedMoves
<1>. QED
  BY <1>1 DEF Asking, AskedBy

LEMMA AskedBegins ==
  ASSUME TypeOK, NEW h \in Handlers, NEW r, Begin(h, r)
  PROVE  AskedBy[h] = None /\ Asking(h, Asked(r))
<1>1. AskedBy[h] = None
  BY AskedAs DEF Begin, Idle, AskedBy
<1>2. \A g \in Busy : request[g].req = "sync" =>
        Asked([request[g] EXCEPT !.clean = FALSE]) = Asked(request[g])
  <2>1. ASSUME NEW g \in Busy, request[g].req = "sync"
        PROVE  Asked([request[g] EXCEPT !.clean = FALSE]) = Asked(request[g])
    <3>1. request[g] \in SyncRequest
      BY <2>1, RequestKinds DEF Busy
    <3>2. [request[g] EXCEPT !.clean = FALSE] \in SyncRequest
      BY <3>1 DEF SyncRequest
    <3>. QED
      BY <3>1, <3>2, AskedAs
  <2>. QED
    BY <2>1
<1>3. \A g \in Handlers : Asked(request'[g]) = IF g = h THEN Asked(r) ELSE Asked(request[g])
  BY <1>2 DEF Begin
<1>. QED
  BY <1>1, <1>3 DEF Asking, AskedBy

LEMMA AskedGoes ==
  ASSUME TypeOK, NEW h \in Handlers, request[h] \in DomainRequest,
         NEW at \in {"write", "rename", "undo", "remove"}, Goto(h, at)
  PROVE  /\ request[h].at = "row" => Asking(h, Marked(Asked(request[h])))
         /\ request[h].at # "row" => AskedBy' = AskedBy
<1>. DEFINE r == request[h]
            s == [request[h] EXCEPT !.at = at]
<1>1. request' = [request EXCEPT ![h] = s]
  BY DEF Goto
<1>2. s \in DomainRequest
  BY StepTypes
<1>3. /\ s.req = r.req /\ s.user = r.user /\ s.domain = r.domain /\ s.proxy = r.proxy
      /\ s.old = r.old /\ s.at = at
  BY DEF DomainRequest
<1>4. Asked(s) = [op |-> r.req, user |-> r.user, domain |-> r.domain, on |-> r.proxy,
                  old |-> r.old, done |-> TRUE]
  BY <1>2, <1>3, AskedAs
<1>5. Asked(r) = [op |-> r.req, user |-> r.user, domain |-> r.domain, on |-> r.proxy,
                  old |-> r.old, done |-> r.at # "row"]
  BY AskedAs
<1>7. r.at # "row" => Asked(s) = Asked(r)
  BY <1>4, <1>5
<1>. HIDE DEF s, r
<1>6. Asked(s) = Marked(Asked(r))
  <2>1. Asked(r) \in Ledger!Request
    BY AskedAs DEF r
  <2>2. Marked(Asked(r)) = [op |-> r.req, user |-> r.user, domain |-> r.domain, on |-> r.proxy,
                            old |-> r.old, done |-> TRUE]
    BY <1>5, <2>1, MarkedAs
  <2>. QED
    BY <1>4, <2>2
<1>8. Asking(h, Asked(s))
  BY <1>1, AskedMoves
<1>9. r.at # "row" => AskedBy' = AskedBy
  BY <1>1, <1>7, AskedStays DEF r
<1>. QED
  BY <1>6, <1>8, <1>9 DEF r

(* A request that ends, whatever was asked.                                *)
LEMMA EndMaps ==
  ASSUME TypeOK, NEW h \in Handlers, request' = [request EXCEPT ![h] = None],
         UNCHANGED <<users, rows>>
  PROVE  Ledger!Next \/ Stays
<1>1. Asking(h, None)
  BY AskedMoves, AskedAs
<1>2. UNCHANGED <<users, Owned>>
  BY DEF Owned, Binds
<1>3. CASE AskedBy[h] # None
  <2>1. Ledger!End(h)
    BY <1>1, <1>2, <1>3
       DEF Ledger!End, Ledger!Over, Asking, AskedBy, Owned, Binds
  <2>. QED
    BY <2>1 DEF Ledger!Next
<1>4. CASE AskedBy[h] = None
  BY <1>1, <1>2, <1>4 DEF Asking, Stays, AskedBy
<1>. QED
  BY <1>3, <1>4

LEMMA ArriveMaps ==
  ASSUME TypeOK, NEW h \in Handlers, Arrive(h)
  PROVE  Ledger!Next \/ Stays
<1>1. CASE SyncAllDomains(h)
  <2>. PICK r : r = [req |-> "sync", at |-> "write", user |-> None,
                     known |-> {q.domain : q \in rows}, todo |-> rows, now |-> None,
                     files |-> {}, clean |-> Busy = {}]
    OBVIOUS
  <2>1. r \in SyncRequest /\ Begin(h, r) /\ UNCHANGED <<users, rows>>
    BY <1>1, TypeParts DEF SyncAllDomains, SyncRequest, Constraints, Row
  <2>2. AskedBy[h] = None /\ Asking(h, None)
    BY <2>1, AskedBegins, AskedAs
  <2>. QED
    BY <2>1, <2>2 DEF Asking, AskedBy, Stays, Owned, Binds
<1>2. ASSUME NEW u \in Users, Del(h, u) PROVE Ledger!Next
  <2>1. PICK listed \in SUBSET DomainsOf(u) :
          Begin(h, [req |-> "purge", at |-> "cascade", user |-> u, todo |-> listed])
    BY <1>2 DEF Del
  <2>. PICK r : r = [req |-> "purge", at |-> "cascade", user |-> u, todo |-> listed]
    OBVIOUS
  <2>2. r \in PurgeRequest /\ r.user \in users /\ r.at = "cascade"
    BY <1>2, TypeParts DEF Del, PurgeRequest, Constraints, Row, DomainsOf
  <2>3. Asked(r) \in Ledger!Departure /\ Asked(r).user \in users /\ ~Asked(r).done
    <3>1. Asked(r) \in Ledger!Departure
      BY <2>2, AskedAs
    <3>2. Asked(r).user = r.user /\ Asked(r).done = (r.at # "cascade")
      BY <2>2, AskedFields
    <3>. QED
      BY <2>2, <3>1, <3>2
  <2>4. AskedBy[h] = None /\ Asking(h, Asked(r))
    BY <2>1, AskedBegins
  <2>5. UNCHANGED <<users, Owned>>
    BY <1>2 DEF Del, Owned, Binds
  <2>. QED
    BY <2>3, <2>4, <2>5, LedgerBegins
<1>3. ASSUME NEW u \in Users, NEW d \in DomainNames, NEW r \in DomainRequest, NEW q \in RowOf(u, d),
             r.req \in {"del", "set"}, r.at = "row", r.user = u, r.domain = d, r.old = q.proxy,
             Begin(h, r), UNCHANGED <<users, rows>>
      PROVE  Ledger!Next
  <2>1. /\ Asked(r) \in Ledger!Request /\ Asked(r).op \in {"del", "set"} /\ ~Asked(r).done
        /\ Bears(Asked(r), Asked(r).old) = Binds(q)
    <3>1. Asked(r) \in Ledger!Request
      BY AskedAs
    <3>3. /\ Asked(r).op = r.req /\ Asked(r).user = r.user /\ Asked(r).domain = r.domain
          /\ Asked(r).old = r.old /\ Asked(r).done = (r.at # "row")
      BY AskedFields
    <3>2. q.user = u /\ q.domain = d
      BY DEF RowOf
    <3>. QED
      BY <1>3, <3>1, <3>2, <3>3 DEF Bears, Binds
  <2>2. AskedBy[h] = None /\ Asking(h, Asked(r))
    BY <1>3, AskedBegins
  <2>3. UNCHANGED <<users, Owned>> /\ Binds(q) \in Owned
    BY <1>3 DEF Owned, Binds, RowOf
  <2>. QED
    BY <2>1, <2>2, <2>3, LedgerBegins
<1>4. ASSUME NEW u \in Users, NEW d \in DomainNames, DelDomain(h, u, d) PROVE Ledger!Next
  <2>1. PICK q \in RowOf(u, d) :
          Begin(h, [req |-> "del", at |-> "row", user |-> u, domain |-> d, id |-> None,
                    proxy |-> q.proxy, old |-> q.proxy])
    BY <1>4 DEF DelDomain
  <2>. PICK r : r = [req |-> "del", at |-> "row", user |-> u, domain |-> d, id |-> None,
                     proxy |-> q.proxy, old |-> q.proxy]
    OBVIOUS
  <2>2. r \in DomainRequest
    BY TypeParts DEF DomainRequest, RowOf, Constraints, Row
  <2>3. UNCHANGED <<users, rows>>
    BY <1>4 DEF DelDomain
  <2>. QED
    BY <1>3, <2>1, <2>2, <2>3
<1>5. ASSUME NEW u \in Users, NEW d \in DomainNames, NEW on \in BOOLEAN,
             SetDomainProtocol(h, u, d, on)
      PROVE  Ledger!Next
  <2>1. PICK q \in RowOf(u, d) :
          Begin(h, [req |-> "set", at |-> "row", user |-> u, domain |-> d, id |-> q.id,
                    proxy |-> on, old |-> q.proxy])
    BY <1>5 DEF SetDomainProtocol
  <2>. PICK r : r = [req |-> "set", at |-> "row", user |-> u, domain |-> d, id |-> q.id,
                     proxy |-> on, old |-> q.proxy]
    OBVIOUS
  <2>2. r \in DomainRequest
    BY TypeParts DEF DomainRequest, RowOf, Constraints, Row
  <2>3. UNCHANGED <<users, rows>>
    BY <1>5 DEF SetDomainProtocol
  <2>. QED
    BY <1>3, <2>1, <2>2, <2>3
<1>6. ASSUME NEW u \in Users, NEW d \in DomainNames, NEW on \in BOOLEAN, AddDomain(h, u, d, on)
      PROVE  Ledger!Next
  <2>. PICK r : r = [req |-> "add", at |-> "write", user |-> u, domain |-> d, id |-> None,
                     proxy |-> on, old |-> on]
    OBVIOUS
  <2>1. r \in DomainRequest
    BY DEF DomainRequest
  <2>2. PICK i \in FreshIds :
          rows' = rows \cup {[id |-> i, user |-> u, domain |-> d, proxy |-> on]} /\ Begin(h, r)
    BY <1>6 DEF AddDomain
  <2>3. u \in users /\ ~Bound(d) /\ UNCHANGED users
    BY <1>6 DEF AddDomain
  <2>7. /\ Asked(r) \in Ledger!Request
        /\ Asked(r).op = r.req /\ Asked(r).user = r.user /\ Asked(r).domain = r.domain
        /\ Asked(r).on = r.proxy /\ Asked(r).done = (r.at # "row")
    BY <2>1, AskedAs, AskedFields
  <2>8. r.req = "add" /\ r.at = "write" /\ r.user = u /\ r.domain = d /\ r.proxy = on
    OBVIOUS
  <2>4. /\ Asked(r) \in Ledger!Request /\ Asked(r).op = "add" /\ Asked(r).done
        /\ Asked(r).user = u /\ Asked(r).domain = d
        /\ Bears(Asked(r), Asked(r).on) = [user |-> u, domain |-> d, proxy |-> on]
    BY <2>7, <2>8 DEF Bears
  <2>5. AskedBy[h] = None /\ Asking(h, Asked(r))
    BY <2>2, AskedBegins
  <2>6. /\ Owned' = Owned \cup {[user |-> u, domain |-> d, proxy |-> on]}
        /\ \A b \in Owned : b.domain # d
    BY <2>2, <2>3, InsertOwned
  <2>. QED
    BY <2>3, <2>4, <2>5, <2>6, LedgerBegins
<1>. QED
  BY <1>1, <1>2, <1>4, <1>5, <1>6 DEF Arrive

(* A step of a request on one domain.                                      *)
LEMMA DomainMaps ==
  ASSUME TypeOK, IdsKept, NEW h \in Handlers,
         \/ DelRow(h) \/ DelFile(h) \/ DelUndo(h)
         \/ SetRow(h) \/ WriteTmp(h) \/ RenameTmp(h) \/ AddUndo(h) \/ SetUndo(h)
  PROVE  Ledger!Next \/ Stays
<1>. DEFINE r == request[h]
            a == Asked(request[h])
<1>0. /\ r \in DomainRequest /\ r.user \in Users /\ r.domain \in DomainNames
      /\ r.proxy \in BOOLEAN /\ r.old \in BOOLEAN /\ h \in Busy
      /\ a = [op |-> r.req, user |-> r.user, domain |-> r.domain, on |-> r.proxy,
              old |-> r.old, done |-> r.at # "row"]
      /\ a # None /\ AskedBy[h] = a
  <2>1. PICK req, at : req \in DomainKinds /\ Serves(h, req, at)
    BY DEF DelRow, DelFile, DelUndo, SetRow, WriteTmp, RenameTmp, AddUndo, SetUndo, DomainKinds
  <2>2. r \in DomainRequest /\ r.user \in Users /\ r.domain \in DomainNames
        /\ r.proxy \in BOOLEAN /\ r.old \in BOOLEAN /\ h \in Busy
    BY <2>1, ServesDomain DEF Serves, Busy
  <2>3. a = [op |-> r.req, user |-> r.user, domain |-> r.domain, on |-> r.proxy,
             old |-> r.old, done |-> r.at # "row"]
    BY <2>2, AskedAs
  <2>4. a # None
    BY <2>2, AskedAs, AskedAssumption
  <2>. QED
    BY <2>2, <2>3, <2>4 DEF AskedBy
<1>1. /\ a.op = r.req /\ a.user = r.user /\ a.domain = r.domain /\ a.on = r.proxy
      /\ a.old = r.old /\ a.done = (r.at # "row")
      /\ \A flag : Bears(a, flag) = [user |-> r.user, domain |-> r.domain, proxy |-> flag]
  BY <1>0 DEF Bears
<1>. HIDE DEF a
<1>2. UNCHANGED rows => UNCHANGED Owned
  BY DEF Owned, Binds
<1>3. ASSUME Finish(h) \/ GiveUp(h) PROVE request' = [request EXCEPT ![h] = None]
  BY <1>3 DEF Finish, GiveUp
<1>4. ASSUME Finish(h) \/ GiveUp(h) PROVE Asking(h, None)
  BY <1>3, <1>4, AskedMoves, AskedAs
<1>5. ASSUME Finish(h) \/ GiveUp(h), UNCHANGED <<users, rows>> PROVE Ledger!Next \/ Stays
  BY <1>3, <1>5, EndMaps
<1>6. ASSUME NEW at \in {"write", "rename", "undo", "remove"}, Goto(h, at), r.at # "row",
             UNCHANGED <<users, rows>>
      PROVE  Stays
  <2>1. AskedBy' = AskedBy
    BY <1>0, <1>6, AskedGoes
  <2>. QED
    BY <1>2, <1>6, <2>1 DEF Stays
<1>7. ASSUME NEW at \in {"write", "rename", "undo", "remove"}, Goto(h, at), r.at = "row"
      PROVE  Asking(h, Marked(a))
  BY <1>0, <1>7, AskedGoes DEF a
<1>8. CASE DelRow(h)
  <2>1. CASE RowOf(r.user, r.domain) = {}
    BY <1>5, <1>8, <2>1 DEF DelRow
  <2>2. CASE RowOf(r.user, r.domain) # {}
    <3>1. /\ r.req = "del" /\ r.at = "row" /\ Goto(h, "remove") /\ UNCHANGED users
          /\ rows' = rows \ RowOf(a.user, a.domain)
      BY <1>1, <1>8, <2>2 DEF DelRow, Serves
    <3>2. Asking(h, Marked(a))
      BY <1>7, <3>1
    <3>. QED
      BY <1>0, <1>1, <3>1, <3>2, DropOwned, LedgerSteps
  <2>. QED
    BY <2>1, <2>2
<1>9. CASE DelFile(h)
  BY <1>5, <1>6, <1>9 DEF DelFile, Serves
<1>10. CASE DelUndo(h)
  <2>1. CASE GiveUp(h) /\ UNCHANGED rows
    BY <1>5, <1>10, <2>1 DEF DelUndo
  <2>2. ASSUME NEW i \in FreshIds, r.user \in users, ~Bound(r.domain), Finish(h),
               rows' = rows \cup {[id |-> i, user |-> r.user, domain |-> r.domain,
                                   proxy |-> r.old]}
        PROVE  Ledger!Next
    <3>1. r.req = "del" /\ r.at = "undo" /\ UNCHANGED users
      BY <1>10 DEF DelUndo, Serves
    <3>2. /\ Owned' = Owned \cup {Bears(a, a.old)}
          /\ \A b \in Owned : b.domain # a.domain
      <4>1. /\ Owned' = Owned \cup {[user |-> r.user, domain |-> r.domain, proxy |-> r.old]}
            /\ \A b \in Owned : b.domain # r.domain
        BY <2>2, InsertOwned
      <4>2. Bears(a, a.old) = [user |-> r.user, domain |-> r.domain, proxy |-> r.old]
        BY <1>1
      <4>. HIDE DEF r
      <4>. QED
        BY <1>1, <4>1, <4>2
    <3>3. a.op = "del" /\ a.done = TRUE /\ a.user \in users /\ Asking(h, None)
      BY <1>1, <1>4, <2>2, <3>1
    <3>. QED
      BY <1>0, <3>1, <3>2, <3>3, LedgerSteps
  <2>. QED
    BY <1>10, <2>1, <2>2 DEF DelUndo
<1>11. ASSUME r.req = "set"
       PROVE  \A q \in rows : q.id = r.id => q.domain = a.domain /\ q.user = a.user
  BY <1>0, <1>1, <1>11 DEF IdsKept
<1>12. CASE SetRow(h)
  <2>1. /\ r.req = "set" /\ r.at = "row" /\ Goto(h, "write") /\ UNCHANGED users
        /\ rows' = Flagged(r.id, a.on)
    BY <1>1, <1>12 DEF SetRow, Serves
  <2>2. Flags(a, a.on)
    BY <1>0, <1>1, <1>11, <2>1, FlagOwned
  <2>3. Asking(h, Marked(a))
    BY <1>7, <2>1
  <2>. QED
    BY <1>0, <1>1, <2>1, <2>2, <2>3, LedgerSteps
<1>13. CASE WriteTmp(h)
  <2>1. r.at # "row" /\ UNCHANGED <<users, rows>> /\ (Goto(h, "rename") \/ Goto(h, "undo"))
    BY <1>13 DEF WriteTmp, Serves
  <2>. QED
    BY <1>6, <2>1
<1>14. CASE RenameTmp(h)
  <2>1. r.at # "row" /\ UNCHANGED <<users, rows>> /\ (Finish(h) \/ Goto(h, "undo"))
    BY <1>14 DEF RenameTmp, Serves
  <2>. QED
    BY <1>5, <1>6, <2>1
<1>15. CASE AddUndo(h)
  <2>1. CASE GiveUp(h) /\ UNCHANGED rows
    BY <1>5, <1>15, <2>1 DEF AddUndo
  <2>2. CASE Finish(h) /\ rows' = rows \ RowOf(r.user, r.domain)
    <3>1. a.op = "add" /\ a.done = TRUE /\ UNCHANGED users /\ rows' = rows \ RowOf(a.user, a.domain)
      BY <1>1, <1>15, <2>2 DEF AddUndo, Serves
    <3>2. Asking(h, None)
      BY <1>4, <2>2
    <3>. QED
      BY <1>0, <3>1, <3>2, DropOwned, LedgerSteps
  <2>. QED
    BY <1>15, <2>1, <2>2 DEF AddUndo
<1>16. CASE SetUndo(h)
  <2>1. CASE GiveUp(h) /\ UNCHANGED rows
    BY <1>5, <1>16, <2>1 DEF SetUndo
  <2>2. CASE Finish(h) /\ rows' = Flagged(r.id, r.old)
    <3>1. r.req = "set" /\ a.op = "set" /\ a.done = TRUE /\ UNCHANGED users
      BY <1>1, <1>16 DEF SetUndo, Serves
    <3>2. Flags(a, a.old)
      BY <1>0, <1>1, <1>11, <2>2, <3>1, FlagOwned
    <3>3. Asking(h, None)
      BY <1>4, <2>2
    <3>. QED
      BY <1>0, <3>1, <3>2, <3>3, LedgerSteps
  <2>. QED
    BY <1>16, <2>1, <2>2 DEF SetUndo
<1>. QED
  BY <1>8, <1>9, <1>10, <1>12, <1>13, <1>14, <1>15, <1>16

LEMMA PurgeMaps ==
  ASSUME TypeOK, NEW h \in Handlers,
         \/ DeleteUser(h) \/ DeleteSessionsForUser(h) \/ PurgeDone(h)
         \/ \E d \in DomainNames : PurgeFile(h, d)
  PROVE  Ledger!Next \/ Stays
<1>. DEFINE r == request[h]
            a == Asked(request[h])
<1>0. r \in PurgeRequest
  BY ServesPurge DEF DeleteUser, DeleteSessionsForUser, PurgeDone, PurgeFile
<1>1. /\ a = [op |-> "leave", user |-> r.user, done |-> r.at # "cascade"]
      /\ a # None /\ AskedBy[h] = a
  BY <1>0, AskedAs, AskedAssumption DEF AskedBy
<1>2. UNCHANGED rows => UNCHANGED Owned
  BY DEF Owned, Binds
<1>3. ASSUME request' = [request EXCEPT ![h] = None], UNCHANGED <<users, rows>>
      PROVE  Ledger!Next \/ Stays
  BY <1>3, EndMaps
<1>4. CASE DeleteUser(h)
  <2>1. CASE Finish(h) /\ UNCHANGED <<users, rows>>
    BY <1>3, <2>1 DEF Finish
  <2>2. CASE /\ users' = users \ {r.user}
             /\ rows' = {q \in rows : q.user # r.user}
             /\ request' = [request EXCEPT ![h].at = "sessions"]
    <3>. DEFINE s == [r EXCEPT !.at = "sessions"]
    <3>1. s \in PurgeRequest /\ s.user = r.user /\ s.at = "sessions"
      BY <1>0, StepTypes DEF PurgeRequest
    <3>2. Asked(s) = [op |-> "leave", user |-> r.user, done |-> TRUE]
      BY <3>1, AskedAs
    <3>3. r.at = "cascade"
      BY <1>4 DEF DeleteUser, Serves
    <3>5. request' = [request EXCEPT ![h] = s]
      BY <2>2
    <3>8. rows' = {q \in rows : q.user # r.user} /\ users' = users \ {r.user}
      BY <2>2
    <3>. HIDE DEF a, s, r
    <3>4. Asked(s) = Marked(a) /\ a.op = "leave" /\ a.done = FALSE /\ a.user = r.user
      <4>1. a \in Ledger!Departure
        BY <1>0, AskedAs DEF a, r
      <4>2. a.op = "leave" /\ a.done = FALSE /\ a.user = r.user
        BY <1>0, <3>3, AskedFields DEF a, r
      <4>3. Marked(a) = [op |-> "leave", user |-> r.user, done |-> TRUE]
        BY <4>1, <4>2, MarkedAs
      <4>. QED
        BY <3>2, <4>2, <4>3
    <3>6. Asking(h, Marked(a))
      BY <3>4, <3>5, AskedMoves
    <3>7. Owned' = {b \in Owned : b.user # a.user}
      BY <3>4, <3>8, LeaveOwned
    <3>. QED
      BY <1>1, <3>4, <3>6, <3>7, <3>8, LedgerSteps
  <2>. QED
    BY <1>4, <2>1, <2>2 DEF DeleteUser
<1>5. CASE DeleteSessionsForUser(h)
  <2>1. CASE GiveUp(h)
    BY <1>3, <1>5, <2>1 DEF DeleteSessionsForUser, GiveUp
  <2>2. CASE Goto(h, "remove")
    <3>. DEFINE s == [r EXCEPT !.at = "remove"]
    <3>1. s \in PurgeRequest /\ s.user = r.user /\ s.at = "remove" /\ r.at = "sessions"
      BY <1>0, <1>5, StepTypes DEF PurgeRequest, DeleteSessionsForUser, Serves
    <3>2. Asked(s) = a
      <4>1. Asked(s) = [op |-> "leave", user |-> r.user, done |-> TRUE]
        BY <3>1, AskedAs
      <4>. QED
        BY <1>1, <3>1, <4>1
    <3>3. request' = [request EXCEPT ![h] = s]
      BY <2>2 DEF Goto
    <3>. HIDE DEF s
    <3>4. AskedBy' = AskedBy
      BY <3>2, <3>3, AskedStays
    <3>. QED
      BY <1>2, <1>5, <3>4 DEF DeleteSessionsForUser, Stays
  <2>. QED
    BY <1>5, <2>1, <2>2 DEF DeleteSessionsForUser
<1>6. CASE PurgeDone(h)
  BY <1>3, <1>6 DEF PurgeDone, Finish
<1>7. ASSUME NEW d \in DomainNames, PurgeFile(h, d) PROVE Stays
  <2>. DEFINE s == [r EXCEPT !.todo = @ \ {d}]
  <2>1. s \in PurgeRequest /\ s.user = r.user /\ s.at = r.at
    BY <1>0 DEF PurgeRequest
  <2>2. Asked(s) = a
    <3>1. Asked(s) = [op |-> "leave", user |-> s.user, done |-> s.at # "cascade"]
      BY <2>1, AskedAs
    <3>. HIDE DEF s
    <3>. QED
      BY <1>1, <2>1, <3>1
  <2>3. request' = [request EXCEPT ![h] = s] /\ UNCHANGED <<users, rows>>
    BY <1>7 DEF PurgeFile
  <2>. HIDE DEF s
  <2>4. AskedBy' = AskedBy
    BY <2>2, <2>3, AskedStays
  <2>. QED
    BY <1>2, <2>3, <2>4 DEF Stays
<1>. QED
  BY <1>4, <1>5, <1>6, <1>7

(* A step of a sync asks for nothing.                                      *)
LEMMA SyncMaps ==
  ASSUME TypeOK, TypeOK', NEW h \in Handlers,
         \/ SyncList(h) \/ SyncDone(h) \/ SyncRename(h)
         \/ (\E d \in DomainNames : SyncRemove(h, d)) \/ (\E r \in Row : SyncWrite(h, r))
  PROVE  Stays
<1>1. request[h].req = "sync" /\ request[h] \in SyncRequest /\ UNCHANGED <<users, rows>>
  BY ServesSync DEF SyncList, SyncDone, SyncRename, SyncRemove, SyncWrite, Serves
<1>2. \A g \in Handlers : g # h => request'[g] = request[g]
  BY DEF SyncList, SyncDone, SyncRename, SyncRemove, SyncWrite, TypeOK
<1>3. request'[h] = None \/ request'[h].req = "sync"
  <2>1. CASE SyncList(h)
    BY <1>1, <2>1 DEF SyncList, TypeOK, SyncRequest
  <2>2. CASE SyncDone(h)
    BY <2>2 DEF SyncDone, TypeOK
  <2>3. CASE SyncRename(h)
    <3>1. \E clean : \/ request' = [request EXCEPT ![h].at = "write", ![h].now = None]
                      \/ request' = [request EXCEPT ![h].at = "write", ![h].now = None,
                                                    ![h].clean = clean]
      BY <2>3 DEF SyncRename
    <3>. QED
      BY <1>1, <3>1 DEF TypeOK, SyncRequest
  <2>4. ASSUME NEW d \in DomainNames, SyncRemove(h, d)
        PROVE  request'[h] = None \/ request'[h].req = "sync"
    BY <1>1, <2>4 DEF SyncRemove, TypeOK, SyncRequest
  <2>5. ASSUME NEW r \in Row, SyncWrite(h, r)
        PROVE  request'[h] = None \/ request'[h].req = "sync"
    <3>1. \/ request' = [request EXCEPT ![h].at = "rename", ![h].todo = @ \ {r}, ![h].now = r]
          \/ request' = [request EXCEPT ![h].todo = @ \ {r}, ![h].clean = FALSE]
      BY <2>5 DEF SyncWrite
    <3>. QED
      BY <1>1, <3>1 DEF TypeOK, SyncRequest
  <2>. QED
    BY <2>1, <2>2, <2>3, <2>4, <2>5
<1>4. Asked(request[h]) = None /\ Asked(request'[h]) = None
  BY <1>1, <1>3 DEF Asked
<1>5. AskedBy' = AskedBy
  BY <1>2, <1>4 DEF AskedBy
<1>. QED
  BY <1>1, <1>5 DEF Stays, Owned, Binds

LEMMA StepMaps ==
  ASSUME TypeOK, TypeOK', IdsKept, [Next]_vars
  PROVE  Ledger!Next \/ Stays
<1>1. ASSUME NEW u \in Users, CreateUser(u) PROVE Ledger!Join(u)
  <2>1. \A h \in Handlers : AskedBy[h] # None => AskedBy[h].user # u
    <3>1. ASSUME NEW h \in Handlers, AskedBy[h] # None PROVE AskedBy[h].user # u
      <4>1. request[h] \in DomainRequest \cup PurgeRequest
        BY <3>1, AskedAs DEF AskedBy, TypeOK
      <4>2. AskedBy[h].user = request[h].user
        BY <4>1, AskedAs DEF AskedBy
      <4>3. h \in Busy
        BY <4>1, RequestAssumption DEF Busy, Idle
      <4>. QED
        BY <1>1, <4>2, <4>3 DEF CreateUser
    <3>. QED
      BY <3>1
  <2>2. UNCHANGED <<Owned, AskedBy>>
    BY <1>1 DEF CreateUser, Owned, Binds, AskedBy
  <2>. QED
    BY <1>1, <2>1, <2>2 DEF CreateUser, Ledger!Join, Owned, Binds, AskedBy
<1>2. ASSUME NEW h \in Handlers, Continue(h) PROVE Ledger!Next \/ Stays
  BY <1>2, DomainMaps, PurgeMaps, SyncMaps DEF Continue
<1>3. ASSUME NEW h \in Handlers, Crash(h) PROVE Ledger!Next \/ Stays
  BY <1>3, EndMaps DEF Crash, GiveUp
<1>4. CASE UNCHANGED vars
  BY <1>4 DEF vars, Stays, Owned, Binds, AskedBy
<1>5. (\E u \in Users : Ledger!Join(u)) => Ledger!Next
  BY DEF Ledger!Next
<1>. QED
  BY <1>1, <1>2, <1>3, <1>4, <1>5, ArriveMaps DEF Next

(* Every write of the table is what some account asked for, and asked for  *)
(* when the binding was its own: whatever requests overlap, fail or die, a *)
(* request changes the binding of its account once and takes that back     *)
(* once, and never touches a domain that has gone to another account in    *)
(* between (mgr.go:907-1004, domain.go:20-125).                            *)
THEOREM ImplementsOwnership == Spec => TableImplementsOwnership
<1>1. Init => Ledger!Init
  BY AskedAs DEF Init, Ledger!Init
<1>2. TypeOK /\ TypeOK' /\ FollowInv /\ [Next]_vars => [Ledger!Next]_(Ledger!vars)
  <2>1. Stays => UNCHANGED Ledger!vars
    BY DEF Stays, Owned, Binds, AskedBy, Ledger!vars
  <2>. QED
    BY <2>1, StepMaps DEF FollowInv
<1>. QED
  BY <1>1, <1>2, TableWellFormed, FollowsAlways, PTL
  DEF Spec, TableImplementsOwnership, Ledger!Spec
=============================================================================
