------------------------------ MODULE Domains ------------------------------
(***************************************************************************)
(* Domains: Manager.AddDomain, DelDomain, SetDomainProtocol and            *)
(* SyncAllDomains (internal/mgr/mgr.go) and the part of Manager.Del that   *)
(* clears a user's domains, over the domains table (internal/db/domain.go) *)
(* and the one file per domain that traefik serves (internal/tfx/tfx.go).  *)
(*                                                                         *)
(* The two stores are written one after the other, the table first, and    *)
(* nothing locks them: the requests of users, of the admin and of the CLI  *)
(* interleave at every call. Del holds opMu, which the others do not take. *)
(***************************************************************************)
EXTENDS Naturals, FiniteSets

CONSTANTS
  Handlers,    \* goroutines and commands that serve requests
  Users,       \* accounts: values of users.id, each with an IP of its own
  DomainNames,
  Ids,         \* values of domains.id
  None,        \* no file, no request
  Faults       \* calls that may fail, out of FaultKinds

FaultKinds == {"write", "remove", "rollback", "list", "row", "sessions", "crash"}

ASSUME FaultsAssumption == Faults \subseteq FaultKinds
ASSUME NoneAssumption == None \notin Users \cup Ids \cup [user : Users, proxy : BOOLEAN]

VARIABLES
  users,   \* accounts in the users table
  rows,    \* the domains table
  yaml,    \* <domain>.yaml: what traefik serves for each domain
  tmp,     \* <domain>.yaml.tmp
  request, \* per handler: the request it serves, at its next call
  drift    \* history: domains whose two copies something has come between

vars == <<users, rows, yaml, tmp, request, drift>>

Row == [id : Ids, user : Users, domain : DomainNames, proxy : BOOLEAN]
File == [user : Users, proxy : BOOLEAN]

(* proxy is the flag to write, old the flag to restore, id the row that    *)
(* SetDomainProtocol updates.                                              *)
DomainRequest == [req : {"add", "del", "set"}, at : {"row", "write", "rename", "undo", "remove"},
                  user : Users, domain : DomainNames, id : Ids \cup {None}, proxy : BOOLEAN,
                  old : BOOLEAN]
PurgeRequest == [req : {"purge"}, at : {"cascade", "sessions", "remove"}, user : Users,
                 todo : SUBSET DomainNames]
SyncRequest == [req : {"sync"}, at : {"write", "rename", "remove"}, user : {None},
                known : SUBSET DomainNames, todo : SUBSET Row, now : Row \cup {None},
                files : SUBSET DomainNames, clean : BOOLEAN]

ASSUME RequestAssumption == None \notin DomainRequest \cup PurgeRequest \cup SyncRequest

(* The types, and the constraints of the schema: a domain is bound   *)
(* once, to an account that exists.                                        *)
TypeOK ==
  /\ users \subseteq Users
  /\ rows \subseteq Row
  /\ \A r \in rows : r.user \in users
  /\ \A r, q \in rows : r.domain = q.domain \/ r.id = q.id => r = q
  /\ yaml \in [DomainNames -> File \cup {None}]
  /\ tmp \in [DomainNames -> File \cup {None}]
  /\ request \in [Handlers -> DomainRequest \cup PurgeRequest \cup SyncRequest \cup {None}]
  /\ drift \subseteq DomainNames

Init ==
  /\ users = {} /\ rows = {} /\ drift = {}
  /\ yaml = [d \in DomainNames |-> None]
  /\ tmp = [d \in DomainNames |-> None]
  /\ request = [h \in Handlers |-> None]

-----------------------------------------------------------------------------
(* Requests begin, move on and end.                                        *)

Idle(h) == request[h] = None
Busy == {h \in Handlers : ~Idle(h)}
Serves(h, req, at) == ~Idle(h) /\ request[h].req = req /\ request[h].at = at

(* The domains a request still has work to do on.                          *)
Reach(r) == CASE r.req = "sync" -> DomainNames
              [] r.req = "purge" -> r.todo
              [] OTHER -> {r.domain}

(* Two requests meet on the domains they both work on, and a user's        *)
(* deletion meets every request on a domain of that user.                  *)
Meet(r, q) ==
  IF r.user = q.user /\ "purge" \in {r.req, q.req} THEN Reach(r) \cup Reach(q)
  ELSE Reach(r) \cap Reach(q)

(* The history notes the domains on which the new request meets another:   *)
(* nothing in the code keeps the two apart. A sync it meets is not clean.  *)
Begin(h, r) ==
  /\ Idle(h)
  /\ request' = [g \in Handlers |->
                   IF g = h THEN r
                   ELSE IF g \in Busy /\ request[g].req = "sync"
                        THEN [request[g] EXCEPT !.clean = FALSE] ELSE request[g]]
  /\ drift' = drift \cup UNION {Meet(r, request[g]) : g \in Busy}

Goto(h, step) == request' = [request EXCEPT ![h].at = step] /\ UNCHANGED drift
Finish(h) == request' = [request EXCEPT ![h] = None] /\ UNCHANGED drift
GiveUp(h) == /\ request' = [request EXCEPT ![h] = None]
             /\ drift' = drift \cup Reach(request[h])

FreshIds == {i \in Ids : /\ \A r \in rows : r.id # i
                         /\ \A h \in Busy : "id" \in DOMAIN request[h] => request[h].id # i}
Bound(d) == \E r \in rows : r.domain = d
RowOf(u, d) == {r \in rows : r.user = u /\ r.domain = d}
Flagged(i, on) == {IF r.id = i THEN [r EXCEPT !.proxy = on] ELSE r : r \in rows}

-----------------------------------------------------------------------------
(* Accounts come from Manager.Add. An id is never given out twice; it is   *)
(* reused here only when no request remembers it.                          *)
CreateUser(u) ==
  /\ u \notin users
  /\ \A h \in Busy : request[h].user # u
  /\ users' = users \cup {u}
  /\ UNCHANGED <<rows, yaml, tmp, request, drift>>

(* AddDomain up to its INSERT: the foreign key and the UNIQUE column       *)
(* refuse what the lookups before it would.                                *)
AddDomain(h, u, d, on) ==
  /\ u \in users /\ ~Bound(d)
  /\ \E i \in FreshIds :
       /\ rows' = rows \cup {[id |-> i, user |-> u, domain |-> d, proxy |-> on]}
       /\ Begin(h, [req |-> "add", at |-> "write", user |-> u, domain |-> d, id |-> None,
                    proxy |-> on, old |-> on])
  /\ UNCHANGED <<users, yaml, tmp>>

(* GetDomain reads the row that a failed removal will put back.            *)
DelDomain(h, u, d) ==
  /\ \E r \in RowOf(u, d) :
       Begin(h, [req |-> "del", at |-> "row", user |-> u, domain |-> d, id |-> None,
                 proxy |-> r.proxy, old |-> r.proxy])
  /\ UNCHANGED <<users, rows, yaml, tmp>>

(* DeleteDomain: no matching row is an error and ends the request.         *)
DelRow(h) ==
  /\ Serves(h, "del", "row")
  /\ LET gone == RowOf(request[h].user, request[h].domain)
     IN /\ rows' = rows \ gone
        /\ IF gone = {} THEN Finish(h) ELSE Goto(h, "remove")
  /\ UNCHANGED <<users, yaml, tmp>>

DelFile(h) ==
  /\ Serves(h, "del", "remove")
  /\ \/ yaml' = [yaml EXCEPT ![request[h].domain] = None] /\ Finish(h)
     \/ "remove" \in Faults /\ Goto(h, "undo") /\ UNCHANGED yaml
  /\ UNCHANGED <<users, rows, tmp>>

(* Mutant: the row is not put back.                                        *)
DelUndoForgotten(h) ==
  /\ Serves(h, "del", "undo")
  /\ Finish(h)
  /\ UNCHANGED <<users, rows, yaml, tmp>>

(* The row is inserted again, under a new id, unless the insert fails.     *)
DelUndo(h) ==
  /\ Serves(h, "del", "undo")
  /\ LET r == request[h]
     IN \/ /\ r.user \in users /\ ~Bound(r.domain)
           /\ \E i \in FreshIds :
                rows' = rows \cup {[id |-> i, user |-> r.user, domain |-> r.domain,
                                    proxy |-> r.old]}
           /\ Finish(h)
        \/ /\ r.user \notin users \/ Bound(r.domain) \/ "rollback" \in Faults
           /\ GiveUp(h)
           /\ UNCHANGED rows
  /\ UNCHANGED <<users, yaml, tmp>>

(* SetDomainProtocol: a flag that is as asked for ends the request at once.*)
SetDomainProtocol(h, u, d, on) ==
  /\ \E r \in RowOf(u, d) :
       /\ r.proxy # on
       /\ Begin(h, [req |-> "set", at |-> "row", user |-> u, domain |-> d, id |-> r.id,
                    proxy |-> on, old |-> r.proxy])
  /\ UNCHANGED <<users, rows, yaml, tmp>>

(* The UPDATE by id is no error when the row is gone.                      *)
SetRow(h) ==
  /\ Serves(h, "set", "row")
  /\ rows' = Flagged(request[h].id, request[h].proxy)
  /\ Goto(h, "write")
  /\ UNCHANGED <<users, yaml, tmp>>

(* tfx.WriteDomain writes the temporary file and renames it. Two writers   *)
(* of a domain share the name: the second rename finds no file. (A rename  *)
(* that fails for another reason does what a failed write does, and leaves *)
(* a temporary file that the next writer overwrites.)                      *)
WriteTmp(h) ==
  /\ \E req \in {"add", "set"} : Serves(h, req, "write")
  /\ LET r == request[h]
     IN \/ /\ tmp' = [tmp EXCEPT ![r.domain] = [user |-> r.user, proxy |-> r.proxy]]
           /\ Goto(h, "rename")
        \/ /\ "write" \in Faults
           /\ Goto(h, "undo")
           /\ UNCHANGED tmp
  /\ UNCHANGED <<users, rows, yaml>>

Renamed(d) ==
  /\ tmp[d] # None
  /\ yaml' = [yaml EXCEPT ![d] = tmp[d]]
  /\ tmp' = [tmp EXCEPT ![d] = None]

RenameTmp(h) ==
  /\ \E req \in {"add", "set"} : Serves(h, req, "rename")
  /\ \/ Renamed(request[h].domain) /\ Finish(h)
     \/ /\ tmp[request[h].domain] = None
        /\ Goto(h, "undo")
        /\ UNCHANGED <<yaml, tmp>>
  /\ UNCHANGED <<users, rows>>

(* Mutant: the row is removed whosever it is by now.                       *)
AddUndoByDomain(h) ==
  /\ Serves(h, "add", "undo")
  /\ rows' = {q \in rows : q.domain # request[h].domain}
  /\ Finish(h)
  /\ UNCHANGED <<users, yaml, tmp>>

(* The roll back's own error is ignored.                                   *)
AddUndo(h) ==
  /\ Serves(h, "add", "undo")
  /\ \/ rows' = rows \ RowOf(request[h].user, request[h].domain) /\ Finish(h)
     \/ "rollback" \in Faults /\ GiveUp(h) /\ UNCHANGED rows
  /\ UNCHANGED <<users, yaml, tmp>>

(* Mutant: the roll back writes the new flag.                              *)
SetUndoNewFlag(h) ==
  /\ Serves(h, "set", "undo")
  /\ rows' = Flagged(request[h].id, request[h].proxy)
  /\ Finish(h)
  /\ UNCHANGED <<users, yaml, tmp>>

SetUndo(h) ==
  /\ Serves(h, "set", "undo")
  /\ \/ rows' = Flagged(request[h].id, request[h].old) /\ Finish(h)
     \/ "rollback" \in Faults /\ GiveUp(h) /\ UNCHANGED rows
  /\ UNCHANGED <<users, yaml, tmp>>

-----------------------------------------------------------------------------
(* Manager.Del: the user's domains are listed, the user's row is deleted   *)
(* and takes the domains with it, the user's sessions are closed, then the *)
(* files are removed. ListDomains returns what it has read up to an error, *)
(* and the error is dropped. A file that cannot be removed is a warning.   *)
DomainsOf(u) == {r.domain : r \in {r \in rows : r.user = u}}

Del(h, u) ==
  /\ u \in users
  /\ \E listed \in SUBSET DomainsOf(u) :
       /\ listed = DomainsOf(u) \/ "list" \in Faults
       /\ Begin(h, [req |-> "purge", at |-> "cascade", user |-> u, todo |-> listed])
  /\ UNCHANGED <<users, rows, yaml, tmp>>

(* Mutant: the rows of the user's domains stay.                            *)
DeleteUserNoCascade(h) ==
  /\ Serves(h, "purge", "cascade")
  /\ users' = users \ {request[h].user}
  /\ Goto(h, "sessions")
  /\ UNCHANGED <<rows, yaml, tmp>>

(* The history notes the domains whose files nobody will remove.           *)
DeleteUser(h) ==
  /\ Serves(h, "purge", "cascade")
  /\ LET u == request[h].user
     IN \/ /\ users' = users \ {u}
           /\ rows' = {r \in rows : r.user # u}
           /\ request' = [request EXCEPT ![h].at = "sessions"]
           /\ drift' = drift \cup (DomainsOf(u) \ request[h].todo)
        \/ "row" \in Faults /\ Finish(h) /\ UNCHANGED <<users, rows>>
  /\ UNCHANGED <<yaml, tmp>>

(* An error of DeleteSessionsForUser ends Del before the files.            *)
DeleteSessionsForUser(h) ==
  /\ Serves(h, "purge", "sessions")
  /\ Goto(h, "remove") \/ ("sessions" \in Faults /\ GiveUp(h))
  /\ UNCHANGED <<users, rows, yaml, tmp>>

PurgeFile(h, d) ==
  /\ Serves(h, "purge", "remove") /\ d \in request[h].todo
  /\ request' = [request EXCEPT ![h].todo = @ \ {d}]
  /\ \/ yaml' = [yaml EXCEPT ![d] = None] /\ UNCHANGED drift
     \/ "remove" \in Faults /\ drift' = drift \cup {d} /\ UNCHANGED yaml
  /\ UNCHANGED <<users, rows, tmp>>

PurgeDone(h) ==
  /\ Serves(h, "purge", "remove") /\ request[h].todo = {}
  /\ Finish(h)
  /\ UNCHANGED <<users, rows, yaml, tmp>>

-----------------------------------------------------------------------------
(* SyncAllDomains, in the process of `vps config set` or `vps install`:    *)
(* every file is written again from the table, then the files of no known  *)
(* domain are removed. It goes on after an error and returns the first.    *)
SyncAllDomains(h) ==
  /\ Begin(h, [req |-> "sync", at |-> "write", user |-> None,
               known |-> {r.domain : r \in rows}, todo |-> rows, now |-> None,
               files |-> {}, clean |-> Busy = {}])
  /\ UNCHANGED <<users, rows, yaml, tmp>>

(* One row, in any order: the file is written and renamed.                 *)
SyncWrite(h, r) ==
  /\ Serves(h, "sync", "write") /\ r \in request[h].todo
  /\ \/ /\ tmp' = [tmp EXCEPT ![r.domain] = [user |-> r.user, proxy |-> r.proxy]]
        /\ request' = [request EXCEPT ![h].at = "rename", ![h].todo = @ \ {r}, ![h].now = r]
     \/ /\ "write" \in Faults
        /\ request' = [request EXCEPT ![h].todo = @ \ {r}, ![h].clean = FALSE]
        /\ UNCHANGED tmp
  /\ UNCHANGED <<users, rows, yaml, drift>>

SyncRename(h) ==
  /\ Serves(h, "sync", "rename")
  /\ LET next == [request[h] EXCEPT !.at = "write", !.now = None]
         d == request[h].now.domain
     IN \/ /\ Renamed(d)
           /\ request' = [request EXCEPT ![h] = next]
        \/ /\ tmp[d] = None
           /\ request' = [request EXCEPT ![h] = [next EXCEPT !.clean = FALSE]]
           /\ UNCHANGED <<yaml, tmp>>
  /\ UNCHANGED <<users, rows, drift>>

(* Mutant: every file is taken for known.                                  *)
SyncListNothing(h) ==
  /\ Serves(h, "sync", "write") /\ request[h].todo = {}
  /\ Goto(h, "remove")
  /\ UNCHANGED <<users, rows, yaml, tmp>>

SyncList(h) ==
  /\ Serves(h, "sync", "write") /\ request[h].todo = {}
  /\ request' = [request EXCEPT ![h].at = "remove",
                   ![h].files = {d \in DomainNames : yaml[d] # None} \ request[h].known]
  /\ UNCHANGED <<users, rows, yaml, tmp, drift>>

SyncRemove(h, d) ==
  /\ Serves(h, "sync", "remove") /\ d \in request[h].files
  /\ \/ /\ yaml' = [yaml EXCEPT ![d] = None]
        /\ request' = [request EXCEPT ![h].files = @ \ {d}]
     \/ /\ "remove" \in Faults
        /\ request' = [request EXCEPT ![h].files = @ \ {d}, ![h].clean = FALSE]
        /\ UNCHANGED yaml
  /\ UNCHANGED <<users, rows, tmp, drift>>

(* A sync that met no other request and returned no error has repaired     *)
(* every domain.                                                           *)
SyncDone(h) ==
  /\ Serves(h, "sync", "remove") /\ request[h].files = {}
  /\ request' = [request EXCEPT ![h] = None]
  /\ drift' = IF request[h].clean THEN {} ELSE drift
  /\ UNCHANGED <<users, rows, yaml, tmp>>

-----------------------------------------------------------------------------
(* The process dies between two calls of a request.                        *)
Crash(h) ==
  /\ "crash" \in Faults
  /\ ~Idle(h)
  /\ GiveUp(h)
  /\ UNCHANGED <<users, rows, yaml, tmp>>

Arrive(h) ==
  \/ SyncAllDomains(h)
  \/ \E u \in Users :
       \/ Del(h, u)
       \/ \E d \in DomainNames :
            \/ DelDomain(h, u, d)
            \/ \E on \in BOOLEAN : AddDomain(h, u, d, on) \/ SetDomainProtocol(h, u, d, on)

Continue(h) ==
  \/ DelRow(h) \/ DelFile(h) \/ DelUndo(h)
  \/ SetRow(h) \/ WriteTmp(h) \/ RenameTmp(h) \/ AddUndo(h) \/ SetUndo(h)
  \/ DeleteUser(h) \/ DeleteSessionsForUser(h) \/ PurgeDone(h) \/ (\E d \in DomainNames : PurgeFile(h, d))
  \/ SyncList(h) \/ SyncDone(h) \/ (\E d \in DomainNames : SyncRemove(h, d))
  \/ SyncRename(h) \/ (\E r \in Row : SyncWrite(h, r))

Next ==
  \/ \E u \in Users : CreateUser(u)
  \/ \E h \in Handlers : Arrive(h) \/ Continue(h) \/ Crash(h)

Spec == Init /\ [][Next]_vars

-----------------------------------------------------------------------------
(* What the table wants traefik to serve for a domain.                     *)
Agrees(d) ==
  IF Bound(d) THEN \E r \in rows : r.domain = d /\ yaml[d] = [user |-> r.user, proxy |-> r.proxy]
  ELSE yaml[d] = None

(* The file of a domain agrees with the table whenever no request is at    *)
(* work on it, whatever requests on other domains are doing and whatever   *)
(* writes and removals failed -- unless requests met on the domain, or a   *)
(* crash, a failed roll back, or a deletion of its user that failed to list*)
(* it, to close the sessions or to remove its file came between the two,   *)
(* and no undisturbed SyncAllDomains has repaired it since (mgr.go:907-909,*)
(* architecture.md:111-115).                                               *)
FilesFollowRows ==
  \A d \in DomainNames \ drift :
    (\A h \in Busy : d \notin Reach(request[h])) => Agrees(d)

(* What a handler's request asks for, in the terms of Ownership. A sync    *)
(* asks for nothing, a purge for its user's departure; an add is done as   *)
(* it begins, the others when they leave the first of their steps.         *)
Asked(r) ==
  IF r = None \/ r.req = "sync" THEN None
  ELSE IF r.req = "purge"
       THEN [op |-> "leave", user |-> r.user, done |-> r.at # "cascade"]
       ELSE [op |-> r.req, user |-> r.user, domain |-> r.domain, on |-> r.proxy,
             old |-> r.old, done |-> r.at # "row"]

(* Whatever calls a request is made of, fails at or is rolled back by, the *)
(* table only ever changes as some account asked: each request changes the *)
(* binding of its own account once and takes that back at most once, and a *)
(* roll back that comes after the domain has gone to somebody else, or     *)
(* after its account has been deleted, leaves the new owner's row alone    *)
(* (domain.go:20-125, mgr.go:910-991).                                     *)
Ledger == INSTANCE Ownership WITH
  bindings <- {[user |-> r.user, domain |-> r.domain, proxy |-> r.proxy] : r \in rows},
  asked <- [h \in Handlers |-> Asked(request[h])]

ASSUME AskedAssumption == None \notin Ledger!Request \cup Ledger!Departure

TableImplementsOwnership == Ledger!Spec
=============================================================================
