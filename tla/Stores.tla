------------------------------- MODULE Stores -------------------------------
(***************************************************************************)
(* Stores: what the panels keep of what was done, within bounds. The login *)
(* limiter counts the attempts of a client address in a window of time     *)
(* (loginLimiter, the same code in internal/panel and internal/admin); the *)
(* audit log keeps the newest actions (internal/db/audit.go).              *)
(*                                                                         *)
(* The limiter's two calls each read the clock and take its lock, in one   *)
(* step here: the wait for the lock is taken for short beside a tick. The  *)
(* audit log is an INSERT, a COUNT and a DELETE with nothing held between, *)
(* from the panel's goroutines.                                            *)
(***************************************************************************)
EXTENDS Integers, FiniteSets

CONSTANTS
  Logins,     \* goroutines serving a login
  Writers,    \* goroutines that write the audit log
  IPs,        \* client addresses
  Limit,      \* loginLimit: 5 attempts in the program
  Window,     \* loginWindow: 60 s in the program
  MaxIPs,     \* limiterMaxIPs: 10000 in the program
  Retention,  \* AuditRetention: 5000 in the program
  MaxTime,    \* bound on the clock
  MaxRows,    \* bound on the audit rows ever written
  None,       \* no record, no request
  Faults      \* {"db"} if the statements after the INSERT may fail

ASSUME LimiterAssumption == Limit \in Nat \ {0} /\ Window \in Nat \ {0} /\ MaxIPs \in Nat
ASSUME AuditAssumption == Retention \in Nat \ {0} /\ MaxRows \in Nat /\ IsFiniteSet(Writers)
ASSUME ClockAssumption == MaxTime \in Nat
ASSUME NoneAssumption == None \notin IPs /\ None \notin {"count", "delete"}

VARIABLES
  now,      \* the clock
  byIP,     \* the limiter's records: start and count
  login,    \* per goroutine: the address it will ask for
  granted,  \* history: per address and time, the attempts let through by then
  log,      \* ids of the audit log's rows
  lastRow,  \* AUTOINCREMENT
  write,    \* per goroutine: the next statement
  missed    \* history: rows whose write ended early

limiterVars == <<now, byIP, login, granted>>
auditVars == <<log, lastRow, write, missed>>
vars == <<now, byIP, login, granted, log, lastRow, write, missed>>

Times == 0..MaxTime
Since == (-Window)..MaxTime \* and a window before the first
Record == [start : Times, count : Nat \ {0}]

ASSUME RecordAssumption == None \notin Record

TypeOK ==
  /\ now \in Times
  /\ byIP \in [IPs -> Record \cup {None}]
  /\ login \in [Logins -> IPs \cup {None}]
  /\ granted \in [IPs -> [Since -> Nat]]
  /\ log \subseteq 1..MaxRows
  /\ lastRow \in 0..MaxRows
  /\ write \in [Writers -> {"count", "delete", None}]
  /\ missed \in Nat

Init ==
  /\ now = 0
  /\ byIP = [ip \in IPs |-> None]
  /\ login = [h \in Logins |-> None]
  /\ granted = [ip \in IPs |-> [t \in Since |-> 0]]
  /\ log = {}
  /\ lastRow = 0
  /\ write = [w \in Writers |-> None]
  /\ missed = 0

-----------------------------------------------------------------------------
Tick ==
  /\ now < MaxTime
  /\ now' = now + 1
  /\ UNCHANGED <<byIP, login, granted, auditVars>>

Known == {ip \in IPs : byIP[ip] # None}
StaleAt(ip, t) == byIP[ip] # None /\ t - byIP[ip].start >= Window

(* Mutant: a full map is emptied.                                          *)
PruneAll(h, ip) ==
  /\ login[h] = None
  /\ login' = [login EXCEPT ![h] = ip]
  /\ byIP' = IF Cardinality(Known) < MaxIPs THEN byIP ELSE [i \in IPs |-> None]
  /\ UNCHANGED <<now, granted, auditVars>>

(* handleLogin prunes, then asks.                                          *)
Prune(h, ip) ==
  /\ login[h] = None
  /\ login' = [login EXCEPT ![h] = ip]
  /\ byIP' = IF Cardinality(Known) < MaxIPs THEN byIP
             ELSE [i \in IPs |-> IF StaleAt(i, now) THEN None ELSE byIP[i]]
  /\ UNCHANGED <<now, granted, auditVars>>

(* Mutant: every attempt starts the window anew.                           *)
AttemptSliding(ip) ==
  IF byIP[ip] = None \/ StaleAt(ip, now) THEN [start |-> now, count |-> 1]
  ELSE [start |-> now, count |-> byIP[ip].count + 1]

(* allowed: the record of the attempt; one that is refused counts too, but *)
(* does not move the window.                                               *)
Attempt(ip) ==
  IF byIP[ip] = None \/ StaleAt(ip, now) THEN [start |-> now, count |-> 1]
  ELSE [byIP[ip] EXCEPT !.count = @ + 1]

(* History: one more attempt let through at a time.                        *)
OneMore(g, time) == [t \in Since |-> IF t < time THEN g[t] ELSE g[t] + 1]

(* The count is taken no further than one past the limit: nothing else of  *)
(* it is ever compared.                                                    *)
Allowed(h) ==
  /\ login[h] # None
  /\ LET ip == login[h]
         r == Attempt(ip)
     IN /\ byIP' = [byIP EXCEPT ![ip] = IF r.count > Limit THEN [r EXCEPT !.count = Limit + 1]
                                        ELSE r]
        /\ granted' = IF r.count > Limit THEN granted
                      ELSE [granted EXCEPT ![ip] = OneMore(@, now)]
  /\ login' = [login EXCEPT ![h] = None]
  /\ UNCHANGED <<now, auditVars>>

-----------------------------------------------------------------------------
(* AddAuditLog.                                                            *)
Insert(w) ==
  /\ write[w] = None /\ lastRow < MaxRows
  /\ lastRow' = lastRow + 1
  /\ log' = log \cup {lastRow + 1}
  /\ write' = [write EXCEPT ![w] = "count"]
  /\ UNCHANGED <<missed, limiterVars>>

Full == Cardinality(log) > Retention

(* Mutant: the log is full one row early.                                  *)
CountEarly(w) ==
  /\ write[w] = "count"
  /\ write' = [write EXCEPT ![w] = IF Cardinality(log) >= Retention THEN "delete" ELSE None]
  /\ UNCHANGED <<log, lastRow, missed, limiterVars>>

Count(w) ==
  /\ write[w] = "count"
  /\ \/ write' = [write EXCEPT ![w] = IF Full THEN "delete" ELSE None] /\ UNCHANGED missed
     \/ "db" \in Faults /\ write' = [write EXCEPT ![w] = None] /\ missed' = missed + 1
  /\ UNCHANGED <<log, lastRow, limiterVars>>

Delete(w) ==
  /\ write[w] = "delete"
  /\ write' = [write EXCEPT ![w] = None]
  /\ \/ log' = log \ {CHOOSE id \in log : \A other \in log : id <= other} /\ UNCHANGED missed
     \/ "db" \in Faults /\ UNCHANGED log /\ missed' = missed + 1
  /\ UNCHANGED <<lastRow, limiterVars>>

Next ==
  \/ Tick
  \/ \E h \in Logins : Allowed(h) \/ \E ip \in IPs : Prune(h, ip)
  \/ \E w \in Writers : Insert(w) \/ Count(w) \/ Delete(w)

Spec == Init /\ [][Next]_vars

-----------------------------------------------------------------------------
GrantedIn(ip, first, last) == granted[ip][last] - granted[ip][first - 1]

(* "5 attempts / 60s" (admin.go:133-134): no client gets more than twice   *)
(* the limit within any stretch of time as long as the window, whether its *)
(* record was replaced, or pruned while others came.                       *)
AttemptsBounded ==
  \A ip \in IPs : \A first, last \in Times :
    first <= last /\ last < first + Window => GrantedIn(ip, first, last) <= 2 * Limit

(* Nobody is locked out by insisting: an attempt is refused only to a      *)
(* client who was given its whole limit within the last window.            *)
RefusedOnlyWhenSpent ==
  [][\A h \in Logins :
       (login[h] # None /\ login'[h] = None /\ granted' = granted) =>
         GrantedIn(login[h], now - Window + 1, now) >= Limit]_vars

(* "Keep the newest AuditRetention rows" (audit.go:34-38): the log is the  *)
(* newest rows without a gap, never more of them than the retention but    *)
(* for rows being written and rows whose write failed after the INSERT,    *)
(* and never fewer but for one per other writer that counted at once.      *)
NewestRowsKept ==
  LET rows == Cardinality(log)
      writing == Cardinality({w \in Writers : write[w] # None})
  IN /\ log = (lastRow - rows + 1)..lastRow
     /\ rows <= Retention + writing + missed
     /\ lastRow >= Retention => rows > Retention - Cardinality(Writers)
=============================================================================
