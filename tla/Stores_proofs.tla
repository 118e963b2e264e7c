---------------------------- MODULE Stores_proofs ----------------------------
(***************************************************************************)
(* Proofs about Stores, for any retention, limits and goroutines: its      *)
(* types, that the login limiter neither lets through too much nor refuses *)
(* without cause, and that pruning by concurrent writers keeps the newest  *)
(* rows of the audit log.                                                  *)
(***************************************************************************)
EXTENDS Stores, FiniteSetTheorems, TLAPS

(* The types, by component.                                                *)
LimiterTypes ==
  /\ now \in Times
  /\ byIP \in [IPs -> Record \cup {None}]
  /\ login \in [Logins -> IPs \cup {None}]
  /\ granted \in [IPs -> [Since -> Nat]]

AuditTypes ==
  /\ log \subseteq 1..MaxRows
  /\ lastRow \in 0..MaxRows
  /\ write \in [Writers -> {"count", "delete", None}]
  /\ missed \in Nat

LEMMA TypesSplit == TypeOK <=> LimiterTypes /\ AuditTypes
BY DEF TypeOK, LimiterTypes, AuditTypes

LEMMA StoresInit == Init => LimiterTypes /\ AuditTypes
BY ClockAssumption, AuditAssumption DEF Init, LimiterTypes, AuditTypes, Times, Since

LEMMA AttemptType ==
  ASSUME LimiterTypes, NEW ip \in IPs
  PROVE  Attempt(ip) \in Record
<1>1. CASE byIP[ip] = None \/ StaleAt(ip, now)
  BY <1>1 DEF LimiterTypes, Attempt, Record
<1>2. CASE ~(byIP[ip] = None \/ StaleAt(ip, now))
  <2>1. byIP[ip] \in Record
    BY <1>2 DEF LimiterTypes
  <2>2. Attempt(ip) = [byIP[ip] EXCEPT !.count = byIP[ip].count + 1]
    BY <1>2 DEF Attempt
  <2>. QED
    BY <2>1, <2>2 DEF Record
<1>. QED
  BY <1>1, <1>2

LEMMA LimiterTypesKept == LimiterTypes /\ [Next]_vars => LimiterTypes'
<1>. SUFFICES ASSUME LimiterTypes, [Next]_vars PROVE LimiterTypes'
  OBVIOUS
<1>1. CASE Tick
  BY <1>1, ClockAssumption DEF Tick, LimiterTypes, Times
<1>2. ASSUME NEW h \in Logins, NEW ip \in IPs, Prune(h, ip) PROVE LimiterTypes'
  BY <1>2 DEF Prune, LimiterTypes
<1>3. ASSUME NEW h \in Logins, Allowed(h) PROVE LimiterTypes'
  <2>1. PICK ip \in IPs : ip = login[h]
    BY <1>3 DEF Allowed, LimiterTypes
  <2>. DEFINE r == Attempt(ip)
              kept == IF r.count > Limit THEN [r EXCEPT !.count = Limit + 1] ELSE r
  <2>2. r \in Record
    BY AttemptType
  <2>3. kept \in Record
    BY <2>2, LimiterAssumption DEF Record
  <2>4. byIP' = [byIP EXCEPT ![ip] = kept]
    BY <1>3, <2>1 DEF Allowed
  <2>5. granted' = granted \/ granted' = [granted EXCEPT ![ip] = OneMore(granted[ip], now)]
    BY <1>3, <2>1 DEF Allowed
  <2>6. OneMore(granted[ip], now) \in [Since -> Nat]
    BY DEF LimiterTypes, OneMore
  <2>. HIDE DEF kept
  <2>7. byIP' \in [IPs -> Record \cup {None}]
    BY <2>3, <2>4 DEF LimiterTypes
  <2>8. granted' \in [IPs -> [Since -> Nat]]
    BY <2>5, <2>6 DEF LimiterTypes
  <2>9. now' \in Times /\ login' \in [Logins -> IPs \cup {None}]
    BY <1>3 DEF Allowed, LimiterTypes
  <2>. QED
    BY <2>7, <2>8, <2>9 DEF LimiterTypes
<1>4. ASSUME UNCHANGED limiterVars PROVE LimiterTypes'
  BY <1>4 DEF limiterVars, LimiterTypes
<1>5. ASSUME NEW w \in Writers, Insert(w) \/ Count(w) \/ Delete(w) PROVE LimiterTypes'
  BY <1>4, <1>5 DEF Insert, Count, Delete
<1>6. CASE UNCHANGED vars
  BY <1>4, <1>6 DEF vars, limiterVars
<1>. QED
  BY <1>1, <1>2, <1>3, <1>5, <1>6 DEF Next

-----------------------------------------------------------------------------
(* The login limiter, of one client: its grants, its record, the time.     *)
(* Grants fall into the spans of successive records, no more than Limit in *)
(* each. Spans begin a window apart, so that a stretch of a window meets   *)
(* two of them at most; what is kept of the earlier ones is how many       *)
(* grants fell in the window before the present one, and that the spans    *)
(* are over: no grant followed the last window.                            *)
WindowOf(g, r, n) ==
  /\ \A t, u \in Since : t <= u => g[t] <= g[u]
  /\ \A t \in Since : t >= n => g[t] = g[n]
  /\ r = None => g[n] - g[n - Window] <= Limit /\ g[n - 1] = g[n]
  /\ r # None => /\ r.start <= n /\ r.count <= Limit + 1
                 /\ g[n] - g[r.start - 1] = IF r.count > Limit THEN Limit ELSE r.count
                 /\ g[r.start - 1] - g[r.start - Window] <= Limit
                 /\ \A t \in Since : t >= r.start + Window - 1 /\ t <= n => g[t] = g[n]
  /\ \A first, last \in Times :
       first <= last /\ last < first + Window => g[last] - g[first - 1] <= 2 * Limit
WindowInv == LimiterTypes /\ \A ip \in IPs : WindowOf(granted[ip], byIP[ip], now)

LEMMA TimesAndSince ==
  /\ Times \subseteq Since /\ Times \subseteq Nat /\ Since \subseteq Int
  /\ \A t \in Times : t - 1 \in Since /\ t - Window \in Since
  /\ Limit \in Nat \ {0} /\ Window \in Nat \ {0}
BY LimiterAssumption, ClockAssumption DEF Times, Since

LEMMA TimePasses ==
  ASSUME NEW g \in [Since -> Nat], NEW r \in Record \cup {None}, NEW n \in Times,
         NEW k \in Times, k = n + 1, WindowOf(g, r, n)
  PROVE  WindowOf(g, r, k)
<1>1. /\ n \in Nat /\ k \in Nat /\ n \in Since /\ k \in Since /\ k - 1 = n
      /\ n - Window \in Since /\ k - Window \in Since /\ Limit \in Nat /\ Window \in Nat
  BY TimesAndSince
<1>2. g[k] = g[n] /\ g[k - 1] = g[k] /\ \A t \in Since : t >= k => g[t] = g[k]
  BY <1>1, TimesAndSince DEF WindowOf
<1>3. r = None => g[k] - g[k - Window] <= Limit
  <2>1. g[n - Window] <= g[k - Window]
    BY <1>1 DEF WindowOf
  <2>. QED
    BY <1>1, <1>2, <2>1 DEF WindowOf
<1>4. ASSUME r # None
      PROVE  /\ r.start <= k
             /\ \A t \in Since : t >= r.start + Window - 1 /\ t <= k => g[t] = g[k]
  <2>1. r.start \in Nat /\ r.start <= n
    BY <1>4, TimesAndSince DEF WindowOf, Record
  <2>. QED
    BY <1>1, <1>2, <1>4, <2>1, TimesAndSince DEF WindowOf
<1>5. r # None => /\ r.count <= Limit + 1
                  /\ g[k] - g[r.start - 1] = IF r.count > Limit THEN Limit ELSE r.count
                  /\ g[r.start - 1] - g[r.start - Window] <= Limit
  BY <1>2 DEF WindowOf
<1>6. /\ \A t, u \in Since : t <= u => g[t] <= g[u]
      /\ \A first, last \in Times :
           first <= last /\ last < first + Window => g[last] - g[first - 1] <= 2 * Limit
  BY DEF WindowOf
<1>. QED
  BY <1>2, <1>3, <1>4, <1>5, <1>6 DEF WindowOf

(* A record whose window is over may be forgotten.                         *)
LEMMA RecordForgotten ==
  ASSUME NEW g \in [Since -> Nat], NEW r \in Record, NEW n \in Times, r # None,
         n - r.start >= Window, WindowOf(g, r, n)
  PROVE  WindowOf(g, None, n)
<1>1. r.start \in Times /\ r.count \in Nat
  BY DEF Record
<1>2. g[n] - g[r.start - 1] <= Limit
  BY <1>1, TimesAndSince DEF WindowOf
<1>3. g[r.start - 1] <= g[n - Window]
  <2>1. r.start - 1 \in Since /\ n - Window \in Since
    BY <1>1, TimesAndSince
  <2>2. r.start - 1 <= n - Window
    <3>1. r.start \in Nat /\ n \in Nat /\ Window \in Nat
      BY <1>1, TimesAndSince
    <3>. QED
      BY <3>1
  <2>. QED
    BY <2>1, <2>2 DEF WindowOf
<1>4. g[n] \in Nat /\ g[n - Window] \in Nat /\ g[r.start - 1] \in Nat
  BY <1>1, TimesAndSince
<1>5. g[n - 1] = g[n]
  <2>1. n - 1 \in Since /\ r.start \in Nat /\ n \in Nat /\ Window \in Nat
    BY <1>1, TimesAndSince
  <2>2. n - 1 >= r.start + Window - 1 /\ n - 1 <= n
    BY <2>1
  <2>. QED
    BY <2>1, <2>2 DEF WindowOf
<1>. QED
  BY <1>2, <1>3, <1>4, <1>5, TimesAndSince DEF WindowOf

LEMMA AttemptRefused ==
  ASSUME NEW g \in [Since -> Nat], NEW r \in Record, NEW n \in Times, r # None,
         r.count >= Limit, WindowOf(g, r, n), [r EXCEPT !.count = Limit + 1] # None
  PROVE  WindowOf(g, [r EXCEPT !.count = Limit + 1], n)
<1>. DEFINE s == [r EXCEPT !.count = Limit + 1]
<1>1. s.start = r.start /\ s.count = Limit + 1 /\ r.count \in Nat
  BY DEF Record
<1>2. g[n] - g[r.start - 1] = Limit
  BY <1>1, TimesAndSince DEF WindowOf
<1>. QED
  BY <1>1, <1>2, TimesAndSince DEF WindowOf

(* What holds of the grants, and one more of them now.                     *)
LEMMA OneMoreDoes ==
  ASSUME NEW g \in [Since -> Nat], NEW n \in Times,
         \A t, u \in Since : t <= u => g[t] <= g[u],
         \A t \in Since : t >= n => g[t] = g[n]
  PROVE  /\ OneMore(g, n) \in [Since -> Nat]
         /\ \A t \in Since : t < n => OneMore(g, n)[t] = g[t]
         /\ \A t \in Since : t >= n => OneMore(g, n)[t] = g[n] + 1
         /\ \A t, u \in Since : t <= u => OneMore(g, n)[t] <= OneMore(g, n)[u]
<1>. DEFINE m == OneMore(g, n)
<1>1. m \in [Since -> Nat] /\ \A t \in Since : m[t] = IF t < n THEN g[t] ELSE g[t] + 1
  BY DEF OneMore
<1>2. n \in Since /\ n \in Int /\ \A t \in Since : t \in Int /\ g[t] \in Nat
  BY TimesAndSince
<1>3. \A t \in Since : (t < n => m[t] = g[t]) /\ (t >= n => m[t] = g[n] + 1)
  BY <1>1, <1>2
<1>. HIDE DEF m
<1>4. \A t, u \in Since : t <= u => m[t] <= m[u]
  <2>. SUFFICES ASSUME NEW t \in Since, NEW u \in Since, t <= u PROVE m[t] <= m[u]
    OBVIOUS
  <2>1. CASE u < n
    BY <1>2, <1>3, <2>1
  <2>2. CASE u >= n /\ t < n
    <3>1. g[t] <= g[n]
      BY <1>2, <2>2
    <3>. QED
      BY <1>2, <1>3, <2>2, <3>1
  <2>3. CASE t >= n
    BY <1>2, <1>3, <2>3
  <2>. QED
    BY <1>2, <2>1, <2>2, <2>3
<1>. QED
  BY <1>1, <1>3, <1>4 DEF m

(* With the grants in the spans of this record and of the one before it    *)
(* bounded, every stretch of a window that ends from now on is.            *)
LEMMA StretchesBounded ==
  ASSUME NEW g \in [Since -> Nat], NEW n \in Times, NEW start \in Times, start <= n,
         NEW m \in [Since -> Nat], \A t \in Since : t < n => m[t] = g[t],
         \A t \in Since : t >= n => m[t] = m[n],
         \A t, u \in Since : t <= u => m[t] <= m[u],
         m[n] - m[start - 1] <= Limit, m[start - 1] - m[start - Window] <= Limit,
         n - start < Window,
         \A first, last \in Times :
           first <= last /\ last < first + Window => g[last] - g[first - 1] <= 2 * Limit,
         NEW first \in Times, NEW last \in Times, first <= last, last < first + Window
  PROVE  m[last] - m[first - 1] <= 2 * Limit
<1>1. /\ first \in Since /\ last \in Since /\ first - 1 \in Since /\ n \in Since
      /\ start - 1 \in Since /\ start - Window \in Since
      /\ \A t \in Since : t \in Int /\ m[t] \in Nat /\ g[t] \in Nat
      /\ Limit \in Nat /\ Window \in Nat /\ first - 1 < first
      /\ first \in Int /\ last \in Int /\ start \in Int /\ n \in Int
  BY TimesAndSince
<1>2. CASE last < n
  <2>1. m[last] = g[last] /\ m[first - 1] = g[first - 1]
    BY <1>1, <1>2
  <2>. QED
    BY <2>1
<1>3. CASE last >= n /\ first - 1 >= start - 1
  <2>1. m[last] = m[n] /\ m[start - 1] <= m[first - 1]
    BY <1>1, <1>3
  <2>. QED
    BY <1>1, <2>1
<1>4. CASE last >= n /\ first - 1 < start - 1
  <2>1. first - 1 >= start - Window
    BY <1>1, <1>4
  <2>2. m[last] = m[n] /\ m[start - Window] <= m[first - 1]
    BY <1>1, <1>4, <2>1
  <2>. QED
    BY <1>1, <2>2
<1>. QED
  BY <1>1, <1>2, <1>3, <1>4

LEMMA AttemptGranted ==
  ASSUME NEW g \in [Since -> Nat], NEW r \in Record, NEW n \in Times, r # None,
         n - r.start < Window, r.count < Limit, WindowOf(g, r, n),
         [r EXCEPT !.count = r.count + 1] # None
  PROVE  WindowOf(OneMore(g, n), [r EXCEPT !.count = r.count + 1], n)
<1>. DEFINE s == [r EXCEPT !.count = r.count + 1]
            m == OneMore(g, n)
<1>1. s.start = r.start /\ s.count = r.count + 1 /\ r.count \in Nat /\ r.start \in Times
  BY DEF Record
<1>2. r.start <= n
  BY DEF WindowOf
<1>3. /\ m \in [Since -> Nat]
      /\ \A t \in Since : t < n => m[t] = g[t]
      /\ \A t \in Since : t >= n => m[t] = g[n] + 1
      /\ \A t, u \in Since : t <= u => m[t] <= m[u]
  BY OneMoreDoes DEF WindowOf
<1>. HIDE DEF m
<1>4. /\ n \in Since /\ r.start - 1 \in Since /\ r.start - Window \in Since
      /\ n \in Nat /\ r.start \in Nat /\ Limit \in Nat /\ Window \in Nat \ {0}
      /\ g[n] \in Nat /\ g[r.start - 1] \in Nat
  BY <1>1, TimesAndSince
<1>5. m[n] = g[n] + 1 /\ m[r.start - 1] = g[r.start - 1] /\ m[r.start - Window] = g[r.start - Window]
  BY <1>2, <1>3, <1>4
<1>6. g[n] - g[r.start - 1] = r.count
  BY <1>1, <1>4 DEF WindowOf
<1>7. m[n] - m[r.start - 1] = s.count
  BY <1>1, <1>4, <1>5, <1>6
<1>8. \A t \in Since : t >= n => m[t] = m[n]
  BY <1>3, <1>4
<1>9. m[r.start - 1] - m[r.start - Window] <= Limit
  BY <1>5 DEF WindowOf
<1>10. \A first, last \in Times :
         first <= last /\ last < first + Window => m[last] - m[first - 1] <= 2 * Limit
  <2>1. \A first, last \in Times :
          first <= last /\ last < first + Window => g[last] - g[first - 1] <= 2 * Limit
    BY DEF WindowOf
  <2>2. m[n] - m[r.start - 1] <= Limit
    BY <1>1, <1>4, <1>7
  <2>. QED
    BY <1>1, <1>2, <1>3, <1>8, <1>9, <2>1, <2>2, StretchesBounded
<1>11. s.count <= Limit
  BY <1>1, <1>4
<1>12. \A t \in Since : t >= r.start + Window - 1 /\ t <= n => m[t] = m[n]
  BY <1>4, <1>8, TimesAndSince
<1>. QED
  BY <1>1, <1>2, <1>3, <1>4, <1>7, <1>8, <1>9, <1>10, <1>11, <1>12 DEF WindowOf, m

LEMMA FirstGranted ==
  ASSUME NEW g \in [Since -> Nat], NEW n \in Times, WindowOf(g, None, n),
         NEW s, s.start = n, s.count = 1, s # None
  PROVE  WindowOf(OneMore(g, n), s, n)
<1>. DEFINE m == OneMore(g, n)
<1>1. /\ m \in [Since -> Nat]
      /\ \A t \in Since : t < n => m[t] = g[t]
      /\ \A t \in Since : t >= n => m[t] = g[n] + 1
      /\ \A t, u \in Since : t <= u => m[t] <= m[u]
  BY OneMoreDoes DEF WindowOf
<1>. HIDE DEF m
<1>2. /\ n \in Since /\ n - 1 \in Since /\ n - Window \in Since
      /\ n \in Nat /\ Limit \in Nat \ {0} /\ Window \in Nat \ {0}
      /\ g[n] \in Nat /\ g[n - 1] \in Nat /\ g[n - Window] \in Nat
  BY TimesAndSince
<1>3. m[n] = g[n] + 1 /\ m[n - 1] = g[n - 1] /\ m[n - Window] = g[n - Window]
  BY <1>1, <1>2
<1>4. g[n] - g[n - Window] <= Limit /\ g[n - 1] = g[n]
  BY DEF WindowOf
<1>5. m[n] - m[n - 1] = 1 /\ m[n - 1] - m[n - Window] <= Limit
  BY <1>2, <1>3, <1>4
<1>6. \A t \in Since : t >= n => m[t] = m[n]
  BY <1>1, <1>2
<1>7. \A first, last \in Times :
        first <= last /\ last < first + Window => m[last] - m[first - 1] <= 2 * Limit
  <2>1. \A first, last \in Times :
          first <= last /\ last < first + Window => g[last] - g[first - 1] <= 2 * Limit
    BY DEF WindowOf
  <2>2. m[n] - m[n - 1] <= Limit /\ n - n < Window /\ n <= n
    BY <1>2, <1>5
  <2>. QED
    BY <1>1, <1>5, <1>6, <2>1, <2>2, StretchesBounded
<1>8. \A t \in Since : t >= n + Window - 1 /\ t <= n => m[t] = m[n]
  BY <1>2, <1>6, TimesAndSince
<1>9. s.count = 1 /\ ~(s.count > Limit) /\ s.count <= Limit + 1 /\ s.start <= n
  BY <1>2
<1>. QED
  BY <1>1, <1>5, <1>6, <1>7, <1>8, <1>9 DEF WindowOf, m

LEMMA WindowInit == Init => WindowInv
<1>. SUFFICES ASSUME Init, NEW ip \in IPs PROVE WindowOf(granted[ip], byIP[ip], now)
  BY StoresInit DEF WindowInv
<1>1. now = 0 /\ byIP[ip] = None /\ \A t \in Since : granted[ip][t] = 0
  BY DEF Init
<1>2. now \in Times /\ Limit \in Nat /\ Window \in Nat
  BY <1>1, TimesAndSince, ClockAssumption DEF Times
<1>. QED
  BY <1>1, <1>2, TimesAndSince DEF WindowOf

(* What the limiter reads and writes of a client, when it is asked.        *)
LEMMA AllowedDoes ==
  ASSUME WindowInv, NEW h \in Logins, Allowed(h)
  PROVE  \E ip \in IPs : \E r \in Record :
           /\ ip = login[h] /\ now' = now
           /\ byIP' = [byIP EXCEPT ![ip] = r]
           /\ \/ /\ byIP[ip] = None \/ StaleAt(ip, now)
                 /\ r.start = now /\ r.count = 1
                 /\ granted' = [granted EXCEPT ![ip] = OneMore(granted[ip], now)]
              \/ /\ byIP[ip] # None /\ ~StaleAt(ip, now) /\ byIP[ip].count < Limit
                 /\ r = [byIP[ip] EXCEPT !.count = byIP[ip].count + 1]
                 /\ granted' = [granted EXCEPT ![ip] = OneMore(granted[ip], now)]
              \/ /\ byIP[ip] # None /\ ~StaleAt(ip, now) /\ byIP[ip].count >= Limit
                 /\ r = [byIP[ip] EXCEPT !.count = Limit + 1]
                 /\ granted' = granted
<1>1. PICK ip \in IPs : ip = login[h]
  BY DEF Allowed, WindowInv, LimiterTypes
<1>. DEFINE r == Attempt(ip)
<1>2. r \in Record /\ r.count \in Nat
  BY AttemptType DEF WindowInv, Record
<1>3. /\ now' = now
      /\ r.count > Limit => /\ byIP' = [byIP EXCEPT ![ip] = [r EXCEPT !.count = Limit + 1]]
                            /\ granted' = granted
      /\ ~(r.count > Limit) =>
           /\ byIP' = [byIP EXCEPT ![ip] = r]
           /\ granted' = [granted EXCEPT ![ip] = OneMore(granted[ip], now)]
  BY <1>1 DEF Allowed
<1>4. CASE byIP[ip] = None \/ StaleAt(ip, now)
  <2>1. r = [start |-> now, count |-> 1]
    BY <1>4 DEF Attempt
  <2>2. r.start = now /\ r.count = 1 /\ ~(r.count > Limit)
    BY <2>1, TimesAndSince
  <2>. HIDE DEF r
  <2>. QED
    BY <1>1, <1>2, <1>3, <1>4, <2>2
<1>5. CASE ~(byIP[ip] = None \/ StaleAt(ip, now))
  <2>1. byIP[ip] \in Record /\ r = [byIP[ip] EXCEPT !.count = byIP[ip].count + 1]
    BY <1>5 DEF Attempt, WindowInv, LimiterTypes
  <2>2. r.count = byIP[ip].count + 1 /\ byIP[ip].count \in Nat
    BY <2>1 DEF Record
  <2>3. [r EXCEPT !.count = Limit + 1] = [byIP[ip] EXCEPT !.count = Limit + 1]
    BY <2>1 DEF Record
  <2>4. [byIP[ip] EXCEPT !.count = Limit + 1] \in Record
    BY <2>1, TimesAndSince DEF Record
  <2>. HIDE DEF r
  <2>5. CASE byIP[ip].count < Limit
    <3>1. ~(r.count > Limit)
      BY <2>2, <2>5, TimesAndSince
    <3>. QED
      BY <1>1, <1>2, <1>3, <1>5, <2>1, <2>5, <3>1
  <2>6. CASE byIP[ip].count >= Limit
    <3>1. r.count > Limit
      BY <2>2, <2>6, TimesAndSince
    <3>. QED
      BY <1>1, <1>3, <1>5, <2>3, <2>4, <2>6, <3>1
  <2>. QED
    BY <2>2, <2>5, <2>6, TimesAndSince
<1>. QED
  BY <1>4, <1>5

LEMMA AllowedKeepsWindows ==
  ASSUME WindowInv, NEW h \in Logins, Allowed(h), NEW ip \in IPs
  PROVE  WindowOf(granted'[ip], byIP'[ip], now')
<1>1. PICK client \in IPs, r \in Record :
        /\ now' = now
        /\ byIP' = [byIP EXCEPT ![client] = r]
        /\ \/ /\ byIP[client] = None \/ StaleAt(client, now)
              /\ r.start = now /\ r.count = 1
              /\ granted' = [granted EXCEPT ![client] = OneMore(granted[client], now)]
           \/ /\ byIP[client] # None /\ ~StaleAt(client, now) /\ byIP[client].count < Limit
              /\ r = [byIP[client] EXCEPT !.count = byIP[client].count + 1]
              /\ granted' = [granted EXCEPT ![client] = OneMore(granted[client], now)]
           \/ /\ byIP[client] # None /\ ~StaleAt(client, now) /\ byIP[client].count >= Limit
              /\ r = [byIP[client] EXCEPT !.count = Limit + 1]
              /\ granted' = granted
  BY AllowedDoes
<1>2. /\ now \in Times /\ r # None /\ WindowOf(granted[ip], byIP[ip], now)
      /\ granted \in [IPs -> [Since -> Nat]] /\ byIP \in [IPs -> Record \cup {None}]
  BY RecordAssumption DEF WindowInv, LimiterTypes
<1>3. CASE ip # client
  <2>1. granted'[ip] = granted[ip] /\ byIP'[ip] = byIP[ip]
    BY <1>1, <1>2, <1>3
  <2>. QED
    BY <1>1, <1>2, <2>1
<1>4. CASE ip = client
  <2>1. byIP'[ip] = r /\ now' = now /\ granted[ip] \in [Since -> Nat]
    BY <1>1, <1>2, <1>4
  <2>2. CASE /\ byIP[ip] = None \/ StaleAt(ip, now)
             /\ r.start = now /\ r.count = 1
             /\ granted' = [granted EXCEPT ![ip] = OneMore(granted[ip], now)]
    <3>1. granted'[ip] = OneMore(granted[ip], now)
      BY <1>2, <2>2
    <3>2. WindowOf(granted[ip], None, now)
      <4>1. CASE byIP[ip] = None
        BY <1>2, <4>1
      <4>2. CASE byIP[ip] # None
        <5>1. byIP[ip] \in Record /\ now - byIP[ip].start >= Window
          BY <1>2, <2>2, <4>2 DEF StaleAt
        <5>. QED
          BY <1>2, <2>1, <4>2, <5>1, RecordForgotten
      <4>. QED
        BY <4>1, <4>2
    <3>. QED
      BY <1>2, <2>1, <2>2, <3>1, <3>2, FirstGranted
  <2>3. CASE /\ byIP[ip] # None /\ ~StaleAt(ip, now) /\ byIP[ip].count < Limit
             /\ r = [byIP[ip] EXCEPT !.count = byIP[ip].count + 1]
             /\ granted' = [granted EXCEPT ![ip] = OneMore(granted[ip], now)]
    <3>1. granted'[ip] = OneMore(granted[ip], now)
      BY <1>2, <2>3
    <3>2. byIP[ip] \in Record /\ now - byIP[ip].start < Window
      BY <1>2, <2>3, TimesAndSince DEF StaleAt, Record
    <3>. QED
      BY <1>2, <2>1, <2>3, <3>1, <3>2, AttemptGranted
  <2>4. CASE /\ byIP[ip] # None /\ ~StaleAt(ip, now) /\ byIP[ip].count >= Limit
             /\ r = [byIP[ip] EXCEPT !.count = Limit + 1]
             /\ granted' = granted
    <3>1. byIP[ip] \in Record
      BY <1>2, <2>4
    <3>. QED
      BY <1>2, <2>1, <2>4, <3>1, AttemptRefused
  <2>. QED
    BY <1>1, <1>4, <2>2, <2>3, <2>4
<1>. QED
  BY <1>3, <1>4

LEMMA WindowsKept == WindowInv /\ [Next]_vars => WindowInv'
<1>. SUFFICES ASSUME WindowInv, [Next]_vars PROVE WindowInv'
  OBVIOUS
<1>. SUFFICES ASSUME NEW ip \in IPs PROVE WindowOf(granted'[ip], byIP'[ip], now')
  <2>1. LimiterTypes'
    BY LimiterTypesKept DEF WindowInv
  <2>2. (\A ip \in IPs : WindowOf(granted'[ip], byIP'[ip], now'))
          => \A ip \in IPs : WindowOf(granted[ip], byIP[ip], now)'
    BY DEF WindowOf
  <2>. QED
    BY <2>1, <2>2 DEF WindowInv
<1>1. /\ now \in Times /\ byIP \in [IPs -> Record \cup {None}]
      /\ granted[ip] \in [Since -> Nat] /\ WindowOf(granted[ip], byIP[ip], now)
  BY DEF WindowInv, LimiterTypes
<1>2. CASE Tick
  <2>1. now' = now + 1 /\ now + 1 \in Times /\ byIP' = byIP /\ granted' = granted
    BY <1>1, <1>2, ClockAssumption DEF Tick, Times
  <2>. QED
    BY <1>1, <2>1, TimePasses
<1>3. ASSUME NEW h \in Logins, NEW i \in IPs, Prune(h, i)
      PROVE  WindowOf(granted'[ip], byIP'[ip], now')
  <2>1. now' = now /\ granted' = granted
    BY <1>3 DEF Prune
  <2>2. \/ byIP'[ip] = byIP[ip]
        \/ byIP'[ip] = None /\ byIP[ip] # None /\ now - byIP[ip].start >= Window
    BY <1>3 DEF Prune, StaleAt
  <2>. QED
    BY <1>1, <2>1, <2>2, RecordForgotten
<1>4. ASSUME NEW h \in Logins, Allowed(h)
      PROVE  WindowOf(granted'[ip], byIP'[ip], now')
  BY <1>4, AllowedKeepsWindows
<1>5. ASSUME UNCHANGED limiterVars
      PROVE  WindowOf(granted'[ip], byIP'[ip], now')
  BY <1>1, <1>5 DEF limiterVars
<1>6. ASSUME NEW w \in Writers, Insert(w) \/ Count(w) \/ Delete(w)
      PROVE  WindowOf(granted'[ip], byIP'[ip], now')
  BY <1>5, <1>6 DEF Insert, Count, Delete
<1>7. CASE UNCHANGED vars
  BY <1>5, <1>7 DEF vars, limiterVars
<1>. QED
  BY <1>2, <1>3, <1>4, <1>6, <1>7 DEF Next

-----------------------------------------------------------------------------
(* The audit log. Pruning is bounded by the writers that are about to      *)
(* delete: each of them counted a full log, and the one that counted last  *)
(* found the rows that the others had yet to take still there.             *)
Writing == {w \in Writers : write[w] # None}
Deleting == {w \in Writers : write[w] = "delete"}
Rows == Cardinality(log)

LogInv ==
  /\ AuditTypes
  /\ IsFiniteSet(log)
  /\ log = (lastRow - Rows + 1)..lastRow
  /\ Rows <= lastRow
  /\ Rows <= Retention + Cardinality(Writing) + missed
  /\ lastRow <= Retention => Rows = lastRow /\ Deleting = {}
  /\ lastRow >= Retention =>
       Rows >= Retention + 1 - Cardinality(Writers) + Cardinality(Deleting)

LEMMA WriterCounts ==
  /\ IsFiniteSet(Writers) /\ Cardinality(Writers) \in Nat
  /\ IsFiniteSet(Writing) /\ Cardinality(Writing) \in Nat
  /\ IsFiniteSet(Deleting) /\ Cardinality(Deleting) \in Nat
  /\ Cardinality(Deleting) <= Cardinality(Writers)
  /\ IsFiniteSet(log) => Rows \in Nat
<1>1. Writing \subseteq Writers /\ Deleting \subseteq Writers
  BY DEF Writing, Deleting
<1>. QED
  BY <1>1, AuditAssumption, FS_Subset, FS_CardinalityType DEF Rows

(* A writer that begins, and one that ends.                                *)
LEMMA WriterBegins ==
  ASSUME NEW w \in Writers, AuditTypes, write[w] = None,
         write' = [write EXCEPT ![w] = "count"]
  PROVE  /\ Cardinality(Writing') = Cardinality(Writing) + 1
         /\ Deleting' = Deleting
<1>1. Writing' = Writing \cup {w} /\ w \notin Writing /\ Deleting' = Deleting
  BY NoneAssumption DEF Writing, Deleting, AuditTypes
<1>. QED
  BY <1>1, WriterCounts, FS_AddElement

LEMMA WriterEnds ==
  ASSUME NEW w \in Writers, AuditTypes, write[w] # None,
         write' = [write EXCEPT ![w] = None]
  PROVE  /\ Cardinality(Writing') = Cardinality(Writing) - 1
         /\ write[w] = "delete" => Cardinality(Deleting') = Cardinality(Deleting) - 1
         /\ write[w] # "delete" => Deleting' = Deleting
         /\ Deleting' \subseteq Deleting
<1>1. /\ Writing' = Writing \ {w} /\ w \in Writing
      /\ Deleting' = Deleting \ {w} /\ (w \in Deleting <=> write[w] = "delete")
  BY NoneAssumption DEF Writing, Deleting, AuditTypes
<1>2. Cardinality(Writing') = Cardinality(Writing) - 1
  BY <1>1, WriterCounts, FS_RemoveElement
<1>3. w \in Deleting => Cardinality(Deleting') = Cardinality(Deleting) - 1
  BY <1>1, WriterCounts, FS_RemoveElement
<1>4. w \notin Deleting => Deleting' = Deleting
  BY <1>1
<1>. QED
  BY <1>1, <1>2, <1>3, <1>4

LEMMA WriterDeletes ==
  ASSUME NEW w \in Writers, AuditTypes, write[w] = "count",
         write' = [write EXCEPT ![w] = "delete"]
  PROVE  Writing' = Writing
BY NoneAssumption DEF Writing, AuditTypes

(* The row that is pruned is the oldest.                                   *)
LEMMA OldestRow ==
  ASSUME NEW first \in Int, NEW last \in Int, first <= last
  PROVE  (CHOOSE id \in first..last : \A other \in first..last : id <= other) = first
<1>1. \A id \in first..last : (\A other \in first..last : id <= other) <=> id = first
  OBVIOUS
<1>2. first \in first..last
  OBVIOUS
<1>. QED
  BY <1>1, <1>2

LEMMA LogInit == Init => LogInv
<1>. SUFFICES ASSUME Init PROVE LogInv
  OBVIOUS
<1>1. AuditTypes
  BY StoresInit
<1>2. log = {} /\ lastRow = 0 /\ missed = 0 /\ IsFiniteSet(log) /\ Rows = 0
  BY FS_EmptySet DEF Init, Rows
<1>3. Deleting = {}
  BY NoneAssumption DEF Init, Deleting
<1>. QED
  BY <1>1, <1>2, <1>3, WriterCounts, AuditAssumption DEF LogInv

LEMMA InsertKeepsLog ==
  ASSUME LogInv, NEW w \in Writers, Insert(w)
  PROVE  LogInv'
<1>1. /\ write[w] = None /\ lastRow < MaxRows /\ lastRow' = lastRow + 1
      /\ log' = log \cup {lastRow + 1} /\ write' = [write EXCEPT ![w] = "count"]
      /\ missed' = missed
  BY DEF Insert
<1>2. AuditTypes'
  BY <1>1, AuditAssumption DEF LogInv, AuditTypes
<1>3. Cardinality(Writing') = Cardinality(Writing) + 1 /\ Deleting' = Deleting
  BY <1>1, WriterBegins DEF LogInv
<1>4. lastRow \in Nat /\ missed \in Nat /\ Rows \in Nat
  BY WriterCounts, AuditAssumption DEF LogInv, AuditTypes
<1>5. lastRow + 1 \notin log
  BY <1>4 DEF LogInv
<1>6. IsFiniteSet(log') /\ Rows' = Rows + 1
  BY <1>1, <1>5, FS_AddElement DEF LogInv, Rows
<1>7. log' = (lastRow' - Rows' + 1)..lastRow'
  BY <1>1, <1>4, <1>6 DEF LogInv
<1>8. Cardinality(Writers) >= 1
  BY WriterCounts, FS_EmptySet
<1>9. lastRow' <= Retention => Rows' = lastRow' /\ Deleting' = {}
  BY <1>1, <1>3, <1>4, <1>6, AuditAssumption DEF LogInv
<1>10. ASSUME lastRow' >= Retention
       PROVE  Rows' >= Retention + 1 - Cardinality(Writers) + Cardinality(Deleting')
  <2>1. CASE lastRow >= Retention
    BY <2>1, <1>3, <1>4, <1>6, WriterCounts, AuditAssumption DEF LogInv
  <2>2. CASE lastRow < Retention
    <3>2. lastRow' = lastRow + 1
      BY <1>1
    <3>3. lastRow' = Retention
      BY <2>2, <3>2, <1>4, <1>10, AuditAssumption
    <3>4. Rows' = lastRow' /\ Deleting' = {}
      BY <3>3, <1>9, AuditAssumption
    <3>1. Rows' = Retention /\ Cardinality(Deleting') = 0
      BY <3>3, <3>4, FS_EmptySet
    <3>. QED
      BY <3>1, <1>8, WriterCounts, AuditAssumption
  <2>. QED
    BY <2>1, <2>2, <1>4, AuditAssumption
<1>. QED
  BY <1>1, <1>2, <1>3, <1>4, <1>6, <1>7, <1>9, <1>10, WriterCounts, AuditAssumption DEF LogInv

LEMMA CountKeepsLog ==
  ASSUME LogInv, NEW w \in Writers, Count(w)
  PROVE  LogInv'
<1>1. write[w] = "count" /\ lastRow' = lastRow /\ log' = log /\ Rows' = Rows
  BY DEF Count, Rows
<1>2. lastRow \in Nat /\ missed \in Nat /\ Rows \in Nat
  BY WriterCounts, AuditAssumption DEF LogInv, AuditTypes
<1>3. CASE Full /\ write' = [write EXCEPT ![w] = "delete"] /\ missed' = missed
  <2>1. AuditTypes'
    BY <1>1, <1>3 DEF LogInv, AuditTypes
  <2>2. Writing' = Writing
    BY <1>1, <1>3, WriterDeletes DEF LogInv
  <2>3. Rows > Retention
    BY <1>3 DEF Full, Rows
  <2>4. IsFiniteSet(Deleting') /\ Cardinality(Deleting') \in Nat
        /\ Cardinality(Deleting') <= Cardinality(Writers)
    <3>1. Deleting' \subseteq Writers
      BY DEF Deleting
    <3>. QED
      BY <3>1, AuditAssumption, FS_Subset, FS_CardinalityType
  <2>5. Rows >= Retention + 1 - Cardinality(Writers) + Cardinality(Deleting')
    BY <1>2, <2>3, <2>4, WriterCounts, AuditAssumption
  <2>6. ~(lastRow' <= Retention)
    BY <1>1, <1>2, <2>3, AuditAssumption DEF LogInv
  <2>. QED
    BY <1>1, <1>3, <2>1, <2>2, <2>5, <2>6 DEF LogInv
<1>4. CASE ~Full /\ write' = [write EXCEPT ![w] = None] /\ missed' = missed
  <2>1. AuditTypes'
    BY <1>1, <1>4 DEF LogInv, AuditTypes
  <2>2. Cardinality(Writing') = Cardinality(Writing) - 1 /\ Deleting' = Deleting
        /\ Cardinality(Writing') \in Nat
    <3>1. Writing' \subseteq Writers
      BY DEF Writing
    <3>. QED
      BY <3>1, <1>1, <1>4, WriterEnds, NoneAssumption, AuditAssumption, FS_Subset,
         FS_CardinalityType DEF LogInv
  <2>3. Rows <= Retention
    BY <1>2, <1>4, AuditAssumption DEF Full, Rows
  <2>4. Rows' <= Retention + Cardinality(Writing') + missed'
    BY <1>1, <1>2, <1>4, <2>2, <2>3, AuditAssumption
  <2>. QED
    BY <1>1, <2>1, <2>2, <2>4 DEF LogInv
<1>5. CASE write' = [write EXCEPT ![w] = None] /\ missed' = missed + 1
  <2>1. AuditTypes'
    BY <1>1, <1>5 DEF LogInv, AuditTypes
  <2>2. Cardinality(Writing') = Cardinality(Writing) - 1 /\ Deleting' = Deleting
    BY <1>1, <1>5, WriterEnds, NoneAssumption DEF LogInv
  <2>3. Rows' <= Retention + Cardinality(Writing') + missed'
    BY <1>1, <1>2, <1>5, <2>2, WriterCounts, AuditAssumption DEF LogInv
  <2>. QED
    BY <1>1, <2>1, <2>2, <2>3 DEF LogInv
<1>. QED
  BY <1>3, <1>4, <1>5 DEF Count

LEMMA DeleteKeepsLog ==
  ASSUME LogInv, NEW w \in Writers, Delete(w)
  PROVE  LogInv'
<1>1. /\ write[w] = "delete" /\ write' = [write EXCEPT ![w] = None]
      /\ lastRow' = lastRow
  BY DEF Delete
<1>2. lastRow \in Nat /\ missed \in Nat /\ Rows \in Nat
  BY WriterCounts, AuditAssumption DEF LogInv, AuditTypes
<1>3. /\ Cardinality(Writing') = Cardinality(Writing) - 1
      /\ Cardinality(Deleting') = Cardinality(Deleting) - 1
  BY <1>1, WriterEnds, NoneAssumption DEF LogInv
<1>4. w \in Deleting /\ lastRow > Retention
  BY <1>1, <1>2, AuditAssumption DEF Deleting, LogInv
<1>5. CASE log' = log \ {CHOOSE id \in log : \A other \in log : id <= other}
           /\ missed' = missed
  <2>1. CASE Rows = 0
    <3>1. log = {} /\ log' = {} /\ Rows' = 0 /\ IsFiniteSet(log')
      BY <2>1, <1>5, FS_EmptySet DEF LogInv, Rows
    <3>2. AuditTypes'
      BY <1>1, <1>5, <3>1 DEF LogInv, AuditTypes
    <3>3. Cardinality(Writing') \in Nat
      <4>1. Writing' \subseteq Writers
        BY DEF Writing
      <4>. QED
        BY <4>1, AuditAssumption, FS_Subset, FS_CardinalityType
    <3>4. 0 >= Retention + 1 - Cardinality(Writers) + Cardinality(Deleting')
      BY <2>1, <1>2, <1>3, <1>4, WriterCounts, AuditAssumption DEF LogInv
    <3>5. log' = (lastRow' - Rows' + 1)..lastRow'
      BY <3>1, <1>1, <1>2
    <3>. QED
      BY <1>1, <1>2, <1>4, <1>5, <3>1, <3>2, <3>3, <3>4, <3>5, AuditAssumption DEF LogInv
  <2>2. CASE Rows > 0
    <3>. DEFINE first == lastRow - Rows + 1
    <3>1. first \in Int /\ first <= lastRow /\ log = first..lastRow
      BY <2>2, <1>2 DEF LogInv
    <3>2. (CHOOSE id \in log : \A other \in log : id <= other) = first
      BY <3>1, <1>2, OldestRow
    <3>3. log' = log \ {first} /\ first \in log
      BY <3>1, <3>2, <1>2, <1>5
    <3>4. IsFiniteSet(log') /\ Rows' = Rows - 1
      BY <3>3, FS_RemoveElement DEF LogInv, Rows
    <3>5. log' = (lastRow' - Rows' + 1)..lastRow'
      BY <3>1, <3>3, <3>4, <1>1, <1>2
    <3>6. AuditTypes'
      BY <1>1, <1>5, <3>3 DEF LogInv, AuditTypes
    <3>7. Rows' <= Retention + Cardinality(Writing') + missed'
      BY <3>4, <1>2, <1>3, <1>5, WriterCounts, AuditAssumption DEF LogInv
    <3>8. Rows' >= Retention + 1 - Cardinality(Writers) + Cardinality(Deleting')
      BY <3>4, <1>2, <1>3, <1>4, WriterCounts, AuditAssumption DEF LogInv
    <3>9. Rows' <= lastRow' /\ ~(lastRow' <= Retention)
      BY <3>4, <1>1, <1>2, <1>4, AuditAssumption DEF LogInv
    <3>. QED
      BY <3>4, <3>5, <3>6, <3>7, <3>8, <3>9 DEF LogInv
  <2>. QED
    BY <2>1, <2>2, <1>2
<1>6. CASE log' = log /\ missed' = missed + 1
  <2>1. AuditTypes' /\ Rows' = Rows
    BY <1>1, <1>6 DEF LogInv, AuditTypes, Rows
  <2>2. Rows' <= Retention + Cardinality(Writing') + missed'
    BY <2>1, <1>2, <1>3, <1>6, WriterCounts, AuditAssumption DEF LogInv
  <2>3. Rows' >= Retention + 1 - Cardinality(Writers) + Cardinality(Deleting')
    BY <2>1, <1>2, <1>3, <1>4, WriterCounts, AuditAssumption DEF LogInv
  <2>4. ~(lastRow' <= Retention)
    BY <1>1, <1>2, <1>4, AuditAssumption
  <2>. QED
    BY <1>1, <1>6, <2>1, <2>2, <2>3, <2>4 DEF LogInv
<1>. QED
  BY <1>5, <1>6 DEF Delete

LEMMA LogKept == LogInv /\ [Next]_vars => LogInv'
<1>. SUFFICES ASSUME LogInv, [Next]_vars PROVE LogInv'
  OBVIOUS
<1>1. ASSUME UNCHANGED auditVars PROVE LogInv'
  BY <1>1 DEF auditVars, LogInv, AuditTypes, Rows, Writing, Deleting
<1>2. CASE Tick
  BY <1>1, <1>2 DEF Tick
<1>3. ASSUME NEW h \in Logins, Allowed(h) \/ \E ip \in IPs : Prune(h, ip) PROVE LogInv'
  BY <1>1, <1>3 DEF Allowed, Prune
<1>4. ASSUME NEW w \in Writers, Insert(w) \/ Count(w) \/ Delete(w) PROVE LogInv'
  BY <1>4, InsertKeepsLog, CountKeepsLog, DeleteKeepsLog
<1>5. CASE UNCHANGED vars
  BY <1>1, <1>5 DEF vars, auditVars
<1>. QED
  BY <1>2, <1>3, <1>4, <1>5 DEF Next

LEMMA LogInvImplies == LogInv => NewestRowsKept
<1>. SUFFICES ASSUME LogInv PROVE NewestRowsKept
  OBVIOUS
<1>1. Rows \in Nat /\ lastRow \in Nat
  BY WriterCounts, AuditAssumption DEF LogInv, AuditTypes
<1>2. lastRow >= Retention => Rows > Retention - Cardinality(Writers)
  BY <1>1, WriterCounts, AuditAssumption DEF LogInv
<1>. QED
  BY <1>2 DEF LogInv, NewestRowsKept, Rows, Writing

-----------------------------------------------------------------------------
(* Every variable of the limiter and of the audit log keeps its type.      *)
THEOREM StoresTypes == Spec => []TypeOK
<1>1. Init => LimiterTypes /\ LogInv
  BY StoresInit, LogInit
<1>2. LimiterTypes /\ LogInv /\ [Next]_vars => (LimiterTypes /\ LogInv)'
  BY LimiterTypesKept, LogKept
<1>3. LimiterTypes /\ LogInv => TypeOK
  BY TypesSplit DEF LogInv
<1>. QED
  BY <1>1, <1>2, <1>3, PTL DEF Spec

(* AddAuditLog's separate INSERT, COUNT and DELETE keep the newest rows,   *)
(* for any retention and any number of goroutines writing at once: the log *)
(* has no gap, exceeds the retention only by rows being written and rows   *)
(* whose write failed, and falls short of it by fewer rows than there are  *)
(* writers.                                                                *)
THEOREM NewestRowsAreKept == Spec => []NewestRowsKept
<1>. QED
  BY LogInit, LogKept, LogInvImplies, PTL DEF Spec

(* The limiter of login attempts keeps its promise however clients, prunes *)
(* and the clock interleave: no address is let through more than twice the *)
(* limit within any window of time.                                        *)
THEOREM AttemptsAreBounded == Spec => []AttemptsBounded
<1>1. WindowInv => AttemptsBounded
  BY DEF WindowInv, WindowOf, AttemptsBounded, GrantedIn
<1>. QED
  BY <1>1, WindowInit, WindowsKept, PTL DEF Spec

(* And it refuses only a client that was given its whole limit within the  *)
(* last window: insisting does not prolong the wait.                       *)
THEOREM RefusalsAreEarned == Spec => RefusedOnlyWhenSpent
<1>1. WindowInv /\ [Next]_vars =>
        [\A h \in Logins :
           (login[h] # None /\ login'[h] = None /\ granted' = granted) =>
             GrantedIn(login[h], now - Window + 1, now) >= Limit]_vars
  <2>. SUFFICES ASSUME WindowInv, [Next]_vars, NEW h \in Logins, login[h] # None, login'[h] = None,
                       granted' = granted
                PROVE  GrantedIn(login[h], now - Window + 1, now) >= Limit
    OBVIOUS
  <2>1. PICK k \in Logins : Allowed(k) /\ k = h
    <3>1. ASSUME NEW k \in Logins, NEW ip \in IPs, Prune(k, ip) PROVE FALSE
      BY <3>1, NoneAssumption DEF Prune, WindowInv, LimiterTypes
    <3>2. ASSUME NEW k \in Logins, Allowed(k) PROVE k = h
      BY <3>2 DEF Allowed, WindowInv, LimiterTypes
    <3>3. login' # login
      OBVIOUS
    <3>4. ASSUME NEW w \in Writers, Insert(w) \/ Count(w) \/ Delete(w) PROVE FALSE
      BY <3>3, <3>4 DEF Insert, Count, Delete, limiterVars
    <3>. QED
      BY <3>1, <3>2, <3>3, <3>4 DEF Next, Tick, vars
  <2>2. PICK ip \in IPs, r \in Record :
          /\ ip = login[h]
          /\ \/ granted' = [granted EXCEPT ![ip] = OneMore(granted[ip], now)]
             \/ byIP[ip] # None /\ ~StaleAt(ip, now) /\ byIP[ip].count >= Limit
    BY <2>1, AllowedDoes
  <2>3. /\ now \in Times /\ granted \in [IPs -> [Since -> Nat]] /\ byIP[ip] \in Record \cup {None}
        /\ now \in Since /\ WindowOf(granted[ip], byIP[ip], now)
    BY TimesAndSince DEF WindowInv, LimiterTypes
  <2>4. granted' # [granted EXCEPT ![ip] = OneMore(granted[ip], now)]
    <3>1. OneMore(granted[ip], now)[now] = granted[ip][now] + 1 /\ granted[ip][now] \in Nat
      BY <2>3, TimesAndSince DEF OneMore
    <3>. QED
      BY <2>3, <3>1
  <2>5. byIP[ip] \in Record /\ byIP[ip] # None /\ byIP[ip].count >= Limit
    BY <2>2, <2>3, <2>4
  <2>. DEFINE g == granted[ip]
              start == byIP[ip].start
              count == byIP[ip].count
  <2>6. /\ start \in Times /\ start \in Nat /\ count \in Nat /\ now \in Nat
        /\ Limit \in Nat /\ Window \in Nat
    BY <2>3, <2>5, TimesAndSince DEF Record
  <2>7. now - start < Window
    BY <2>2, <2>4, <2>5, <2>6 DEF StaleAt
  <2>8. /\ g \in [Since -> Nat]
        /\ g[now] - g[start - 1] = IF count > Limit THEN Limit ELSE count
        /\ \A t, u \in Since : t <= u => g[t] <= g[u]
    BY <2>3, <2>5 DEF WindowOf
  <2>9. now - Window \in Since /\ start - 1 \in Since /\ now - Window + 1 - 1 = now - Window
    BY <2>3, <2>6, TimesAndSince
  <2>10. GrantedIn(ip, now - Window + 1, now) = g[now] - g[now - Window]
    BY <2>6, <2>9 DEF GrantedIn
  <2>11. ip = login[h] /\ count >= Limit
    BY <2>2, <2>5
  <2>. HIDE DEF g, start, count
  <2>12. g[now - Window] <= g[start - 1]
    BY <2>6, <2>7, <2>8, <2>9
  <2>13. g[now] - g[start - 1] = Limit
    BY <2>6, <2>8, <2>11
  <2>14. g[now] - g[now - Window] >= Limit
    BY <2>3, <2>6, <2>8, <2>9, <2>12, <2>13
  <2>. QED
    BY <2>10, <2>11, <2>14
<1>. QED
  BY <1>1, WindowInit, WindowsKept, PTL DEF Spec, RefusedOnlyWhenSpent
=============================================================================
