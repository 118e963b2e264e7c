--------------------------- MODULE Traffic_proofs ---------------------------
(***************************************************************************)
(* Theorems about Traffic, for any number of users and samplers.           *)
(*                                                                         *)
(* The argument for NeverDoubleCounted: at every moment the bytes a user   *)
(* carried and was not charged for cover what the next sample will add,    *)
(* and, while a sample holds a reading that it has not applied, what that  *)
(* reading will add plus what the counter has gained since it was taken.   *)
(***************************************************************************)
EXTENDS Traffic, TLAPS

OneProcess == \A s, t \in Samplers : ProcessOf[s] = ProcessOf[t]

(* A container that is not running counts nothing, and no counter exceeds  *)
(* what the account's container carried.                                   *)
Counters ==
  \A n \in Names : /\ instance[n] # "running" => counter[n] = 0
                   /\ counter[n] <= carried[n]

(* A sample applies only readings that it has.                             *)
Listed ==
  \A s \in Samplers : sample[s].at = "apply" => sample[s].todo \subseteq DOMAIN sample[s].tm

TypeInv == TypeOK /\ Counters /\ Listed

Reading == [at : {"read"}, todo : SUBSET Names, tm : TrafficMaps]
Applying == [at : {"apply"}, todo : SUBSET Names, tm : TrafficMaps, month : Months]

(* What a sampler holds is told by how far it is.                          *)
LEMMA SampleCases ==
  ASSUME NEW x \in Sample
  PROVE  /\ x = Idle \/ x \in Reading \/ x \in Applying
         /\ x.at = "read" => x \in Reading
         /\ x.at = "apply" => x \in Applying
         /\ x = Idle => x.at = "idle"
BY DEF Sample, Idle, Reading, Applying

(* Adding a reading to a traffic map gives a traffic map.                  *)
LEMMA WithType ==
  ASSUME NEW tm \in TrafficMaps, NEW n \in Names, NEW v \in Bytes
  PROVE  /\ With(tm, n, v) \in TrafficMaps
         /\ DOMAIN With(tm, n, v) = DOMAIN tm \cup {n}
         /\ With(tm, n, v)[n] = v
         /\ \A m \in DOMAIN tm : m # n => With(tm, n, v)[m] = tm[m]
<1>1. PICK S \in SUBSET Names : tm \in [S -> Bytes]
  BY DEF TrafficMaps
<1>2. With(tm, n, v) \in [S \cup {n} -> Bytes]
  BY <1>1 DEF With
<1>. QED
  BY <1>1, <1>2 DEF With, TrafficMaps

LEMMA EmptyMap == [n \in {} |-> 0] \in TrafficMaps
<1>1. [n \in {} |-> 0] \in [{} -> Bytes]
  OBVIOUS
<1>. QED
  BY <1>1 DEF TrafficMaps

LEMMA TypeInit == Init => TypeInv
  BY BoundsAssumption DEF Init, TypeInv, TypeOK, Counters, Listed, Idle, Sample, Bytes, Months

LEMMA TypeStep == TypeInv /\ [Next]_vars => TypeInv'
<1> SUFFICES ASSUME TypeInv, [Next]_vars PROVE TypeInv'
  OBVIOUS
<1> USE BoundsAssumption DEF TypeInv, TypeOK, Counters, Listed, Bytes, Months
<1>1. CASE NewMonth
  BY <1>1 DEF NewMonth
<1>2. ASSUME NEW n \in Names, Carry(n) PROVE TypeInv'
  BY <1>2 DEF Carry
<1>3. ASSUME NEW n \in Names, NEW st \in {"running", "stopped", "absent"}, BecomesAs(n, st)
      PROVE  TypeInv'
  BY <1>3 DEF BecomesAs
<1>4. ASSUME NEW n \in Names, CreateUser(n) PROVE TypeInv'
  BY <1>4 DEF CreateUser
<1>5. ASSUME NEW n \in Names, DeleteUser(n) PROVE TypeInv'
  <2>1. ASSUME NEW s \in Samplers PROVE sample'[s] \in Sample
    BY <1>5 DEF DeleteUser, Sample, Idle
  <2>2. sample' \in [Samplers -> Sample]
    BY <1>5, <2>1 DEF DeleteUser
  <2>3. Listed'
    BY <1>5 DEF DeleteUser
  <2>. QED
    BY <1>5, <2>2, <2>3 DEF DeleteUser
<1>6. ASSUME NEW s \in Samplers, NEW x \in Sample,
             sample' = [sample EXCEPT ![s] = x],
             x.at = "apply" => x.todo \subseteq DOMAIN x.tm,
             sampleMu' \subseteq Processes,
             UNCHANGED <<users, lxd, month, row, history>>
      PROVE  TypeInv'
  BY <1>6 DEF lxd, history
<1>7. ASSUME NEW s \in Samplers, SampleTraffic(s) PROVE TypeInv'
  <2>1. [at |-> "read", todo |-> {n \in Names : instance[n] = "running"},
         tm |-> [n \in {} |-> 0]] \in Sample
    BY EmptyMap DEF Sample
  <2>2. sampleMu' \subseteq Processes
    BY <1>7, SamplersAssumption DEF SampleTraffic, Lock
  <2>. QED
    BY <1>6, <1>7, <2>1, <2>2 DEF SampleTraffic
<1>8. ASSUME NEW s \in Samplers, SampleFails(s) \/ SampleDone(s) PROVE TypeInv'
  <2>1. Idle \in Sample
    BY DEF Sample
  <2>2. Idle.at # "apply"
    BY DEF Idle
  <2>. QED
    BY <1>6, <1>8, <2>2, <2>1 DEF SampleFails, SampleDone, Unlock
<1>9. ASSUME NEW s \in Samplers, ListUsers(s) PROVE TypeInv'
  <2>1. sample[s] \in Reading
    BY <1>9, SampleCases DEF ListUsers
  <2>2. [at |-> "apply", todo |-> users \cap DOMAIN sample[s].tm,
         tm |-> sample[s].tm, month |-> month] \in Sample
    BY <2>1 DEF Sample, Reading
  <2>. QED
    BY <1>6, <1>9, <2>2 DEF ListUsers
<1>10. ASSUME NEW s \in Samplers, NEW n \in Names, ReadState(s, n) \/ ReadFails(s, n)
       PROVE  TypeInv'
  <2>1. sample[s] \in Reading
    BY <1>10, SampleCases DEF ReadState, ReadFails
  <2>2. PICK tm \in TrafficMaps : Observe(s, n, tm)
    <3>1. 0 \in Bytes /\ counter[n] \in Bytes
      OBVIOUS
    <3>2. sample[s].tm \in TrafficMaps
      BY <2>1 DEF Reading
    <3>3. With(sample[s].tm, n, 0) \in TrafficMaps
          /\ With(sample[s].tm, n, counter[n]) \in TrafficMaps
      BY <3>1, <3>2, WithType
    <3>. QED
      BY <1>10, <3>2, <3>3 DEF ReadState, ReadFails
  <2>3. /\ [sample[s] EXCEPT !.todo = @ \ {n}, !.tm = tm] \in Sample
        /\ [sample[s] EXCEPT !.todo = @ \ {n}, !.tm = tm].at = "read"
    BY <2>1, <2>2 DEF Reading, Sample
  <2>4. sample' = [sample EXCEPT ![s] = [sample[s] EXCEPT !.todo = @ \ {n}, !.tm = tm]]
    BY <2>2, <2>1 DEF Observe, Reading
  <2>. QED
    BY <1>6, <2>2, <2>3, <2>4 DEF Observe
<1>11. ASSUME NEW s \in Samplers, NEW n \in Names, ApplyTraffic(s, n) \/ ApplyFails(s, n)
       PROVE  TypeInv'
  <2>1. sample[s] \in Applying /\ n \in sample[s].todo
    BY <1>11, SampleCases DEF ApplyTraffic, ApplyFails
  <2>2. /\ [sample[s] EXCEPT !.todo = @ \ {n}] \in Sample
        /\ [sample[s] EXCEPT !.todo = @ \ {n}].todo
             \subseteq DOMAIN [sample[s] EXCEPT !.todo = @ \ {n}].tm
    BY <2>1 DEF Applying, Sample
  <2>3. sample' = [sample EXCEPT ![s] = [sample[s] EXCEPT !.todo = @ \ {n}]]
    BY <1>11 DEF ApplyTraffic, ApplyFails
  <2>4. CASE ApplyFails(s, n)
    BY <1>6, <2>2, <2>3, <2>4 DEF ApplyFails
  <2>5. CASE ApplyTraffic(s, n)
    <3>1. sample' \in [Samplers -> Sample]
      BY <2>2, <2>3
    <3>2. row' \in [Names -> Row \cup {NoRow}] /\ closed' \in [Names -> Nat]
      <4>1. sample[s].tm[n] \in Bytes
        <5>1. PICK S \in SUBSET Names : sample[s].tm \in [S -> Bytes]
          BY <2>1 DEF Applying, TrafficMaps
        <5>2. n \in S
          BY <2>1, <5>1 DEF Applying
        <5>. QED
          BY <5>1, <5>2
      <4>. QED
        BY <2>1, <2>5, <4>1, NoRowAssumption
        DEF ApplyTraffic, Applying, Row, Advanced, Growth
    <3>3. Listed'
      BY <2>2, <2>3
    <3>. QED
      BY <2>5, <3>1, <3>2, <3>3 DEF ApplyTraffic, lxd
  <2>. QED
    BY <1>11, <2>4, <2>5
<1>12. CASE UNCHANGED vars
  BY <1>12 DEF vars
<1>. QED
  BY <1>1, <1>2, <1>3, <1>4, <1>5, <1>7, <1>8, <1>9, <1>10, <1>11, <1>12
  DEF Next, Container, Sampling, Stop, Start, DeleteContainer, Launch

(* Every variable keeps its type, for any number of processes, and no      *)
(* counter runs ahead of what the container carried.                       *)
THEOREM TrafficTypes == Spec => []TypeOK
<1>1. TypeInv => TypeOK
  BY DEF TypeInv
<1>. QED
  BY TypeInit, TypeStep, <1>1, PTL DEF Spec

-----------------------------------------------------------------------------
(* The arithmetic of the upsert.                                           *)
LEMMA GrowthNat ==
  ASSUME NEW a \in Nat, NEW b \in Nat
  PROVE  Growth(a, b) \in Nat /\ Growth(a, b + 1) \in Nat
         /\ Growth(a, b + 1) <= Growth(a, b) + 1
BY DEF Growth

LEMMA GrowthZero ==
  ASSUME NEW a \in Nat PROVE Growth(a, 0) = 0 /\ Growth(a, a) = 0
BY DEF Growth

LEMMA GrowthTriangle ==
  ASSUME NEW a \in Nat, NEW b \in Nat, NEW c \in Nat
  PROVE  Growth(a, c) <= Growth(a, b) + Growth(b, c)
BY DEF Growth

-----------------------------------------------------------------------------
(* Samples of one process never overlap.                                   *)
Sole ==
  /\ \A s \in Samplers : sample[s] # Idle => ProcessOf[s] \in sampleMu
  /\ \A s, t \in Samplers : sample[s] # Idle /\ sample[t] # Idle => s = t

(* Only users have rows, and a sample applies its readings to users only.  *)
Accounts ==
  /\ \A n \in Names : n \notin users => row[n] = NoRow
  /\ \A s \in Samplers : sample[s].at = "apply" => sample[s].todo \subseteq users

Shape == TypeInv /\ Sole /\ Accounts

LEMMA ShapeInit == Init => Shape
  BY TypeInit DEF Init, Shape, Sole, Accounts, Idle

LEMMA ShapeStep == OneProcess /\ Shape /\ [Next]_vars => Shape'
<1> SUFFICES ASSUME OneProcess, Shape, [Next]_vars PROVE Shape'
  OBVIOUS
<1>0. TypeInv' /\ sample \in [Samplers -> Sample] /\ row \in [Names -> Row \cup {NoRow}]
  BY TypeStep DEF Shape, TypeInv, TypeOK
<1> USE DEF Shape, Sole, Accounts
<1>1. CASE NewMonth
  BY <1>0, <1>1 DEF NewMonth
<1>2. ASSUME NEW n \in Names, Carry(n) PROVE Shape'
  BY <1>0, <1>2 DEF Carry
<1>3. ASSUME NEW n \in Names, NEW st, BecomesAs(n, st) PROVE Shape'
  BY <1>0, <1>3 DEF BecomesAs
<1>4. ASSUME NEW n \in Names, CreateUser(n) PROVE Shape'
  BY <1>0, <1>4 DEF CreateUser
<1>5. ASSUME NEW n \in Names, DeleteUser(n) PROVE Shape'
  <2>1. \A s \in Samplers : /\ sample'[s] = Idle <=> sample[s] = Idle
                            /\ sample'[s].at = "apply" =>
                                 /\ sample[s].at = "apply"
                                 /\ sample'[s].todo = sample[s].todo \ {n}
    BY <1>0, <1>5, SampleCases DEF DeleteUser, Idle, Reading, Applying
  <2>2. row'[n] = NoRow /\ \A m \in Names : m # n => row'[m] = row[m]
    BY <1>0, <1>5 DEF DeleteUser
  <2>. QED
    BY <1>0, <1>5, <2>1, <2>2 DEF DeleteUser
<1>6. ASSUME NEW s \in Samplers, SampleTraffic(s) PROVE Shape'
  BY <1>0, <1>6 DEF SampleTraffic, Lock, OneProcess, lxd
<1>7. ASSUME NEW s \in Samplers, SampleFails(s) \/ SampleDone(s) PROVE Shape'
  <2>1. sample[s] # Idle
    BY <1>7 DEF SampleFails, SampleDone, Idle
  <2>2. sample' = [sample EXCEPT ![s] = Idle] /\ UNCHANGED <<users, row>>
    BY <1>7 DEF SampleFails, SampleDone
  <2>3. \A t \in Samplers : sample'[t] = Idle
    BY <1>0, <2>1, <2>2
  <2>. QED
    BY <1>0, <2>2, <2>3 DEF Idle
<1>8. ASSUME NEW s \in Samplers, ListUsers(s) PROVE Shape'
  BY <1>0, <1>8 DEF ListUsers, Idle
<1>9. ASSUME NEW s \in Samplers, NEW n \in Names,
             ReadState(s, n) \/ ReadFails(s, n) \/ ApplyTraffic(s, n) \/ ApplyFails(s, n)
      PROVE  Shape'
  <2>1. sample[s] # Idle /\ sample[s].at \in {"read", "apply"}
    BY <1>9 DEF ReadState, ReadFails, ApplyTraffic, ApplyFails, Idle
  <2>2. sample[s] \in Reading \/ sample[s] \in Applying
    BY <1>0, <2>1, SampleCases
  <2>3. /\ sample'[s] # Idle
        /\ sample'[s].at = sample[s].at
        /\ sample'[s].todo = sample[s].todo \ {n}
        /\ \A t \in Samplers : t # s => sample'[t] = sample[t]
        /\ UNCHANGED <<sampleMu, users>>
    BY <1>0, <1>9, <2>1, <2>2
    DEF ReadState, ReadFails, ApplyTraffic, ApplyFails, Observe, Idle, Reading, Applying
  <2>4. \A m \in Names : row'[m] = row[m] \/ (m = n /\ n \in users)
    BY <1>0, <1>9 DEF ReadState, ReadFails, ApplyTraffic, ApplyFails, Observe
  <2>. QED
    BY <1>0, <2>1, <2>3, <2>4
<1>10. CASE UNCHANGED vars
  BY <1>0, <1>10 DEF vars
<1>. QED
  BY <1>1, <1>2, <1>3, <1>4, <1>5, <1>6, <1>7, <1>8, <1>9, <1>10
  DEF Next, Container, Sampling, Stop, Start, DeleteContainer, Launch

-----------------------------------------------------------------------------
(* What a user carried and was not charged for, and what a reading of the  *)
(* counter would add.                                                      *)
Uncharged(n) == carried[n] - (closed[n] + TotalOf(n))
Owed(n, now) == IF row[n] = NoRow THEN 0 ELSE Growth(row[n].last, now)

(* A sampler holds a reading of n that it may yet apply.                   *)
Holds(s, n) == \/ sample[s].at = "read" /\ n \in DOMAIN sample[s].tm
               \/ sample[s].at = "apply" /\ n \in sample[s].todo

Covered(n) == Uncharged(n) >= Owed(n, counter[n])
CoveredHeld(s, n) ==
  Uncharged(n) >= Owed(n, sample[s].tm[n]) + Growth(sample[s].tm[n], counter[n])

Balanced(n) == Covered(n) /\ \A s \in Samplers : Holds(s, n) => CoveredHeld(s, n)

Ledger == \A n \in Names : Balanced(n)

LEMMA LedgerInit == Init => Ledger
  BY DEF Init, Ledger, Balanced, Covered, CoveredHeld, Holds, Uncharged, Owed, TotalOf, Idle

(* A reading that is held is a number of bytes.                            *)
LEMMA HeldType ==
  ASSUME TypeInv, NEW s \in Samplers, NEW n \in Names, Holds(s, n)
  PROVE  sample[s].tm[n] \in Nat
<1>1. sample[s] \in Reading \/ sample[s] \in Applying
  BY SampleCases DEF TypeInv, TypeOK, Holds
<1>2. PICK S \in SUBSET Names : sample[s].tm \in [S -> Bytes]
  BY <1>1 DEF Reading, Applying, TrafficMaps
<1>3. n \in S
  BY <1>2 DEF TypeInv, Listed, Holds
<1>. QED
  BY <1>2, <1>3 DEF Bytes

(* The numbers a user's ledger is made of.                                 *)
LEMMA LedgerType ==
  ASSUME TypeInv, NEW n \in Names
  PROVE  /\ carried[n] \in Nat /\ closed[n] \in Nat /\ counter[n] \in Nat
         /\ TotalOf(n) \in Nat
         /\ row[n] # NoRow => row[n].last \in Nat /\ row[n].total \in Nat
BY BoundsAssumption DEF TypeInv, TypeOK, Bytes, TotalOf, Row

(* The row and the readings of n stay, and its counter and what it carried *)
(* grow together, or the counter drops to zero.                            *)
LEMMA LedgerObserved ==
  ASSUME Shape, Ledger, Shape', NEW n \in Names,
         \/ carried'[n] = carried[n] /\ counter'[n] = counter[n]
         \/ carried'[n] = carried[n] /\ counter'[n] = 0
         \/ carried'[n] = carried[n] + 1 /\ counter'[n] = counter[n] + 1,
         closed'[n] = closed[n], row'[n] = row[n],
         \A s \in Samplers : Holds(s, n)' => Holds(s, n) /\ sample'[s].tm[n] = sample[s].tm[n]
  PROVE  Balanced(n)'
<1>0. TypeInv /\ TypeInv'
  BY DEF Shape
<1>1. /\ carried[n] \in Nat /\ closed[n] \in Nat /\ counter[n] \in Nat /\ TotalOf(n) \in Nat
      /\ row[n] # NoRow => row[n].last \in Nat
  BY <1>0, LedgerType
<1>2. Covered(n)'
  <2>1. Covered(n)
    BY DEF Ledger, Balanced
  <2>2. CASE row[n] = NoRow
    BY <1>1, <2>1, <2>2 DEF Covered, Uncharged, Owed, TotalOf
  <2>3. CASE row[n] # NoRow
    <3>1. PICK l \in Nat : l = row[n].last
      BY <1>1, <2>3
    <3>2. /\ Growth(l, 0) = 0 /\ Growth(l, counter[n]) \in Nat
          /\ Growth(l, counter[n] + 1) <= Growth(l, counter[n]) + 1
          /\ Growth(l, counter[n] + 1) \in Nat
      BY <1>1, GrowthNat, GrowthZero
    <3>. QED
      BY <1>1, <2>1, <2>3, <3>1, <3>2 DEF Covered, Uncharged, Owed, TotalOf
  <2>. QED
    BY <2>2, <2>3
<1>3. ASSUME NEW s \in Samplers, Holds(s, n)' PROVE CoveredHeld(s, n)'
  <2>1. Holds(s, n) /\ CoveredHeld(s, n) /\ sample'[s].tm[n] = sample[s].tm[n]
    BY <1>3 DEF Ledger, Balanced
  <2>2. sample[s].tm[n] \in Nat
    BY <1>0, <2>1, HeldType
  <2>3. PICK t \in Nat : t = sample[s].tm[n] /\ t = sample'[s].tm[n]
    BY <2>1, <2>2
  <2>4. /\ Growth(t, 0) = 0 /\ Growth(t, counter[n]) \in Nat
        /\ Growth(t, counter[n] + 1) <= Growth(t, counter[n]) + 1
        /\ Growth(t, counter[n] + 1) \in Nat
        /\ Owed(n, t) \in Nat
    BY <1>1, GrowthNat, GrowthZero DEF Owed
  <2>. QED
    BY <1>1, <2>1, <2>3, <2>4 DEF CoveredHeld, Uncharged, Owed, TotalOf
<1>. QED
  BY <1>2, <1>3 DEF Balanced

(* No state call fails on a container that is there.                       *)
StatesAnswer == "state" \notin Faults

LEMMA LedgerStep == OneProcess /\ StatesAnswer /\ Shape /\ Ledger /\ [Next]_vars => Ledger'
<1> SUFFICES ASSUME OneProcess, StatesAnswer, Shape, Ledger, [Next]_vars, NEW n \in Names
             PROVE  Balanced(n)'
  BY DEF Ledger
<1>0. Shape' /\ TypeInv /\ TypeInv' /\ Balanced(n)
  BY ShapeStep DEF Shape, Ledger
<1>a. /\ sample \in [Samplers -> Sample] /\ row \in [Names -> Row \cup {NoRow}]
      /\ carried \in [Names -> Bytes] /\ counter \in [Names -> Bytes]
      /\ closed \in [Names -> Nat] /\ instance \in [Names -> {"running", "stopped", "absent"}]
  BY <1>0 DEF TypeInv, TypeOK
<1>b. /\ carried[n] \in Nat /\ closed[n] \in Nat /\ counter[n] \in Nat /\ TotalOf(n) \in Nat
      /\ row[n] # NoRow => row[n].last \in Nat /\ row[n].total \in Nat
  BY <1>0, LedgerType
<1>1. CASE NewMonth \/ UNCHANGED vars
  BY <1>0, <1>1, LedgerObserved DEF NewMonth, Holds, vars
<1>2. ASSUME NEW m \in Names, Carry(m) PROVE Balanced(n)'
  BY <1>0, <1>a, <1>2, LedgerObserved DEF Carry, Holds
<1>3. ASSUME NEW m \in Names, NEW st, BecomesAs(m, st) PROVE Balanced(n)'
  BY <1>0, <1>a, <1>3, LedgerObserved DEF BecomesAs, Holds
<1>4. ASSUME NEW m \in Names, CreateUser(m) PROVE Balanced(n)'
  <2>1. CASE m # n
    BY <1>0, <1>a, <1>4, <2>1, LedgerObserved DEF CreateUser, Holds
  <2>2. CASE m = n
    <3>1. /\ carried'[n] = 0 /\ closed'[n] = 0 /\ counter'[n] = 0 /\ row'[n] = NoRow
      BY <1>0, <1>a, <1>4, <2>2 DEF CreateUser, Shape, Accounts, TypeInv, Counters
    <3>2. ASSUME NEW s \in Samplers, Holds(s, n)' PROVE Growth(sample'[s].tm[n], 0) = 0
      BY <1>0, <1>4, <3>2, HeldType, GrowthZero DEF CreateUser, Holds
    <3>. QED
      BY <3>1, <3>2 DEF Balanced, Covered, CoveredHeld, Uncharged, Owed, TotalOf
  <2>. QED
    BY <2>1, <2>2
<1>5. ASSUME NEW m \in Names, DeleteUser(m) PROVE Balanced(n)'
  <2>0. \A s \in Samplers : Holds(s, n)' => Holds(s, n) /\ sample'[s].tm[n] = sample[s].tm[n]
    BY <1>a, <1>5, SampleCases DEF DeleteUser, Holds, Reading, Applying, Idle
  <2>1. CASE m # n
    BY <1>0, <1>a, <1>5, <2>0, <2>1, LedgerObserved DEF DeleteUser
  <2>2. CASE m = n
    <3>1. /\ carried'[n] = carried[n] /\ closed'[n] = closed[n] /\ counter'[n] = 0
          /\ row'[n] = NoRow
      BY <1>0, <1>a, <1>5, <2>2 DEF DeleteUser, TypeInv, Counters
    <3>2. Uncharged(n) >= 0
      <4>1. Owed(n, counter[n]) >= 0
        <5>1. row[n] # NoRow => Growth(row[n].last, counter[n]) \in Nat
          BY <1>b, GrowthNat
        <5>. QED
          BY <5>1 DEF Owed
      <4>. QED
        BY <1>0, <1>b, <4>1 DEF Balanced, Covered, Uncharged, Owed, Growth
    <3>3. ASSUME NEW s \in Samplers, Holds(s, n)' PROVE Growth(sample'[s].tm[n], 0) = 0
      BY <1>0, <2>0, <3>3, HeldType, GrowthZero
    <3>. QED
      BY <1>b, <3>1, <3>2, <3>3
      DEF Balanced, Covered, CoveredHeld, Uncharged, Owed, TotalOf
  <2>. QED
    BY <2>1, <2>2
<1>6. ASSUME NEW s \in Samplers,
             SampleTraffic(s) \/ SampleFails(s) \/ SampleDone(s) \/ ListUsers(s)
      PROVE  Balanced(n)'
  <2>1. \A t \in Samplers : Holds(t, n)' => Holds(t, n) /\ sample'[t].tm[n] = sample[t].tm[n]
    <3>1. CASE SampleTraffic(s)
      <4>1. sample'[s].at = "read" /\ DOMAIN sample'[s].tm = {}
        BY <1>a, <3>1 DEF SampleTraffic
      <4>2. \A t \in Samplers : t # s => sample'[t] = sample[t]
        BY <1>a, <3>1 DEF SampleTraffic
      <4>. QED
        BY <4>1, <4>2 DEF Holds
    <3>3. CASE SampleFails(s) \/ SampleDone(s)
      BY <1>a, <3>3 DEF SampleFails, SampleDone, Holds, Idle
    <3>2. CASE ListUsers(s)
      BY <1>a, <3>2 DEF ListUsers, Holds
    <3>. QED
      BY <1>6, <3>1, <3>2, <3>3
  <2>2. UNCHANGED <<carried, counter, closed, row>>
    BY <1>6 DEF SampleTraffic, SampleFails, SampleDone, ListUsers, lxd, history
  <2>. QED
    BY <1>0, <2>1, <2>2, LedgerObserved
<1>7. ASSUME NEW s \in Samplers, NEW m \in Names, ReadState(s, m) \/ ReadFails(s, m)
      PROVE  Balanced(n)'
  <2>1. /\ sample[s] \in Reading /\ sample[s].tm \in TrafficMaps
        /\ UNCHANGED <<carried, counter, closed, row>>
        /\ \A t \in Samplers : t # s => sample'[t] = sample[t]
    BY <1>a, <1>7, SampleCases DEF ReadState, ReadFails, Observe, Reading, lxd, history
  <2>2. PICK tm : sample'[s].tm = tm /\ sample'[s].at = "read" /\
                  (tm = sample[s].tm \/ tm = With(sample[s].tm, m, counter[m]))
    BY <1>0, <1>a, <1>7, <2>1
    DEF ReadState, ReadFails, Observe, StatesAnswer, Reading, TypeInv, Counters
  <2>3. CASE tm = sample[s].tm \/ n # m
    <3> DEFINE Kept == Holds(s, n)' => Holds(s, n) /\ sample'[s].tm[n] = sample[s].tm[n]
    <3>0. ASSUME tm = sample[s].tm PROVE Kept
      BY <2>1, <2>2, <3>0 DEF Holds, Reading
    <3>2. ASSUME n # m, tm = With(sample[s].tm, m, counter[m]) PROVE Kept
      <4>1. /\ DOMAIN tm = DOMAIN sample[s].tm \cup {m}
            /\ \A k \in DOMAIN sample[s].tm : k # m => tm[k] = sample[s].tm[k]
        <5>1. counter[m] \in Bytes
          BY <1>a
        <5>. QED
          BY <2>1, <3>2, <5>1, WithType
      <4>. QED
        BY <2>1, <2>2, <3>2, <4>1 DEF Holds, Reading
    <3>1. Kept
      BY <2>2, <2>3, <3>0, <3>2
    <3>. QED
      BY <1>0, <2>1, <3>1, LedgerObserved DEF Holds
  <2>4. CASE n = m /\ tm = With(sample[s].tm, n, counter[n])
    <3>1. sample'[s].tm[n] = counter[n]
      <4>1. counter[n] \in Bytes
        BY <1>a
      <4>2. With(sample[s].tm, n, counter[n])[n] = counter[n]
        BY <2>1, <4>1, WithType
      <4>. QED
        BY <2>2, <2>4, <4>2
    <3>2. Covered(n)' /\ Uncharged(n)' >= Owed(n, counter[n])'
      BY <1>0, <2>1 DEF Balanced, Covered, Uncharged, Owed, TotalOf
    <3>3. ASSUME NEW t \in Samplers, Holds(t, n)' PROVE CoveredHeld(t, n)'
      <4>1. t = s
        BY <1>a, <2>1, <3>3 DEF Shape, Sole, Holds, Idle, Reading
      <4>2. Growth(counter[n], counter[n]) = 0
        BY <1>b, GrowthZero
      <4>3. Owed(n, counter[n]) \in Nat
        <5>1. row[n] # NoRow => Growth(row[n].last, counter[n]) \in Nat
          BY <1>b, GrowthNat
        <5>. QED
          BY <5>1 DEF Owed
      <4>. QED
        BY <2>1, <3>1, <3>2, <4>1, <4>2, <4>3 DEF CoveredHeld, Owed
    <3>. QED
      BY <3>2, <3>3 DEF Balanced
  <2>. QED
    BY <2>2, <2>3, <2>4
<1>8. ASSUME NEW s \in Samplers, NEW m \in Names, ApplyFails(s, m) PROVE Balanced(n)'
  <2>1. \A t \in Samplers : Holds(t, n)' => Holds(t, n) /\ sample'[t].tm[n] = sample[t].tm[n]
    BY <1>a, <1>8, SampleCases DEF ApplyFails, Holds, Applying
  <2>. QED
    BY <1>0, <1>8, <2>1, LedgerObserved DEF ApplyFails, lxd, history
<1>9. ASSUME NEW s \in Samplers, NEW m \in Names, ApplyTraffic(s, m) PROVE Balanced(n)'
  <2>1. sample[s] \in Applying /\ m \in sample[s].todo /\ Holds(s, m)
    BY <1>a, <1>9, SampleCases DEF ApplyTraffic, Holds
  <2>2. /\ UNCHANGED <<carried, counter>>
        /\ sample' = [sample EXCEPT ![s] = [sample[s] EXCEPT !.todo = @ \ {m}]]
    BY <1>9 DEF ApplyTraffic, lxd
  <2>3. CASE n # m
    <3>1. \A t \in Samplers : Holds(t, n)' => Holds(t, n) /\ sample'[t].tm[n] = sample[t].tm[n]
      BY <1>a, <2>1, <2>2 DEF Holds, Applying
    <3>2. row'[n] = row[n] /\ closed'[n] = closed[n]
      BY <1>a, <1>9, <2>3 DEF ApplyTraffic
    <3>. QED
      BY <1>0, <2>2, <3>1, <3>2, LedgerObserved
  <2>4. CASE n = m
    <3>1. \A t \in Samplers : ~Holds(t, n)'
      BY <1>a, <2>1, <2>2, <2>4 DEF Shape, Sole, Holds, Applying, Idle
    <3>2. PICK t \in Nat : t = sample[s].tm[n]
      BY <1>0, <2>1, <2>4, HeldType
    <3>3. Uncharged(n) >= Owed(n, t) + Growth(t, counter[n])
      BY <1>0, <2>1, <2>4, <3>2 DEF Balanced, CoveredHeld
    <3>4. Growth(t, counter[n]) \in Nat
      BY <1>b, GrowthNat
    <3>7. PICK m1 \in Nat : m1 = sample[s].month
      BY <2>1, BoundsAssumption DEF Applying, Months
    <3>5. CASE row[n] = NoRow
      <4>1. row'[n].last = t /\ row'[n].total = 0 /\ closed'[n] = closed[n] /\ row'[n] # NoRow
        <5>1. /\ row'[n] = [month |-> m1, total |-> 0, last |-> t]
              /\ closed'[n] = closed[n]
          BY <1>a, <1>9, <2>4, <3>2, <3>5, <3>7 DEF ApplyTraffic
        <5>. QED
          BY <5>1, NoRowAssumption
      <4>2. Covered(n)'
        BY <1>b, <2>2, <3>3, <3>4, <3>5, <4>1 DEF Covered, Uncharged, Owed, TotalOf
      <4>. QED
        BY <3>1, <4>2 DEF Balanced
    <3>6. CASE row[n] # NoRow
      <4>1. PICK g \in Nat : g = Growth(row[n].last, t)
        BY <1>b, <3>6, GrowthNat
      <4>2. /\ row'[n] # NoRow /\ row'[n].last = t
            /\ closed'[n] + row'[n].total = closed[n] + row[n].total + g
        <5>1. /\ row'[n] = Advanced(row[n], m1, t)
              /\ closed'[n] = IF row[n].month = m1 THEN closed[n] ELSE closed[n] + row[n].total
          BY <1>a, <1>9, <2>4, <3>2, <3>6, <3>7 DEF ApplyTraffic
        <5>2. PICK k \in Nat : k = row[n].total
          BY <1>b, <3>6
        <5>3. row'[n] = [month |-> m1, total |-> (IF row[n].month # m1 THEN 0 ELSE k) + g,
                         last |-> t]
          BY <4>1, <5>1, <5>2 DEF Advanced
        <5>4. row'[n] # NoRow
          BY <4>1, <5>2, <5>3, NoRowAssumption
        <5>. QED
          BY <1>b, <4>1, <5>1, <5>2, <5>3, <5>4
      <4>3. Covered(n)'
        BY <1>b, <2>2, <3>3, <3>4, <3>6, <4>1, <4>2 DEF Covered, Uncharged, Owed, TotalOf
      <4>. QED
        BY <3>1, <4>3 DEF Balanced
    <3>. QED
      BY <3>5, <3>6
  <2>. QED
    BY <2>3, <2>4
<1>. QED
  BY <1>1, <1>2, <1>3, <1>4, <1>5, <1>6, <1>7, <1>8, <1>9
  DEF Next, Container, Sampling, Stop, Start, DeleteContainer, Launch

(* A user's container is never charged twice for a byte, in one process    *)
(* whose state calls answer: over all months the totals stay within what   *)
(* the container carried.                                                  *)
THEOREM NeverChargedTwice ==
  ASSUME OneProcess, StatesAnswer
  PROVE  Spec => []NeverDoubleCounted
<1>1. Shape /\ Ledger => NeverDoubleCounted
  <2> SUFFICES ASSUME Shape, Ledger, NEW n \in Names
               PROVE  closed[n] + TotalOf(n) <= carried[n]
    BY DEF NeverDoubleCounted
  <2>1. /\ carried[n] \in Nat /\ closed[n] \in Nat /\ counter[n] \in Nat /\ TotalOf(n) \in Nat
        /\ row[n] # NoRow => row[n].last \in Nat
    BY LedgerType DEF Shape
  <2>2. row[n] # NoRow => Growth(row[n].last, counter[n]) \in Nat
    BY <2>1, GrowthNat
  <2>. QED
    BY <2>1, <2>2 DEF Ledger, Balanced, Covered, Uncharged, Owed
<1>. QED
  BY ShapeInit, LedgerInit, ShapeStep, LedgerStep, <1>1, PTL DEF Spec

-----------------------------------------------------------------------------
(* A sample about to be applied carries a month that no row has passed.    *)
Calendar ==
  /\ \A n \in Names : row[n] # NoRow => row[n].month <= month
  /\ \A s \in Samplers : sample[s].at = "apply" =>
       /\ sample[s].month <= month
       /\ \A n \in sample[s].todo : row[n] # NoRow => row[n].month <= sample[s].month

LEMMA CalendarInit == Init => Calendar
  BY DEF Init, Calendar, Idle

LEMMA CalendarStep == OneProcess /\ Shape /\ Calendar /\ [Next]_vars => Calendar'
<1> SUFFICES ASSUME OneProcess, Shape, Calendar, [Next]_vars PROVE Calendar'
  OBVIOUS
<1>0. /\ sample \in [Samplers -> Sample] /\ row \in [Names -> Row \cup {NoRow}]
      /\ month \in Nat /\ TypeInv
      /\ \A n \in Names : row[n] # NoRow => row[n].month \in Nat
      /\ \A s \in Samplers : sample[s] \in Applying => sample[s].month \in Nat
  BY BoundsAssumption DEF Shape, TypeInv, TypeOK, Row, Months, Applying
<1>1. CASE NewMonth
  <2>1. \A s \in Samplers : sample[s].at = "apply" => sample[s].month <= month + 1
    BY <1>0, SampleCases DEF Calendar
  <2>. QED
    BY <1>0, <1>1, <2>1 DEF NewMonth, Calendar
<1>2. ASSUME NEW n \in Names, Carry(n) \/ CreateUser(n) PROVE Calendar'
  BY <1>2 DEF Carry, CreateUser, Calendar
<1>3. ASSUME NEW n \in Names, NEW st, BecomesAs(n, st) PROVE Calendar'
  BY <1>3 DEF BecomesAs, Calendar
<1>4. ASSUME NEW n \in Names, DeleteUser(n) PROVE Calendar'
  <2>1. \A s \in Samplers : sample'[s].at = "apply" =>
          /\ sample[s].at = "apply" /\ sample'[s].month = sample[s].month
          /\ sample'[s].todo \subseteq sample[s].todo
    BY <1>0, <1>4, SampleCases DEF DeleteUser, Reading, Applying, Idle
  <2>2. \A m \in Names : row'[m] # NoRow => row'[m] = row[m]
    BY <1>0, <1>4 DEF DeleteUser
  <2>3. \A s \in Samplers : sample[s].at = "apply" => sample[s].todo \subseteq Names
    BY <1>0, SampleCases DEF Applying
  <2>. QED
    BY <1>4, <2>1, <2>2, <2>3 DEF DeleteUser, Calendar
<1>5. ASSUME NEW s \in Samplers, SampleTraffic(s) \/ SampleFails(s) \/ SampleDone(s)
      PROVE  Calendar'
  <2>1. \A t \in Samplers : sample'[t].at = "apply" => sample'[t] = sample[t]
    BY <1>0, <1>5 DEF SampleTraffic, SampleFails, SampleDone, Idle
  <2>. QED
    BY <1>5, <2>1 DEF SampleTraffic, SampleFails, SampleDone, Calendar
<1>6. ASSUME NEW s \in Samplers, ListUsers(s) PROVE Calendar'
  <2>1. /\ sample'[s].month = month /\ sample'[s].todo \subseteq Names
        /\ \A t \in Samplers : t # s => sample'[t] = sample[t]
    BY <1>0, <1>6 DEF ListUsers, Shape, TypeInv, TypeOK
  <2>. QED
    BY <1>0, <1>6, <2>1 DEF ListUsers, Calendar
<1>7. ASSUME NEW s \in Samplers, NEW n \in Names,
             ReadState(s, n) \/ ReadFails(s, n)
      PROVE  Calendar'
  <2>1. \A t \in Samplers : sample'[t].at = "apply" => sample'[t] = sample[t]
    <3>1. sample[s] \in Reading
      BY <1>0, <1>7, SampleCases DEF ReadState, ReadFails
    <3>. QED
      BY <1>0, <1>7, <3>1 DEF ReadState, ReadFails, Observe, Reading
  <2>. QED
    BY <1>7, <2>1 DEF ReadState, ReadFails, Observe, Calendar
<1>8. ASSUME NEW s \in Samplers, NEW n \in Names,
             ApplyTraffic(s, n) \/ ApplyFails(s, n)
      PROVE  Calendar'
  <2>1. sample[s] \in Applying /\ sample[s] # Idle
    BY <1>0, <1>8, SampleCases DEF ApplyTraffic, ApplyFails, Idle, Applying
  <2>2. /\ sample'[s].todo = sample[s].todo \ {n} /\ sample'[s].month = sample[s].month
        /\ \A t \in Samplers : t # s => sample'[t] = sample[t] /\ sample[t] = Idle
        /\ month' = month
    BY <1>0, <1>8, <2>1 DEF ApplyTraffic, ApplyFails, Applying, Shape, Sole
  <2>3. /\ \A m \in Names : m # n => row'[m] = row[m]
        /\ row'[n] = row[n] \/ row'[n].month = sample[s].month
    BY <1>0, <1>8, <2>1 DEF ApplyTraffic, ApplyFails, Advanced
  <2>4. sample[s].todo \subseteq Names
    BY <2>1 DEF Applying
  <2>. QED
    BY <1>0, <2>1, <2>2, <2>3, <2>4 DEF Calendar, Idle, Applying
<1>9. CASE UNCHANGED vars
  BY <1>9 DEF vars, Calendar
<1>. QED
  BY <1>1, <1>2, <1>3, <1>4, <1>5, <1>6, <1>7, <1>8, <1>9
  DEF Next, Container, Sampling, Stop, Start, DeleteContainer, Launch

(* Within one process a user's row never returns to an earlier month, so   *)
(* the totals of a month are zeroed once.                                  *)
THEOREM RowsNeverGoBack ==
  ASSUME OneProcess
  PROVE  Spec => MonthNeverGoesBack
<1>1. Shape /\ Calendar /\ [Next]_vars =>
        [\A n \in Names : row[n] # NoRow /\ row'[n] # NoRow => row'[n].month >= row[n].month]_vars
  <2> SUFFICES ASSUME Shape, Calendar, Next, NEW n \in Names, row[n] # NoRow, row'[n] # NoRow
               PROVE  row'[n].month >= row[n].month
    BY DEF vars
  <2>0. row \in [Names -> Row \cup {NoRow}] /\ row[n].month \in Nat /\ sample \in [Samplers -> Sample]
    BY BoundsAssumption DEF Shape, TypeInv, TypeOK, Row, Months
  <2>1. CASE row'[n] = row[n]
    BY <2>0, <2>1
  <2>2. CASE row'[n] # row[n]
    <3>1. PICK s \in Samplers : ApplyTraffic(s, n)
      <4>1. CASE NewMonth \/ \E m \in Names : Container(m) /\ ~DeleteUser(m)
        BY <2>2, <4>1 DEF NewMonth, Container, Carry, Stop, Start, DeleteContainer,
           Launch, BecomesAs, CreateUser
      <4>2. ASSUME NEW m \in Names, DeleteUser(m) PROVE FALSE
        BY <2>0, <2>2, <4>2 DEF DeleteUser
      <4>3. ASSUME NEW s \in Samplers,
                   \/ SampleTraffic(s) \/ SampleFails(s) \/ ListUsers(s) \/ SampleDone(s)
                   \/ \E m \in Names : ReadState(s, m) \/ ReadFails(s, m) \/ ApplyFails(s, m)
            PROVE  FALSE
        BY <2>2, <4>3 DEF SampleTraffic, SampleFails, ListUsers, SampleDone, ReadState,
           ReadFails, Observe, ApplyFails
      <4>4. ASSUME NEW s \in Samplers, NEW m \in Names, ApplyTraffic(s, m) PROVE m = n
        BY <2>0, <2>2, <4>4 DEF ApplyTraffic
      <4>. QED
        BY <4>1, <4>2, <4>3, <4>4 DEF Next, Sampling
    <3>2. row'[n].month = sample[s].month
      BY <2>0, <3>1 DEF ApplyTraffic, Advanced
    <3>3. sample[s].month \in Nat
      BY <2>0, <3>1, SampleCases, BoundsAssumption DEF ApplyTraffic, Applying, Months
    <3>4. row[n].month <= sample[s].month
      BY <3>1 DEF ApplyTraffic, Calendar
    <3>. QED
      BY <2>0, <3>2, <3>3, <3>4
  <2>. QED
    BY <2>1, <2>2
<1>. QED
  BY ShapeInit, CalendarInit, ShapeStep, CalendarStep, <1>1, PTL DEF Spec, MonthNeverGoesBack
=============================================================================
