--------------------------- MODULE Throttle_proofs ---------------------------
(***************************************************************************)
(* Proofs about Throttle, for any users, handlers, quotas and failures:    *)
(* its types, and that the limiter's map tells the truth about the NICs.   *)
(***************************************************************************)
EXTENDS Throttle, TLAPS

Priming == [at : {"prime"}, unread : SUBSET Names, todo : SUBSET Names]
Checking == [at : {"check"}, todo : SUBSET Names]
Calling == [at : {"get", "patch"}, todo : SUBSET Names, name : Names, want : Limits]

(* The step a pass is at tells which fields it has.                        *)
LEMMA PassCases ==
  ASSUME pass \in Pass
  PROVE  /\ pass = Idle \/ pass \in Priming \/ pass \in Checking \/ pass \in Calling
         /\ pass.at = "prime" => pass \in Priming
         /\ pass.at = "check" => pass \in Checking
         /\ pass.at \in {"get", "patch"} => pass \in Calling
BY DEF Pass, Idle, Priming, Checking, Calling

LEMMA PassMembers ==
  /\ Idle \in Pass
  /\ \A p \in Priming \cup Checking \cup Calling : p \in Pass
BY DEF Pass, Priming, Checking, Calling

(* A pass under way has primed the map, and while it primes it, no name it *)
(* has yet to read is marked.                                              *)
PassKnown ==
  /\ pass # Idle => throttled # NotPrimed
  /\ pass.at = "prime" => \A n \in pass.unread : n \notin throttled

ThrottleInv == TypeOK /\ PassKnown /\ MarksTellTruth

LEMMA ThrottleInit == Init => ThrottleInv
<1>. SUFFICES ASSUME Init PROVE ThrottleInv
  OBVIOUS
<1>1. 0 \in Levels
  BY UsedAssumption DEF Levels
<1>2. TypeOK
  BY <1>1, PassMembers DEF Init, TypeOK, Rewrite
<1>3. PassKnown
  BY DEF Init, PassKnown, Idle
<1>4. MarksTellTruth
  BY DEF Init, MarksTellTruth, Primed
<1>. QED
  BY <1>2, <1>3, <1>4 DEF ThrottleInv

-----------------------------------------------------------------------------
(* Types.                                                                  *)

(* Every step of a pass leaves a pass.                                     *)
LEMMA PassStep ==
  ASSUME TypeOK, EnforceTrafficLimits
  PROVE  pass' \in Pass
<1>0. pass \in Pass /\ users \subseteq Names
  BY DEF TypeOK
<1>1. CASE StartPass
  <2>1. [at |-> "prime", unread |-> users, todo |-> users] \in Priming
    BY <1>0 DEF Priming
  <2>2. [at |-> "check", todo |-> users] \in Checking
    BY <1>0 DEF Checking
  <2>. QED
    BY <1>1, <2>1, <2>2, PassMembers DEF StartPass
<1>2. CASE PrimeDone
  <2>1. pass \in Priming
    BY <1>0, <1>2, PassCases DEF PrimeDone
  <2>2. [at |-> "check", todo |-> pass.todo] \in Checking
    BY <2>1 DEF Priming, Checking
  <2>. QED
    BY <1>2, <2>2, PassMembers DEF PrimeDone
<1>3. CASE PassDone
  BY <1>3, PassMembers DEF PassDone
<1>4. ASSUME NEW n \in Names, Prime(n) \/ PrimeFails(n) PROVE pass' \in Pass
  <2>1. pass \in Priming /\ pass' = [pass EXCEPT !.unread = @ \ {n}]
    BY <1>0, <1>4, PassCases DEF Prime, PrimeFails
  <2>2. pass' \in Priming
    BY <2>1 DEF Priming
  <2>. QED
    BY <2>2, PassMembers
<1>5. ASSUME NEW n \in Names, Check(n) \/ UsageFails(n) PROVE pass' \in Pass
  <2>1. pass \in Checking
    BY <1>0, <1>5, PassCases DEF Check, UsageFails
  <2>2. PICK over \in BOOLEAN : Decided(n, over)
    BY <1>5 DEF Check, UsageFails, ShouldThrottle
  <2>3. [pass EXCEPT !.todo = @ \ {n}] \in Checking
    BY <2>1 DEF Checking
  <2>4. \A w \in Limits :
          [at |-> "get", todo |-> pass.todo \ {n}, name |-> n, want |-> w] \in Calling
    BY <2>1 DEF Checking, Calling
  <2>. QED
    BY <2>2, <2>3, <2>4, PassMembers DEF Decided, Limits
<1>6. ASSUME NEW n \in Names, GetDevices(n) PROVE pass' \in Pass
  <2>1. pass \in Calling /\ pass' = [pass EXCEPT !.at = "patch"]
    BY <1>0, <1>6, PassCases DEF GetDevices
  <2>2. pass' \in Calling
    BY <2>1 DEF Calling
  <2>. QED
    BY <2>2, PassMembers
<1>7. ASSUME NEW n \in Names, Patch(n) \/ LimitFails(n) \/ ReplyLost(n) PROVE pass' \in Pass
  <2>1. pass \in Calling /\ pass' = [at |-> "check", todo |-> pass.todo]
    BY <1>0, <1>7, PassCases DEF Patch, LimitFails, ReplyLost, Continue
  <2>2. pass' \in Checking
    BY <2>1 DEF Calling, Checking
  <2>. QED
    BY <2>2, PassMembers
<1>. QED
  BY <1>1, <1>2, <1>3, <1>4, <1>5, <1>6, <1>7 DEF EnforceTrafficLimits

LEMMA TypeStep == TypeOK /\ PassKnown /\ [Next]_vars => TypeOK'
<1> SUFFICES ASSUME TypeOK, PassKnown, [Next]_vars PROVE TypeOK'
  OBVIOUS
<1>0. 0 \in Levels /\ "free" \in Limits /\ "limited" \in Limits
  BY UsedAssumption DEF Levels, Limits
<1> USE DEF TypeOK, Present
<1>1. CASE EnforceTrafficLimits
  <2>1. pass' \in Pass
    BY <1>1, PassStep
  <2>2. CASE StartPass \/ PrimeDone \/ PassDone
    BY <2>1, <2>2 DEF StartPass, PrimeDone, PassDone, accounts
  <2>3. ASSUME NEW n \in Names, Prime(n) \/ PrimeFails(n) PROVE TypeOK'
    <3>1. pass.at = "prime" /\ throttled \subseteq Names
      BY <2>3 DEF Prime, PrimeFails, PassKnown, Idle
    <3>. QED
      BY <2>1, <2>3, <3>1 DEF Prime, PrimeFails, accounts
  <2>4. ASSUME NEW n \in Names, Check(n) \/ UsageFails(n) PROVE TypeOK'
    BY <2>1, <2>4 DEF Check, UsageFails, Decided, accounts
  <2>5. ASSUME NEW n \in Names, GetDevices(n) \/ LimitFails(n) PROVE TypeOK'
    BY <2>1, <2>5 DEF GetDevices, LimitFails, accounts
  <2>6. ASSUME NEW n \in Names, Patch(n) \/ ReplyLost(n) PROVE TypeOK'
    <3>1. pass.want \in Limits
      BY <2>6, PassCases DEF Patch, ReplyLost, Calling
    <3>2. pass.at = "patch" /\ throttled \subseteq Names
      BY <2>6 DEF Patch, ReplyLost, PassKnown, Idle
    <3>. QED
      BY <2>1, <2>6, <3>1, <3>2 DEF Patch, ReplyLost, accounts
  <2>. QED
    BY <1>1, <2>2, <2>3, <2>4, <2>5, <2>6 DEF EnforceTrafficLimits
<1>2. CASE NewMonth
  BY <1>0, <1>2 DEF NewMonth, limiter
<1>3. CASE Restart
  BY <1>3, PassMembers DEF Restart, accounts
<1>4. ASSUME NEW n \in Names, Account(n) PROVE TypeOK'
  <2>1. CASE CreateUser(n) \/ Reinstall(n)
    BY <1>0, <2>1 DEF CreateUser, Reinstall, Launched, accounts, limiter
  <2>2. CASE DeleteContainer(n)
    BY <2>2 DEF DeleteContainer, accounts, limiter
  <2>3. CASE DeleteUser(n)
    BY <1>0, <2>3 DEF DeleteUser
  <2>4. CASE Forget(n)
    BY <2>4 DEF Forget, accounts
  <2>5. CASE Transfer(n)
    <3>1. used[n] + 1 \in Levels
      BY <2>5, UsedAssumption DEF Transfer, Levels
    <3>. QED
      BY <2>5, <3>1 DEF Transfer, limiter
  <2>6. ASSUME NEW q \in Levels, UpdateTrafficQuota(n, q) PROVE TypeOK'
    BY <2>6 DEF UpdateTrafficQuota, limiter
  <2>. QED
    BY <1>4, <2>1, <2>2, <2>3, <2>4, <2>5, <2>6 DEF Account
<1>5. ASSUME NEW h \in Handlers, DeviceMap(h) PROVE TypeOK'
  <2>1. ASSUME NEW n \in Names, ReadDevices(h, n) PROVE TypeOK'
    <3>1. [name |-> n, saw |-> nic[n]] \in Rewrite
      BY <2>1 DEF ReadDevices, Rewrite
    <3>. QED
      BY <2>1, <3>1 DEF ReadDevices, accounts, limiter
  <2>2. NoRewrite \in Rewrite
    BY DEF Rewrite
  <2>3. CASE WriteDevices(h)
    <3>1. rewrite[h].name \in Names /\ rewrite[h].saw \in Limits
      BY <2>3 DEF WriteDevices, Rewrite
    <3>. QED
      BY <2>2, <2>3, <3>1 DEF WriteDevices, accounts, limiter
  <2>4. CASE RewriteFails(h)
    BY <2>2, <2>4 DEF RewriteFails, accounts, limiter
  <2>. QED
    BY <1>5, <2>1, <2>3, <2>4 DEF DeviceMap
<1>6. CASE UNCHANGED vars
  BY <1>6 DEF vars
<1>. QED
  BY <1>1, <1>2, <1>3, <1>4, <1>5, <1>6 DEF Next

-----------------------------------------------------------------------------
(* The marks.                                                              *)

(* The limiter alone moves a pass on; the rest of the system can end it    *)
(* only together with the process.                                         *)
LEMMA KnownStep == TypeOK /\ PassKnown /\ [Next]_vars => PassKnown'
<1> SUFFICES ASSUME TypeOK, PassKnown, [Next]_vars PROVE PassKnown'
  OBVIOUS
<1>0. \A S \in SUBSET Names : S # NotPrimed
  BY PrimedAssumption
<1> USE DEF PassKnown
<1>1. CASE EnforceTrafficLimits
  <2>0. pass \in Pass /\ (throttled = NotPrimed \/ throttled \subseteq Names)
    BY DEF TypeOK
  <2>1. CASE StartPass
    BY <1>0, <2>1 DEF StartPass, Idle
  <2>2. CASE PrimeDone \/ PassDone
    BY <2>2 DEF PrimeDone, PassDone, Idle
  <2>3. ASSUME NEW n \in Names, Prime(n) \/ PrimeFails(n) PROVE PassKnown'
    <3>1. pass \in Priming /\ pass' = [pass EXCEPT !.unread = @ \ {n}]
      BY <2>3, PassCases DEF Prime, PrimeFails, TypeOK
    <3>2. pass'.unread = pass.unread \ {n} /\ pass'.at = "prime" /\ pass.at = "prime"
      BY <3>1 DEF Priming
    <3>3. throttled # NotPrimed /\ throttled \subseteq Names
      BY <3>2 DEF Idle, TypeOK
    <3>4. throttled' \subseteq Names /\ throttled' \subseteq throttled \cup {n}
      BY <2>3, <3>3 DEF Prime, PrimeFails
    <3>. QED
      BY <1>0, <3>2, <3>4
  <2>4. ASSUME NEW n \in Names, Check(n) \/ UsageFails(n) PROVE PassKnown'
    <3>1. pass \in Checking /\ pass.at = "check"
      BY <2>4, PassCases DEF Check, UsageFails, TypeOK
    <3>2. pass'.at # "prime" /\ UNCHANGED throttled
      BY <2>4, <3>1 DEF Check, UsageFails, Decided, Checking
    <3>. QED
      BY <3>1, <3>2 DEF Idle
  <2>5. ASSUME NEW n \in Names, GetDevices(n) PROVE PassKnown'
    <3>1. pass \in Calling /\ pass.at = "get"
      BY <2>5, PassCases DEF GetDevices, TypeOK
    <3>2. pass'.at = "patch" /\ UNCHANGED throttled
      BY <2>5, <3>1 DEF GetDevices, Calling
    <3>. QED
      BY <3>1, <3>2 DEF Idle
  <2>6. ASSUME NEW n \in Names, Patch(n) \/ LimitFails(n) \/ ReplyLost(n) PROVE PassKnown'
    <3>1. pass'.at = "check" /\ throttled # NotPrimed
      BY <2>6 DEF Patch, LimitFails, ReplyLost, Continue, Idle
    <3>2. throttled' \subseteq Names
      BY <2>6, <3>1 DEF Patch, LimitFails, ReplyLost, TypeOK
    <3>. QED
      BY <1>0, <3>1, <3>2
  <2>. QED
    BY <1>1, <2>1, <2>2, <2>3, <2>4, <2>5, <2>6 DEF EnforceTrafficLimits
<1>2. CASE NewMonth
  BY <1>2 DEF NewMonth, limiter
<1>3. CASE Restart
  BY <1>3 DEF Restart, Idle
<1>4. ASSUME NEW n \in Names, Account(n) PROVE PassKnown'
  <2>1. CASE Forget(n)
    BY <2>1 DEF Forget, Idle
  <2>2. CASE ~Forget(n)
    <3>1. UNCHANGED <<throttled, pass>>
      BY <1>4, <2>2 DEF Account, CreateUser, DeleteContainer, Reinstall, DeleteUser, Transfer,
                        UpdateTrafficQuota, limiter
    <3>. QED
      BY <3>1
  <2>. QED
    BY <2>1, <2>2
<1>5. ASSUME NEW h \in Handlers, DeviceMap(h) PROVE PassKnown'
  BY <1>5 DEF DeviceMap, ReadDevices, WriteDevices, RewriteFails, limiter
<1>6. CASE UNCHANGED vars
  BY <1>6 DEF vars
<1>. QED
  BY <1>1, <1>2, <1>3, <1>4, <1>5, <1>6 DEF Next

(* The types of Throttle, and that only users have containers, hold in     *)
(* every reachable state (Del never drops the row of a container that is   *)
(* there).                                                                 *)
THEOREM ThrottleTypes == Spec => []TypeOK
<1>1. Init => TypeOK /\ PassKnown
  BY ThrottleInit DEF ThrottleInv
<1>2. TypeOK /\ PassKnown /\ [Next]_vars => TypeOK' /\ PassKnown'
  BY TypeStep, KnownStep
<1>. QED
  BY <1>1, <1>2, PTL DEF Spec

-----------------------------------------------------------------------------
(* What the limiter does keeps the marks true...                           *)
LEMMA TruthOfPass ==
  ASSUME TypeOK, PassKnown, MarksTellTruth, EnforceTrafficLimits
  PROVE  MarksTellTruth'
<1>0. /\ pass \in Pass /\ users \subseteq Names
      /\ throttled = NotPrimed \/ throttled \subseteq Names
      /\ nic \in [Names -> Limits \cup {"absent"}]
      /\ \A n \in Names : nic[n] # "absent" => n \in users
  BY DEF TypeOK
<1> USE DEF MarksTellTruth, Primed, Present
<1>1. CASE StartPass
  BY <1>0, <1>1 DEF StartPass, Idle
<1>2. CASE PrimeDone \/ PassDone
  BY <1>2 DEF PrimeDone, PassDone, Idle
<1>3. ASSUME NEW n \in Names, Prime(n) PROVE MarksTellTruth'
  <2>1. pass \in Priming /\ pass.at = "prime"
    BY <1>0, <1>3, PassCases DEF Prime
  <2>2. pass'.unread = pass.unread \ {n} /\ pass'.at = "prime"
    BY <1>3, <2>1 DEF Prime, Priming
  <2>3. throttled # NotPrimed /\ n \notin throttled
    BY <1>3, <2>1 DEF PassKnown, Prime, Idle
  <2>. QED
    BY <1>3, <2>1, <2>2, <2>3 DEF Prime
<1>4. ASSUME NEW n \in Names, PrimeFails(n) PROVE MarksTellTruth'
  <2>1. pass \in Priming /\ pass.at = "prime"
    BY <1>0, <1>4, PassCases DEF PrimeFails
  <2>2. pass'.unread = pass.unread \ {n} /\ pass'.at = "prime"
    BY <1>4, <2>1 DEF PrimeFails, Priming
  <2>3. throttled # NotPrimed /\ n \notin throttled
    BY <1>4, <2>1 DEF PassKnown, PrimeFails, Idle
  <2>4. UNCHANGED <<nic, throttled>> /\ loose \subseteq loose'
        /\ (nic[n] = "limited" => n \in loose')
    BY <1>4 DEF PrimeFails
  <2>. QED
    BY <2>1, <2>2, <2>3, <2>4
<1>5. ASSUME NEW n \in Names, Check(n) \/ UsageFails(n) \/ GetDevices(n) \/ LimitFails(n)
      PROVE  MarksTellTruth'
  <2>1. pass.at # "prime" /\ UNCHANGED <<nic, throttled, loose>>
    BY <1>5 DEF Check, UsageFails, GetDevices, LimitFails, Decided
  <2>. QED
    BY <2>1
<1>6. ASSUME NEW n \in Names, Patch(n) PROVE MarksTellTruth'
  <2>1. pass \in Calling /\ pass.at = "patch"
    BY <1>0, <1>6, PassCases DEF Patch
  <2>2. pass.want \in Limits /\ throttled # NotPrimed
    BY <1>6, <2>1 DEF Calling, PassKnown, Idle
  <2>3. ASSUME NEW m \in Names \ loose', nic'[m] # "absent"
        PROVE  m \in throttled' <=> nic'[m] = "limited"
    <3>1. CASE m = n
      BY <1>0, <1>6, <2>2, <3>1 DEF Patch, Limits
    <3>2. CASE m # n
      BY <1>0, <1>6, <2>1, <2>2, <2>3, <3>2 DEF Patch
    <3>. QED
      BY <3>1, <3>2
  <2>. QED
    BY <2>3
<1>7. ASSUME NEW n \in Names, ReplyLost(n) PROVE MarksTellTruth'
  <2>1. pass.at = "patch" /\ UNCHANGED throttled /\ loose' = loose \cup {n}
        /\ nic' = [nic EXCEPT ![n] = pass.want]
    BY <1>7 DEF ReplyLost
  <2>2. \A m \in Names : m # n => nic'[m] = nic[m]
    BY <1>0, <2>1
  <2>. QED
    BY <2>1, <2>2
<1>. QED
  BY <1>1, <1>2, <1>3, <1>4, <1>5, <1>6, <1>7 DEF EnforceTrafficLimits

(* ... and what happens beside it either keeps them true or is recorded.   *)
LEMMA TruthBeside ==
  ASSUME TypeOK, PassKnown, MarksTellTruth,
         NewMonth \/ Restart \/ (\E n \in Names : Account(n)) \/ (\E h \in Handlers : DeviceMap(h))
  PROVE  MarksTellTruth'
<1>0. /\ throttled = NotPrimed \/ throttled \subseteq Names
      /\ nic \in [Names -> Limits \cup {"absent"}]
  BY DEF TypeOK
<1>00. \A S \in SUBSET Names : S # NotPrimed
  BY PrimedAssumption
<1> USE DEF MarksTellTruth, Primed, Present, Marked
<1>1. CASE NewMonth \/ Restart
  BY <1>1 DEF NewMonth, Restart, limiter
<1>2. ASSUME NEW n \in Names, CreateUser(n) \/ Reinstall(n) PROVE MarksTellTruth'
  <2>1. /\ UNCHANGED <<throttled, pass>>
        /\ nic' = [nic EXCEPT ![n] = "free"]
        /\ loose' = IF Marked(n) THEN loose \cup {n} ELSE loose
    BY <1>2 DEF CreateUser, Reinstall, Launched, limiter
  <2>2. nic'[n] = "free" /\ \A m \in Names : m # n => nic'[m] = nic[m]
    BY <1>0, <2>1
  <2>. QED
    BY <2>1, <2>2
<1>3. ASSUME NEW n \in Names, DeleteContainer(n) PROVE MarksTellTruth'
  <2>1. nic'[n] = "absent" /\ \A m \in Names : m # n => nic'[m] = nic[m]
    BY <1>0, <1>3 DEF DeleteContainer
  <2>. QED
    BY <1>3, <2>1 DEF DeleteContainer, limiter
<1>4. ASSUME NEW n \in Names, DeleteUser(n) \/ Transfer(n)
                              \/ (\E q \in Levels : UpdateTrafficQuota(n, q))
      PROVE  MarksTellTruth'
  BY <1>4 DEF DeleteUser, Transfer, UpdateTrafficQuota, limiter
<1>5. ASSUME NEW n \in Names, Forget(n) PROVE MarksTellTruth'
  <2>1. CASE throttled = NotPrimed
    BY <1>5, <2>1 DEF Forget
  <2>2. CASE throttled # NotPrimed
    <3>1. throttled' = throttled \ {n} /\ UNCHANGED <<nic, pass>>
          /\ loose \subseteq loose'
          /\ (n \in throttled /\ nic[n] = "limited" => n \in loose')
      BY <1>5, <2>2 DEF Forget
    <3>. QED
      BY <2>2, <3>1
  <2>. QED
    BY <2>1, <2>2
<1>6. ASSUME NEW h \in Handlers, DeviceMap(h) PROVE MarksTellTruth'
  <2>1. CASE RewriteFails(h) \/ (\E n \in Names : ReadDevices(h, n))
    BY <2>1 DEF RewriteFails, ReadDevices, limiter
  <2>2. CASE WriteDevices(h)
    <3>1. PICK n \in Names, saw \in Limits : rewrite[h] = [name |-> n, saw |-> saw]
      <4>1. rewrite[h] \in [name : Names, saw : Limits]
        BY <2>2 DEF WriteDevices, TypeOK, Rewrite
      <4>. QED
        BY <4>1
    <3>2. /\ UNCHANGED <<throttled, pass>>
          /\ nic[n] # "absent"
          /\ nic' = [nic EXCEPT ![n] = saw]
          /\ loose' = IF saw # nic[n] /\ Primed(n) THEN loose \cup {n} ELSE loose
      BY <2>2, <3>1 DEF WriteDevices, limiter
    <3>3. nic'[n] = saw /\ \A m \in Names : m # n => nic'[m] = nic[m]
      BY <1>0, <3>2
    <3>. QED
      BY <3>2, <3>3
  <2>. QED
    BY <1>6, <2>1, <2>2 DEF DeviceMap
<1>. QED
  BY <1>1, <1>2, <1>3, <1>4, <1>5, <1>6 DEF Account

(* The limiter's map and LXD agree about every container that nothing but  *)
(* the limiter has touched: no failed call, restart, deletion or new       *)
(* account of the name leaves a mark without a limit or a limit without a  *)
(* mark (EnforceTrafficLimits).                                            *)
THEOREM MarksAreTrue == Spec => []MarksTellTruth
<1>1. Init => ThrottleInv
  BY ThrottleInit
<1>2. ThrottleInv /\ [Next]_vars => ThrottleInv'
  <2> SUFFICES ASSUME ThrottleInv, [Next]_vars PROVE ThrottleInv'
    OBVIOUS
  <2>1. TypeOK' /\ PassKnown'
    BY TypeStep, KnownStep DEF ThrottleInv
  <2>2. ASSUME Next PROVE MarksTellTruth'
    BY <2>2, TruthOfPass, TruthBeside DEF Next, ThrottleInv
  <2>3. ASSUME UNCHANGED vars PROVE MarksTellTruth'
    BY <2>3 DEF vars, ThrottleInv, MarksTellTruth, Primed, Present
  <2>4. MarksTellTruth'
    BY <2>2, <2>3
  <2>. QED
    BY <2>1, <2>4 DEF ThrottleInv
<1>3. ThrottleInv => MarksTellTruth
  BY DEF ThrottleInv
<1>. QED
  BY <1>1, <1>2, <1>3, PTL DEF Spec
=============================================================================
