------------------------------ MODULE Throttle ------------------------------
(***************************************************************************)
(* Bandwidth quotas: Manager.EnforceTrafficLimits                          *)
(* (internal/mgr/traffic.go), which limits the NIC of a container whose    *)
(* user has used up the month's quota, and lifts the limit when the user   *)
(* is back under it.                                                       *)
(*                                                                         *)
(* The limiter remembers in a map which containers it has limited and asks *)
(* LXD for nothing while map and quota agree. The limit itself lives in    *)
(* LXD, where Reinstall, Del and every read-modify-write of the device map *)
(* (SetDisk, EnsureEth0Options) change it without telling the limiter.     *)
(* The monthly totals come from Traffic; here they are a level per user.   *)
(***************************************************************************)
EXTENDS Naturals

CONSTANTS
  Names,     \* users, and the containers of that name
  Handlers,  \* requests of the panel and commands that rewrite a device map
  MaxUsed,   \* bound: the highest level the month's transfer reaches
  NotPrimed, \* m.throttled = nil: no pass since the process started
  Kinds,     \* what happens beside the limiter, out of Happenings
  Faults     \* calls that may fail, out of {"prime", "usage", "lxd", "reply"}

Happenings == {"quota", "account", "reinstall", "devices", "restart"}

ASSUME UsedAssumption == MaxUsed \in Nat
ASSUME PrimedAssumption == \A S \in SUBSET Names : S # NotPrimed
ASSUME KindsAssumption == Kinds \subseteq Happenings
ASSUME FaultsAssumption == Faults \subseteq {"prime", "usage", "lxd", "reply"}

VARIABLES
  users,     \* names with a row in the users table
  quota,     \* traffic_quota_gb; 0 is unlimited
  used,      \* this month's transfer, in the unit of the quota
  nic,       \* eth0 of each container: "free", "limited" or "absent"
  throttled, \* Manager.throttled: the containers the limiter has marked
  pass,      \* the pass of the limiter; it holds limitMu until it is idle
  listed,    \* the quotas that pass has listed
  leaving,   \* users the panel has deleted and whose mark it has yet to drop
  rewrite,   \* per handler: the container and the limit in the map it has read
  loose      \* history: names whose mark something has come apart from the NIC

vars == <<users, quota, used, nic, throttled, pass, listed, leaving, rewrite, loose>>
accounts == <<users, quota, used>>
limiter == <<throttled, pass, listed>>

Levels == 0..MaxUsed
Limits == {"free", "limited"}

Idle == [at |-> "idle"]
Pass == {Idle}
     \cup [at : {"prime"}, unread : SUBSET Names, todo : SUBSET Names]
     \cup [at : {"check"}, todo : SUBSET Names]
     \cup [at : {"get", "patch"}, todo : SUBSET Names, name : Names, want : Limits]

NoRewrite == [saw |-> "nothing"]
Rewrite == {NoRewrite} \cup [name : Names, saw : Limits]

(* The types; and only a user has a container.                             *)
TypeOK ==
  /\ users \subseteq Names
  /\ quota \in [Names -> Levels]
  /\ used \in [Names -> Levels]
  /\ nic \in [Names -> Limits \cup {"absent"}]
  /\ \A n \in Names : nic[n] # "absent" => n \in users
  /\ throttled = NotPrimed \/ throttled \subseteq Names
  /\ pass \in Pass
  /\ listed \in [Names -> Levels]
  /\ leaving \subseteq Names
  /\ rewrite \in [Handlers -> Rewrite]
  /\ loose \subseteq Names

Init ==
  /\ users = {}
  /\ quota = [n \in Names |-> 0]
  /\ used = [n \in Names |-> 0]
  /\ nic = [n \in Names |-> "absent"]
  /\ throttled = NotPrimed
  /\ pass = Idle
  /\ listed = [n \in Names |-> 0]
  /\ leaving = {}
  /\ rewrite = [h \in Handlers |-> NoRewrite]
  /\ loose = {}

Present(n) == nic[n] # "absent"

ShouldThrottle(u, q) == q > 0 /\ u >= q

Marked(n) == throttled # NotPrimed /\ n \in throttled

(* The limiter has looked at the container since the process started.      *)
Primed(n) == throttled # NotPrimed /\ ~(pass.at = "prime" /\ n \in pass.unread)

-----------------------------------------------------------------------------
(* A pass of EnforceTrafficLimits.                                         *)

(* Mutant: a restarted process begins with no mark.                        *)
StartPassUnprimed ==
  /\ pass = Idle
  /\ listed' = quota
  /\ throttled' = IF throttled = NotPrimed THEN {} ELSE throttled
  /\ pass' = [at |-> "check", todo |-> users]
  /\ UNCHANGED <<accounts, nic, leaving, rewrite, loose>>

(* limitMu is taken and the users are listed with their quotas. (A failed  *)
(* list ends the pass without effect.) The first pass of a process reads   *)
(* which containers have a limit.                                          *)
StartPass ==
  /\ pass = Idle
  /\ listed' = quota
  /\ \/ /\ throttled = NotPrimed
        /\ throttled' = {}
        /\ pass' = [at |-> "prime", unread |-> users, todo |-> users]
     \/ /\ throttled # NotPrimed
        /\ pass' = [at |-> "check", todo |-> users]
        /\ UNCHANGED throttled
  /\ UNCHANGED <<accounts, nic, leaving, rewrite, loose>>

Prime(n) ==
  /\ pass.at = "prime" /\ n \in pass.unread
  /\ Present(n)
  /\ throttled' = IF nic[n] = "limited" THEN throttled \cup {n} ELSE throttled
  /\ pass' = [pass EXCEPT !.unread = @ \ {n}]
  /\ UNCHANGED <<accounts, nic, listed, leaving, rewrite, loose>>

(* A NIC that cannot be read counts as free.                               *)
PrimeFails(n) ==
  /\ pass.at = "prime" /\ n \in pass.unread
  /\ ~Present(n) \/ "prime" \in Faults
  /\ pass' = [pass EXCEPT !.unread = @ \ {n}]
  /\ loose' = IF nic[n] = "limited" THEN loose \cup {n} ELSE loose
  /\ UNCHANGED <<accounts, nic, throttled, listed, leaving, rewrite>>

PrimeDone ==
  /\ pass.at = "prime" /\ pass.unread = {}
  /\ pass' = [at |-> "check", todo |-> pass.todo]
  /\ UNCHANGED <<accounts, nic, throttled, listed, leaving, rewrite, loose>>

(* LXD is asked only when the decision and the mark differ.                *)
Decided(n, over) ==
  /\ pass' = IF over = (n \in throttled)
             THEN [pass EXCEPT !.todo = @ \ {n}]
             ELSE [at |-> "get", todo |-> pass.todo \ {n}, name |-> n,
                   want |-> IF over THEN "limited" ELSE "free"]
  /\ UNCHANGED <<accounts, nic, throttled, listed, leaving, rewrite, loose>>

Check(n) ==
  /\ pass.at = "check" /\ n \in pass.todo
  /\ Decided(n, ShouldThrottle(used[n], listed[n]))

(* TrafficFor drops the error of its query: the month counts as unused.    *)
UsageFails(n) ==
  /\ "usage" \in Faults
  /\ pass.at = "check" /\ n \in pass.todo
  /\ Decided(n, FALSE)

(* EnsureNicRateLimit reads all the devices of the instance...             *)
GetDevices(n) ==
  /\ pass.at = "get" /\ pass.name = n
  /\ Present(n)
  /\ pass' = [pass EXCEPT !.at = "patch"]
  /\ UNCHANGED <<accounts, nic, throttled, listed, leaving, rewrite, loose>>

Continue == pass' = [at |-> "check", todo |-> pass.todo]

(* Mutant: the mark stays when the limit is lifted.                        *)
PatchKeepsMark(n) ==
  /\ pass.at = "patch" /\ pass.name = n
  /\ Present(n)
  /\ nic' = [nic EXCEPT ![n] = pass.want]
  /\ throttled' = throttled \cup {n}
  /\ loose' = loose \ {n}
  /\ Continue
  /\ UNCHANGED <<accounts, listed, leaving, rewrite>>

(* ... and writes them back with the limit set or removed.                 *)
Patch(n) ==
  /\ pass.at = "patch" /\ pass.name = n
  /\ Present(n)
  /\ nic' = [nic EXCEPT ![n] = pass.want]
  /\ throttled' = IF pass.want = "limited" THEN throttled \cup {n} ELSE throttled \ {n}
  /\ loose' = loose \ {n}
  /\ Continue
  /\ UNCHANGED <<accounts, listed, leaving, rewrite>>

(* Mutant: the mark is set although the call has failed.                   *)
LimitFailsMarked(n) ==
  /\ pass.at \in {"get", "patch"} /\ pass.name = n
  /\ ~Present(n) \/ "lxd" \in Faults
  /\ Continue
  /\ throttled' = IF pass.want = "limited" THEN throttled \cup {n} ELSE throttled \ {n}
  /\ UNCHANGED <<accounts, nic, listed, leaving, rewrite, loose>>

(* A call that fails leaves the mark as it was, for the next pass.         *)
LimitFails(n) ==
  /\ pass.at \in {"get", "patch"} /\ pass.name = n
  /\ ~Present(n) \/ "lxd" \in Faults
  /\ Continue
  /\ UNCHANGED <<accounts, nic, throttled, listed, leaving, rewrite, loose>>

(* LXD applies the patch, but its answer is lost.                          *)
ReplyLost(n) ==
  /\ "reply" \in Faults
  /\ pass.at = "patch" /\ pass.name = n
  /\ Present(n)
  /\ nic' = [nic EXCEPT ![n] = pass.want]
  /\ loose' = loose \cup {n}
  /\ Continue
  /\ UNCHANGED <<accounts, throttled, listed, leaving, rewrite>>

PassDone ==
  /\ pass.at = "check" /\ pass.todo = {}
  /\ pass' = Idle
  /\ UNCHANGED <<accounts, nic, throttled, listed, leaving, rewrite, loose>>

-----------------------------------------------------------------------------
(* What happens beside the limiter.                                        *)

Transfer(n) ==
  /\ n \in users /\ Present(n)
  /\ used[n] < MaxUsed
  /\ used' = [used EXCEPT ![n] = @ + 1]
  /\ UNCHANGED <<users, quota, nic, limiter, leaving, rewrite, loose>>

(* The first sample of a month zeroes the totals.                          *)
NewMonth ==
  /\ used' = [n \in Names |-> 0]
  /\ UNCHANGED <<users, quota, nic, limiter, leaving, rewrite, loose>>

UpdateTrafficQuota(n, q) ==
  /\ "quota" \in Kinds
  /\ n \in users
  /\ quota' = [quota EXCEPT ![n] = q]
  /\ UNCHANGED <<users, used, nic, limiter, leaving, rewrite, loose>>

(* A container is launched without a limit, marked or not.                 *)
Launched(n) ==
  /\ nic' = [nic EXCEPT ![n] = "free"]
  /\ loose' = IF Marked(n) THEN loose \cup {n} ELSE loose

(* Add; its quota follows as an update of its own.                         *)
CreateUser(n) ==
  /\ n \notin users
  /\ users' = users \cup {n}
  /\ quota' = [quota EXCEPT ![n] = 0]
  /\ used' = [used EXCEPT ![n] = 0]
  /\ Launched(n)
  /\ UNCHANGED <<limiter, leaving, rewrite>>

(* Reinstall and Del delete the container; Reinstall launches another.     *)
DeleteContainer(n) ==
  /\ Kinds \cap {"account", "reinstall"} # {}
  /\ Present(n)
  /\ nic' = [nic EXCEPT ![n] = "absent"]
  /\ UNCHANGED <<accounts, limiter, leaving, rewrite, loose>>

Reinstall(n) ==
  /\ "reinstall" \in Kinds
  /\ n \in users /\ ~Present(n)
  /\ Launched(n)
  /\ UNCHANGED <<accounts, limiter, leaving, rewrite>>

(* Del drops the row and its totals. A pass that has listed the user finds *)
(* no totals of the old id: to it the user has no quota to exceed. The     *)
(* panel's Del then waits for limitMu, with opMu held; the map of a `vps`  *)
(* command is not the limiter's.                                           *)
DeleteUser(n) ==
  /\ "account" \in Kinds
  /\ n \in users /\ ~Present(n)
  /\ users' = users \ {n}
  /\ listed' = [listed EXCEPT ![n] = 0]
  /\ UNCHANGED leaving \/ (leaving = {} /\ leaving' = {n})
  /\ UNCHANGED <<quota, used, nic, throttled, pass, rewrite, loose>>

(* Del's last step. A `vps add` may have taken the name meanwhile.         *)
Forget(n) ==
  /\ n \in leaving /\ pass = Idle
  /\ leaving' = leaving \ {n}
  /\ throttled' = IF throttled = NotPrimed THEN throttled ELSE throttled \ {n}
  /\ loose' = IF Marked(n) /\ nic[n] = "limited" THEN loose \cup {n} ELSE loose
  /\ UNCHANGED <<accounts, nic, pass, listed, rewrite>>

(* SetDisk and EnsureEth0Options read all the devices...                   *)
ReadDevices(h, n) ==
  /\ "devices" \in Kinds
  /\ rewrite[h] = NoRewrite
  /\ Present(n)
  /\ rewrite' = [rewrite EXCEPT ![h] = [name |-> n, saw |-> nic[n]]]
  /\ UNCHANGED <<accounts, nic, limiter, leaving, loose>>

(* ... and write them back, the limit they saw included.                   *)
WriteDevices(h) ==
  /\ rewrite[h] # NoRewrite
  /\ LET n == rewrite[h].name
     IN /\ Present(n)
        /\ nic' = [nic EXCEPT ![n] = rewrite[h].saw]
        /\ loose' = IF rewrite[h].saw # nic[n] /\ Primed(n) THEN loose \cup {n} ELSE loose
  /\ rewrite' = [rewrite EXCEPT ![h] = NoRewrite]
  /\ UNCHANGED <<accounts, limiter, leaving>>

(* The call fails or the process dies.                                     *)
RewriteFails(h) ==
  /\ rewrite[h] # NoRewrite
  /\ rewrite' = [rewrite EXCEPT ![h] = NoRewrite]
  /\ UNCHANGED <<accounts, nic, limiter, leaving, loose>>

(* The panel's process ends, wherever it is, and starts again.             *)
Restart ==
  /\ "restart" \in Kinds
  /\ throttled' = NotPrimed
  /\ pass' = Idle
  /\ leaving' = {}
  /\ loose' = {}
  /\ UNCHANGED <<accounts, nic, listed, rewrite>>

-----------------------------------------------------------------------------
EnforceTrafficLimits ==
  \/ StartPass \/ PrimeDone \/ PassDone
  \/ \E n \in Names :
       \/ Prime(n) \/ PrimeFails(n) \/ Check(n) \/ UsageFails(n)
       \/ GetDevices(n) \/ Patch(n) \/ LimitFails(n) \/ ReplyLost(n)

Account(n) ==
  \/ CreateUser(n) \/ DeleteContainer(n) \/ Reinstall(n) \/ DeleteUser(n) \/ Forget(n)
  \/ Transfer(n)
  \/ \E q \in Levels : UpdateTrafficQuota(n, q)

DeviceMap(h) ==
  \/ \E n \in Names : ReadDevices(h, n)
  \/ WriteDevices(h)
  \/ RewriteFails(h)

Next ==
  \/ EnforceTrafficLimits
  \/ NewMonth
  \/ Restart
  \/ \E n \in Names : Account(n)
  \/ \E h \in Handlers : DeviceMap(h)

Spec == Init /\ [][Next]_vars

(* One goroutine runs a pass a minute and each pass goes on to its end; a  *)
(* call that is made in pass after pass does not fail in all of them.      *)
Fairness ==
  /\ WF_vars(EnforceTrafficLimits)
  /\ \A n \in Names :
       SF_vars(Check(n)) /\ SF_vars(GetDevices(n)) /\ SF_vars(Patch(n))

FairSpec == Spec /\ Fairness

-----------------------------------------------------------------------------
(* The map tells the truth: whenever the limiter is primed, a container is *)
(* marked exactly when its NIC is limited, through failed calls, restarts, *)
(* deletions by other processes and new accounts of an old name -- unless  *)
(* a launch or another writer of the device map changed the NIC of a       *)
(* marked container, or an answer of LXD was lost, and no call of the      *)
(* limiter has set it right since. (traffic.go:106 "the throttled map      *)
(* makes the call idempotent between passes".)                             *)
MarksTellTruth ==
  \A n \in Names \ loose :
    Primed(n) /\ Present(n) => (n \in throttled <=> nic[n] = "limited")

(* The container is up, the limiter primed and undisturbed, and the user's *)
(* month stands at u with the quota q.                                     *)
Steady(n, u, q) ==
  /\ Present(n) /\ throttled # NotPrimed /\ n \notin loose
  /\ used[n] = u /\ quota[n] = q

(* A user whose month has reached the quota is limited, whatever calls     *)
(* failed (architecture.md:95-97). A failed query of the totals may lift   *)
(* the limit for one pass: the next one sets it again.                     *)
OverIsLimited ==
  \A n \in Names : \A u, q \in Levels :
    ShouldThrottle(u, q) => (<>[]Steady(n, u, q) => []<>(nic[n] = "limited"))

(* A user who is under the quota, or has none, is released for good, also  *)
(* by a process that did not set the limit itself (traffic.go:114-118).    *)
UnderIsReleased ==
  \A n \in Names : \A u, q \in Levels :
    ~ShouldThrottle(u, q) => (<>[]Steady(n, u, q) => <>[](nic[n] = "free"))
=============================================================================
