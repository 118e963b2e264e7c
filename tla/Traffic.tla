------------------------------ MODULE Traffic ------------------------------
(***************************************************************************)
(* Monthly transfer accounting: Manager.SampleTraffic                      *)
(* (internal/mgr/traffic.go), the LXD snapshot it reads                    *)
(* (internal/lx/lx.go) and the upsert that advances the totals             *)
(* (internal/db/traffic.go).                                               *)
(*                                                                         *)
(* A sample is long: one list call, one state call per running container,  *)
(* the list of users, then one statement per user. Traffic flows, and      *)
(* containers stop, start and are reinstalled, between any two of them.    *)
(* Samples of one process are serialised by sampleMu; the background       *)
(* loop, the pages that want fresh totals and each `vps` command all take  *)
(* them.                                                                   *)
(*                                                                         *)
(* The received and the sent bytes are two columns with the same formula:  *)
(* the module follows one of them.                                         *)
(***************************************************************************)
EXTENDS Integers, FiniteSets

CONSTANTS
  Processes,  \* processes with a Manager, each with its sampleMu
  Samplers,   \* goroutines that call SampleTraffic
  ProcessOf,  \* the process a sampler belongs to
  Names,      \* users, and the containers of that name
  NoRow,      \* the user has no row in the traffic table yet
  MaxCarried, \* bound: bytes a user's container ever carries
  MaxMonth,   \* bound: the last calendar month
  Faults      \* calls that may fail, out of {"list", "state", "apply"}

ASSUME SamplersAssumption == ProcessOf \in [Samplers -> Processes]
ASSUME BoundsAssumption == MaxCarried \in Nat /\ MaxMonth \in Nat
ASSUME NoRowAssumption == NoRow \notin [month : Nat, total : Nat, last : Nat]
ASSUME FaultsAssumption == Faults \subseteq {"list", "state", "apply"}

VARIABLES
  users,    \* names with a row in the users table
  instance, \* each container: "running", "stopped" or "absent"
  counter,  \* its network counter since its last start
  month,    \* the calendar month
  row,      \* the traffic table
  sample,   \* per sampler: how far its sample is, and what it has read
  sampleMu, \* processes whose sampleMu is held
  carried,  \* history: bytes the user's container really carried
  closed    \* history: the totals of the user's earlier months

vars == <<users, instance, counter, month, row, sample, sampleMu, carried, closed>>
lxd == <<instance, counter>>
history == <<carried, closed>>

Bytes == 0..MaxCarried
Months == 0..MaxMonth
Row == [month : Months, total : Nat, last : Bytes]

(* What TrafficMap returns: the counters of the containers it found up.    *)
TrafficMaps == UNION {[S -> Bytes] : S \in SUBSET Names}

Idle == [at |-> "idle"]
Sample == {Idle}
     \cup [at : {"read"}, todo : SUBSET Names, tm : TrafficMaps]
     \cup [at : {"apply"}, todo : SUBSET Names, tm : TrafficMaps, month : Months]

TypeOK ==
  /\ users \subseteq Names
  /\ instance \in [Names -> {"running", "stopped", "absent"}]
  /\ counter \in [Names -> Bytes]
  /\ month \in Months
  /\ row \in [Names -> Row \cup {NoRow}]
  /\ sample \in [Samplers -> Sample]
  /\ sampleMu \subseteq Processes
  /\ carried \in [Names -> Bytes]
  /\ closed \in [Names -> Nat]

Init ==
  /\ users = {}
  /\ instance = [n \in Names |-> "absent"]
  /\ counter = [n \in Names |-> 0]
  /\ month = 0
  /\ row = [n \in Names |-> NoRow]
  /\ sample = [s \in Samplers |-> Idle]
  /\ sampleMu = {}
  /\ carried = [n \in Names |-> 0]
  /\ closed = [n \in Names |-> 0]

-----------------------------------------------------------------------------
(* The world the samples observe.                                          *)

Carry(n) ==
  /\ instance[n] = "running" /\ carried[n] < MaxCarried
  /\ counter' = [counter EXCEPT ![n] = @ + 1]
  /\ carried' = [carried EXCEPT ![n] = @ + 1]
  /\ UNCHANGED <<users, instance, month, row, sample, sampleMu, closed>>

(* A stopped container has no counters; a start or a new container counts  *)
(* from zero.                                                              *)
BecomesAs(n, state) ==
  /\ instance' = [instance EXCEPT ![n] = state]
  /\ counter' = [counter EXCEPT ![n] = 0]
  /\ UNCHANGED <<users, month, row, sample, sampleMu, carried, closed>>

Stop(n) == instance[n] = "running" /\ BecomesAs(n, "stopped")
Start(n) == instance[n] = "stopped" /\ BecomesAs(n, "running")

(* Reinstall deletes the container and launches another in its place.      *)
DeleteContainer(n) == n \in users /\ instance[n] # "absent" /\ BecomesAs(n, "absent")
Launch(n) == n \in users /\ instance[n] = "absent" /\ BecomesAs(n, "running")

NewMonth ==
  /\ month < MaxMonth
  /\ month' = month + 1
  /\ UNCHANGED <<users, instance, counter, row, sample, sampleMu, carried, closed>>

(* CreateUser is the last word of Add: the container runs already, and the *)
(* histories of the account start there.                                   *)
CreateUser(n) ==
  /\ n \notin users /\ instance[n] = "absent"
  /\ users' = users \cup {n}
  /\ instance' = [instance EXCEPT ![n] = "running"]
  /\ carried' = [carried EXCEPT ![n] = 0]
  /\ closed' = [closed EXCEPT ![n] = 0]
  /\ UNCHANGED <<counter, month, row, sample, sampleMu>>

(* DeleteUser runs once the container is gone and cascades to the traffic  *)
(* row. A sample that has already listed the user still holds the old      *)
(* users.id: its statement fails on the foreign key and adds nothing.      *)
DeleteUser(n) ==
  /\ n \in users /\ instance[n] = "absent"
  /\ users' = users \ {n}
  /\ row' = [row EXCEPT ![n] = NoRow]
  /\ sample' = [s \in Samplers |->
                  IF sample[s].at = "apply" THEN [sample[s] EXCEPT !.todo = @ \ {n}]
                  ELSE sample[s]]
  /\ UNCHANGED <<instance, counter, month, sampleMu, carried, closed>>

-----------------------------------------------------------------------------
(* SampleTraffic.                                                          *)

(* Mutant: a sample does not take sampleMu.                                *)
LockUnlocked(s) == sampleMu' = sampleMu \cup {ProcessOf[s]}

Lock(s) == ProcessOf[s] \notin sampleMu /\ sampleMu' = sampleMu \cup {ProcessOf[s]}
Unlock(s) == sampleMu' = sampleMu \ {ProcessOf[s]}

(* sampleMu is taken, and the snapshot lists the running containers.       *)
SampleTraffic(s) ==
  /\ sample[s] = Idle
  /\ Lock(s)
  /\ sample' = [sample EXCEPT ![s] =
                  [at |-> "read", todo |-> {n \in Names : instance[n] = "running"},
                   tm |-> [n \in {} |-> 0]]]
  /\ UNCHANGED <<users, lxd, month, row, history>>

(* The list call, or the listing of the users, fails: the sample is over.  *)
SampleFails(s) ==
  /\ "list" \in Faults /\ sample[s].at = "read"
  /\ sample' = [sample EXCEPT ![s] = Idle]
  /\ Unlock(s)
  /\ UNCHANGED <<users, lxd, month, row, history>>

With(tm, n, v) == [m \in DOMAIN tm \cup {n} |-> IF m = n THEN v ELSE tm[m]]

Observe(s, n, tm) ==
  /\ sample' = [sample EXCEPT ![s].todo = @ \ {n}, ![s].tm = tm]
  /\ UNCHANGED <<users, lxd, month, row, sampleMu, history>>

(* One state call. A container that stopped since the list drops out.      *)
ReadState(s, n) ==
  /\ sample[s].at = "read" /\ n \in sample[s].todo
  /\ instance[n] # "absent"
  /\ Observe(s, n, IF instance[n] = "running" THEN With(sample[s].tm, n, counter[n])
                   ELSE sample[s].tm)

(* A failed state call keeps the listed status "Running" with no counters: *)
(* TrafficMap reports zero bytes. Deleting the container makes it fail.    *)
ReadFails(s, n) ==
  /\ sample[s].at = "read" /\ n \in sample[s].todo
  /\ instance[n] = "absent" \/ "state" \in Faults
  /\ Observe(s, n, With(sample[s].tm, n, 0))

(* The users are listed and the month is read, after the snapshot.         *)
ListUsers(s) ==
  /\ sample[s].at = "read" /\ sample[s].todo = {}
  /\ sample' = [sample EXCEPT ![s] =
                  [at |-> "apply", todo |-> users \cap DOMAIN sample[s].tm,
                   tm |-> sample[s].tm, month |-> month]]
  /\ UNCHANGED <<users, lxd, month, row, sampleMu, history>>

(* Mutant: a reset of the counter is not recognised.                       *)
GrowthNoReset(last, now) == now - last

(* The three CASE arms of the upsert: a counter that shrank was reset.     *)
Growth(last, now) == IF now >= last THEN now - last ELSE now

(* Mutant: the totals of the old month are not zeroed.                     *)
AdvancedNoRollover(r, m, now) ==
  [month |-> m, total |-> r.total + Growth(r.last, now), last |-> now]

(* Mutant: a counter that shrank does not become the new baseline.         *)
AdvancedKeepMax(r, m, now) ==
  [month |-> m, total |-> (IF r.month # m THEN 0 ELSE r.total) + Growth(r.last, now),
   last |-> IF now > r.last THEN now ELSE r.last]

Advanced(r, m, now) ==
  [month |-> m, total |-> (IF r.month # m THEN 0 ELSE r.total) + Growth(r.last, now),
   last |-> now]

(* ApplyTraffic: one atomic INSERT ... ON CONFLICT DO UPDATE. The first    *)
(* sample of a user only sets the baseline. The history closes the old     *)
(* month when the row leaves it.                                           *)
ApplyTraffic(s, n) ==
  /\ sample[s].at = "apply" /\ n \in sample[s].todo
  /\ LET now == sample[s].tm[n]
         m == sample[s].month
     IN IF row[n] = NoRow
        THEN /\ row' = [row EXCEPT ![n] = [month |-> m, total |-> 0, last |-> now]]
             /\ UNCHANGED closed
        ELSE /\ row' = [row EXCEPT ![n] = Advanced(row[n], m, now)]
             /\ closed' = [closed EXCEPT ![n] =
                             IF row[n].month = m THEN @ ELSE @ + row[n].total]
  /\ sample' = [sample EXCEPT ![s].todo = @ \ {n}]
  /\ UNCHANGED <<users, lxd, month, sampleMu, carried>>

(* The statement fails; the loop goes on with the next user.               *)
ApplyFails(s, n) ==
  /\ "apply" \in Faults
  /\ sample[s].at = "apply" /\ n \in sample[s].todo
  /\ sample' = [sample EXCEPT ![s].todo = @ \ {n}]
  /\ UNCHANGED <<users, lxd, month, row, sampleMu, history>>

SampleDone(s) ==
  /\ sample[s].at = "apply" /\ sample[s].todo = {}
  /\ sample' = [sample EXCEPT ![s] = Idle]
  /\ Unlock(s)
  /\ UNCHANGED <<users, lxd, month, row, history>>

-----------------------------------------------------------------------------
Sampling(s) ==
  \/ SampleTraffic(s) \/ SampleFails(s) \/ ListUsers(s) \/ SampleDone(s)
  \/ \E n \in Names : ReadState(s, n) \/ ReadFails(s, n)
                      \/ ApplyTraffic(s, n) \/ ApplyFails(s, n)

Container(n) ==
  \/ Carry(n) \/ Stop(n) \/ Start(n) \/ DeleteContainer(n) \/ Launch(n)
  \/ CreateUser(n) \/ DeleteUser(n)

Next ==
  \/ NewMonth
  \/ \E n \in Names : Container(n)
  \/ \E s \in Samplers : Sampling(s)

Spec == Init /\ [][Next]_vars

(* The background loop takes a sample every minute and each one goes on;   *)
(* calls that are tried again and again do not fail for ever.              *)
Fairness ==
  \A s \in Samplers :
    /\ WF_vars(Sampling(s))
    /\ SF_vars(ListUsers(s))
    /\ \A n \in Names : SF_vars(ReadState(s, n)) /\ SF_vars(ApplyTraffic(s, n))

FairSpec == Spec /\ Fairness

-----------------------------------------------------------------------------
TotalOf(n) == IF row[n] = NoRow THEN 0 ELSE row[n].total

(* No user is charged for more than their container carried: over all the  *)
(* months, a byte enters the totals at most once, whatever restarts,       *)
(* reinstalls, rollovers and other samples come between (traffic.go:20     *)
(* "concurrent samplers ... can never double-count").                      *)
NeverDoubleCounted == \A n \in Names : closed[n] + TotalOf(n) <= carried[n]

(* The month of a user's row never goes back: a sample that read the old   *)
(* month before a rollover is never applied after one that read the new    *)
(* month, which would zero the totals of the new month a second time.      *)
MonthNeverGoesBack ==
  [][\A n \in Names : row[n] # NoRow /\ row'[n] # NoRow => row'[n].month >= row[n].month]_vars

(* What a container carries is accounted for: once it stays up and falls   *)
(* silent, the baseline reaches its counter, so the samples do not skip a  *)
(* user, whatever single calls failed (sampleTraffic, traffic.go:44-54).   *)
CatchesUp ==
  \A n \in Names :
    <>[](n \in users /\ instance[n] = "running")
      => <>[](row[n] # NoRow /\ row[n].last = counter[n])
=============================================================================
