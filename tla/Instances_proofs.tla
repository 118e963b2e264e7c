-------------------------- MODULE Instances_proofs --------------------------
(***************************************************************************)
(* Proofs about Instances for every set of handlers and containers, every  *)
(* text that operators type and every width of the program's integers.     *)
(*                                                                         *)
(* Requests are not kept apart, so each invariant says two things of a     *)
(* container: what holds while nothing has come apart, and what a request  *)
(* that met no other may rely on even where something has, for such a      *)
(* request is what brings the two back together.                           *)
(***************************************************************************)
EXTENDS Instances, FiniteSetTheorems, TLAPS

(* What a handler is doing, as facts about its request alone.              *)
Copies(r, c) ==
  /\ r # None
  /\ r.at \in {"patch", "unpatch"} \/ (r.req = "harden" /\ r.at = "stop")
  /\ r.on = c
Quotas(r, c) == r # None /\ r.req = "quota" /\ r.on = c
Switching(r, c) == r # None /\ r.req \in {"power", "harden", "repair"} /\ c \in Reach(r)
Repairs(r) == r # None /\ r.req = "repair"

(* What a request has read by the step it has come to.                     *)
ShapeOf(r) ==
  /\ r.req = "quota" =>
       /\ r.at # "start" => r.before \in Nat
       /\ r.at \in {"start", "traffic", "read"} => r.done = 0
       /\ r.at \in {"set", "patch", "undo", "unpatch"} => r.old \in Quota
       /\ r.at \in {"patch", "unpatch"} => r.map \in Map /\ r.want[Disk] > 0
       /\ r.at = "patch" => /\ r.done < Disk
                            /\ \A i \in Resources : i > r.done /\ i < Disk => ~(r.want[i] > 0)
       /\ r.at = "unpatch" => r.done = Disk
       /\ r.at \in {"set", "patch"} /\ r.want[Disk] > 0 => r.want[Disk] >= r.old[Disk]
  /\ r.req = "harden" /\ r.at \in {"stop", "start"} => r.wasRunning
  /\ r.req = "repair" => /\ r.todo # {} /\ r.todo \subseteq r.affected
                         /\ r.at \in {"leases", "off", "on"} => r.todo = r.affected
Shape == \A h \in Handlers : request[h] # None => ShapeOf(request[h])

(* Copies of a device map, and the limiter's memory.                       *)
LimitInvOf(noted, dev, known, requests, c) ==
  "limit" \notin noted =>
    /\ dev.limit <=> known
    /\ \A g \in Handlers : Copies(requests[g], c) => requests[g].map.limit = dev.limit
LimitInv ==
  \A c \in Containers : LimitInvOf(drift[c], device[c], c \in throttled, request, c)

-----------------------------------------------------------------------------
(* Quotas. What LXD enforces, given the two configurations and a row.      *)
Enforces(cf, disk, q) == cf = [cpu |-> CpuLimit(q[Cpu]), mem |-> q[Mem]] /\ disk = q[Disk]

(* A request half-way: the new values so far, the old ones after.          *)
HalfWay(r) == [k \in Resources |-> IF k <= r.done /\ r.want[k] > 0 THEN r.want[k] ELSE r.old[k]]

(* With nothing come apart: how far the only request on a container is.    *)
Follows(r, q, cf, disk) ==
  /\ r.at \in {"start", "traffic", "read", "restore"} => Enforces(cf, disk, q)
  /\ r.at \in {"set", "patch", "undo", "unpatch"} => r.old = q /\ Enforces(cf, disk, HalfWay(r))

(* With whatever has come apart before: what a request that met no other   *)
(* has read or set is still so.                                            *)
Undisturbed(r, w, cf, disk) ==
  /\ r.at = "traffic" => w.traffic = r.before
  /\ r.at \notin {"start", "traffic"} => w.traffic = r.traffic
  /\ r.at \in {"set", "patch", "undo", "unpatch"} => w.quota = r.old
  /\ r.at \in {"set", "patch"} =>
       /\ Cpu <= r.done /\ r.want[Cpu] > 0 => cf.cpu = CpuLimit(r.want[Cpu])
       /\ Mem <= r.done /\ r.want[Mem] > 0 => cf.mem = r.want[Mem]
       /\ Disk <= r.done /\ r.want[Disk] > 0 => disk = r.want[Disk]

(* It has set the disk, and no copy of the map says otherwise.             *)
SetDisk(r) == r.at = "set" /\ r.done = Disk /\ r.want[Disk] > 0

QuotaInvOf(noted, w, cf, disk, requests, c) ==
  /\ \A g, h \in Handlers :
       g # h /\ Quotas(requests[g], c) /\ Quotas(requests[h], c) =>
         "quota" \in noted /\ requests[g].met
  /\ \A h \in Handlers :
       Quotas(requests[h], c) /\ ~requests[h].met =>
         /\ Undisturbed(requests[h], w, cf, disk)
         /\ SetDisk(requests[h]) => \A g \in Handlers :
              Copies(requests[g], c) => requests[g].map.disk = requests[h].want[Disk]
  /\ "quota" \notin noted =>
       /\ \A g \in Handlers : Copies(requests[g], c) => requests[g].map.disk = disk
       /\ \A h \in Handlers : Quotas(requests[h], c) => Follows(requests[h], w.quota, cf, disk)
       /\ (\A h \in Handlers : ~Quotas(requests[h], c)) => Enforces(cf, disk, w.quota)
QuotaInv ==
  \A c \in Containers : QuotaInvOf(drift[c], row[c], config[c], device[c].disk, request, c)

-----------------------------------------------------------------------------
(* Power and repairs.                                                      *)
Stage(r, c, p) ==
  /\ p.autostart = IF r.req = "power" /\ r.at = "state" THEN r.action # "stop" ELSE p.asked
  /\ r.req = "power" => p.running = p.asked
  /\ r.req = "harden" => IF r.wasRunning THEN p.asked /\ p.running = (r.at = "stop")
                         ELSE p.running = p.asked
  /\ r.req = "repair" => /\ p.asked
                         /\ p.running = \/ r.at = "regenerate"
                                        \/ r.at = "stop" /\ c \in r.todo
                                        \/ r.at = "start" /\ c \notin r.todo

PowerInvOf(noted, p, requests, c) ==
  /\ \A g, h \in Handlers :
       g # h /\ Switching(requests[g], c) /\ Switching(requests[h], c) =>
         "power" \in noted /\ requests[g].met
  /\ \A h \in Handlers :
       Switching(requests[h], c) /\ ~requests[h].met /\ requests[h].req = "power"
         /\ requests[h].at = "state" => p.autostart = (requests[h].action # "stop")
  /\ "power" \notin noted =>
       /\ \A h \in Handlers : Switching(requests[h], c) => Stage(requests[h], c, p)
       /\ (\A h \in Handlers : ~Switching(requests[h], c)) =>
            p.running = p.asked /\ p.autostart = p.asked
PowerInv == \A c \in Containers : PowerInvOf(drift[c], power[c], request, c)

Repaired(r, m, b) ==
  /\ \A c \in r.affected : r.at # "regenerate" \/ c \notin r.todo => m[c] = "own"
  /\ ~r.met => /\ r.at \in {"off", "on", "start"} => ~b.stale
               /\ r.at = "start" => b.dhcp
RepairInv ==
  /\ \A g, h \in Handlers :
       g # h /\ Repairs(request[g]) /\ Repairs(request[h]) => request[g].met
  /\ \A h \in Handlers : Repairs(request[h]) => Repaired(request[h], machine, bridge)

-----------------------------------------------------------------------------
(* Values and requests.                                                    *)

(* What the parsers make of a text is an integer of the program, and of a  *)
(* traffic quota one that is not negative.                                 *)
LEMMA ParsedTypes ==
  ASSUME NEW t \in Text
  PROVE  /\ ParseCPU(t) \in Int \cup {Refused}
         /\ ParseMem(t) \in Int \cup {Refused} /\ ParseMemStrict(t) \in Int \cup {Refused}
         /\ ParseDisk(t) \in Int \cup {Refused} /\ ParseDiskStrict(t) \in Int \cup {Refused}
         /\ ParseTrafficGB(t) \in Nat \cup {Refused}
<1>1. \A i \in Int : Wrap(i) \in Int
  BY MaxIntAssumption DEF Wrap
<1>2. \A n \in Nat : Atoi(n) \in Int
  BY MaxIntAssumption DEF Atoi
<1>3. t.n \in Nat
  BY DEF Text
<1>4. ParseCPU(t) \in Int \cup {Refused}
  BY <1>1, <1>2, <1>3 DEF ParseCPU
<1>5. ParseMemStrict(t) \in Int \cup {Refused}
  BY <1>1, <1>2, <1>3 DEF ParseMemStrict, MemOf
<1>6. ParseMem(t) \in Int \cup {Refused}
  BY <1>5 DEF ParseMem
<1>7. ParseDiskStrict(t) \in Int \cup {Refused}
  BY <1>2, <1>3 DEF ParseDiskStrict
<1>8. ParseDisk(t) \in Nat \cup {Refused} /\ ParseTrafficGB(t) \in Nat \cup {Refused}
  BY <1>3 DEF ParseDisk, ParseTrafficGB
<1>. QED
  BY <1>4, <1>5, <1>6, <1>7, <1>8

LEMMA CpuLimitType ==
  ASSUME NEW tenths \in Int
  PROVE  CpuLimit(tenths) \in [cores : Int, slice : Int]
<1>1. tenths \div 10 \in Int /\ tenths * 10 \in Int
  OBVIOUS
<1>. QED
  BY <1>1 DEF CpuLimit

(* The kind of a request decides its fields.                               *)
LEMMA RequestKind ==
  ASSUME NEW r \in Requests
  PROVE  /\ r # None
         /\ r.req = "quota" => r \in QuotaRequest
         /\ r.req = "limit" => r \in LimitRequest
         /\ r.req = "harden" => r \in HardenRequest
         /\ r.req = "power" => r \in PowerRequest
         /\ r.req = "repair" => r \in RepairRequest
         /\ r.req \in {"quota", "limit", "harden", "power", "repair"}
BY RequestAssumption
   DEF Requests, QuotaRequest, LimitRequest, HardenRequest, PowerRequest, RepairRequest

LEMMA Reached ==
  ASSUME NEW r \in Requests
  PROVE  /\ Reach(r) \subseteq Containers
         /\ Touches(r) \subseteq {"quota", "traffic", "power"}
         /\ r.req = "limit" => Touches(r) = {}
         /\ r.req = "quota" => Touches(r) = {"quota", "traffic"}
         /\ r.req \in {"power", "harden", "repair"} => Touches(r) = {"power"}
<1>1. Reach(r) \subseteq Containers
  BY RequestKind
  DEF Reach, Requests, QuotaRequest, LimitRequest, HardenRequest, PowerRequest, RepairRequest
<1>. QED
  BY <1>1, RequestKind DEF Touches

(* A request that has met another is the same but for that.                *)
LEMMA MetIsSame ==
  ASSUME NEW r \in Requests, r.req # "limit"
  PROVE  /\ Met(r) \in Requests /\ Met(r).met
         /\ Met(r).req = r.req /\ Met(r).at = r.at /\ Reach(Met(r)) = Reach(r)
         /\ ShapeOf(r) => ShapeOf(Met(r))
<1>1. CASE r.req = "quota"
  <2>1. r \in QuotaRequest
    BY <1>1, RequestKind
  <2>2. /\ Met(r) \in QuotaRequest /\ Met(r).met /\ Met(r).req = r.req /\ Met(r).at = r.at
        /\ Met(r).on = r.on /\ Met(r).before = r.before /\ Met(r).done = r.done
        /\ Met(r).old = r.old /\ Met(r).map = r.map /\ Met(r).want = r.want
    BY <2>1 DEF QuotaRequest, Met
  <2>. QED
    BY <1>1, <2>2 DEF Requests, Reach, ShapeOf
<1>2. CASE r.req = "harden"
  <2>1. r \in HardenRequest
    BY <1>2, RequestKind
  <2>2. /\ Met(r) \in HardenRequest /\ Met(r).met /\ Met(r).req = r.req /\ Met(r).at = r.at
        /\ Met(r).on = r.on /\ Met(r).map = r.map /\ Met(r).wasRunning = r.wasRunning
    BY <2>1 DEF HardenRequest, Met
  <2>. QED
    BY <1>2, <2>2 DEF Requests, Reach, ShapeOf
<1>3. CASE r.req = "power"
  <2>1. r \in PowerRequest
    BY <1>3, RequestKind
  <2>2. /\ Met(r) \in PowerRequest /\ Met(r).met /\ Met(r).req = r.req /\ Met(r).at = r.at
        /\ Met(r).on = r.on
    BY <2>1 DEF PowerRequest, Met
  <2>. QED
    BY <1>3, <2>2 DEF Requests, Reach, ShapeOf
<1>4. CASE r.req = "repair"
  <2>1. r \in RepairRequest
    BY <1>4, RequestKind
  <2>2. /\ Met(r) \in RepairRequest /\ Met(r).met /\ Met(r).req = r.req /\ Met(r).at = r.at
        /\ Met(r).affected = r.affected /\ Met(r).todo = r.todo
    BY <2>1 DEF RepairRequest, Met
  <2>. QED
    BY <1>4, <2>2 DEF Requests, Reach, ShapeOf
<1>. QED
  BY <1>1, <1>2, <1>3, <1>4, RequestKind

-----------------------------------------------------------------------------
(* Requests begin, go on and end.                                          *)

(* A new request, and those that it meets.                                 *)
LEMMA Begins ==
  ASSUME TypeOK, NEW h \in Handlers, NEW r \in Requests, Begin(h, r)
  PROVE  /\ request[h] = None
         /\ request' \in [Handlers -> Requests \cup {None}]
         /\ drift' \in [Containers -> SUBSET Aspects]
         /\ request'[h] = r \/ (r.req # "limit" /\ request'[h] = Met(r))
         /\ \A g \in Handlers \ {h} :
              \/ request'[g] = request[g]
              \/ /\ request[g] # None /\ request[g].req # "limit" /\ Meets(r, request[g])
                 /\ request'[g] = Met(request[g])
         /\ \A g \in Handlers \ {h} :
              request[g] # None /\ Meets(r, request[g]) =>
                /\ request'[h] = Met(r) /\ request'[g] = Met(request[g])
                /\ \A c \in Reach(r) \cap Reach(request[g]) : Touches(r) \subseteq drift'[c]
         /\ \A c \in Containers : /\ drift[c] \subseteq drift'[c]
                                  /\ drift'[c] \subseteq drift[c] \cup Touches(r)
<1>. DEFINE others == {g \in Busy : Meets(r, request[g])}
<1>1. /\ Idle(h)
      /\ request' = [g \in Handlers |->
                       IF g = h THEN IF others = {} THEN r ELSE Met(r)
                       ELSE IF g \in others THEN Met(request[g]) ELSE request[g]]
      /\ drift' = [c \in Containers |->
                     IF \E g \in others : c \in Reach(r) \cap Reach(request[g])
                     THEN drift[c] \cup Touches(r) ELSE drift[c]]
  BY DEF Begin
<1>2. \A g \in Handlers : g \in others <=> request[g] # None /\ Meets(r, request[g])
  BY DEF Busy, Idle
<1>3. others \subseteq Handlers /\ h \notin others
  BY <1>1 DEF Busy, Idle
<1>4. \A g \in Handlers : request[g] \in Requests \cup {None}
  BY DEF TypeOK
<1>5. \A g \in others : request[g] \in Requests /\ request[g].req # "limit" /\ r.req # "limit"
  BY <1>2, <1>3, <1>4, RequestKind, Reached DEF Meets
<1>6. \A g \in others : Met(request[g]) \in Requests /\ Met(r) \in Requests
  BY <1>5, MetIsSame
<1>7. Touches(r) \subseteq Aspects
  BY Reached DEF Aspects
<1>. HIDE DEF others
<1>8. request' \in [Handlers -> Requests \cup {None}]
  BY <1>1, <1>3, <1>4, <1>6
<1>9. drift' \in [Containers -> SUBSET Aspects]
  BY <1>1, <1>7 DEF TypeOK
<1>10. /\ request'[h] = IF others = {} THEN r ELSE Met(r)
       /\ \A g \in Handlers \ {h} :
            request'[g] = IF g \in others THEN Met(request[g]) ELSE request[g]
  BY <1>1
<1>11. \A c \in Containers :
         drift'[c] = IF \E g \in others : c \in Reach(r) \cap Reach(request[g])
                     THEN drift[c] \cup Touches(r) ELSE drift[c]
  BY <1>1
<1>12. Reach(r) \subseteq Containers
  BY Reached
<1>13. request'[h] = r \/ (r.req # "limit" /\ request'[h] = Met(r))
  BY <1>5, <1>10
<1>14. \A g \in Handlers \ {h} :
         \/ request'[g] = request[g]
         \/ /\ request[g] # None /\ request[g].req # "limit" /\ Meets(r, request[g])
            /\ request'[g] = Met(request[g])
  BY <1>2, <1>5, <1>10
<1>15. ASSUME NEW g \in Handlers \ {h}, request[g] # None, Meets(r, request[g])
       PROVE  /\ request'[h] = Met(r) /\ request'[g] = Met(request[g])
              /\ \A c \in Reach(r) \cap Reach(request[g]) : Touches(r) \subseteq drift'[c]
  BY <1>2, <1>10, <1>11, <1>12, <1>15
<1>16. \A c \in Containers : /\ drift[c] \subseteq drift'[c]
                             /\ drift'[c] \subseteq drift[c] \cup Touches(r)
  BY <1>11
<1>. QED
  BY <1>1, <1>8, <1>9, <1>13, <1>14, <1>15, <1>16 DEF Idle

(* A request at its next call, or its end.                                 *)
LEMMA Proceeds ==
  ASSUME TypeOK, Shape, NEW h \in Handlers, NEW r \in Requests \cup {None},
         r # None => ShapeOf(r), Proceed(h, r)
  PROVE  /\ request' \in [Handlers -> Requests \cup {None}] /\ Shape'
         /\ request'[h] = r /\ \A g \in Handlers \ {h} : request'[g] = request[g]
<1>1. request' = [request EXCEPT ![h] = r] /\ request \in [Handlers -> Requests \cup {None}]
  BY DEF Proceed, TypeOK
<1>2. request'[h] = r /\ \A g \in Handlers \ {h} : request'[g] = request[g]
  BY <1>1
<1>3. ASSUME NEW g \in Handlers, request'[g] # None PROVE ShapeOf(request'[g])
  BY <1>2, <1>3 DEF Shape
<1>. QED
  BY <1>1, <1>2, <1>3 DEF Shape, ShapeOf

LEMMA DriftTypes ==
  ASSUME TypeOK
  PROVE  /\ \A cs, as : Apart(cs, as) /\ as \subseteq Aspects =>
              drift' \in [Containers -> SUBSET Aspects]
         /\ \A h, c, as : Together(h, c, as) => drift' \in [Containers -> SUBSET Aspects]
         /\ \A h \in Handlers : GiveUp(h) /\ request[h] # None =>
              drift' \in [Containers -> SUBSET Aspects]
         /\ \A h \in Handlers : \A c, map : Stale(h, c, map) \subseteq {"quota", "limit", "options"}
<1>0. drift \in [Containers -> SUBSET Aspects]
  BY DEF TypeOK
<1>1. ASSUME NEW cs, NEW as, Apart(cs, as), as \subseteq Aspects
      PROVE  drift' \in [Containers -> SUBSET Aspects]
  <2>1. drift' = [c \in Containers |-> IF c \in cs THEN drift[c] \cup as ELSE drift[c]]
    BY <1>1 DEF Apart
  <2>2. \A c \in Containers : drift[c] \cup as \subseteq Aspects
    BY <1>0, <1>1
  <2>. QED
    BY <1>0, <2>1, <2>2
<1>2. ASSUME NEW h, NEW c, NEW as, Together(h, c, as)
      PROVE  drift' \in [Containers -> SUBSET Aspects]
  <2>1. drift' = [drift EXCEPT ![c] = drift[c]] \/ drift' = [drift EXCEPT ![c] = drift[c] \ as]
    BY <1>2 DEF Together
  <2>2. CASE c \in Containers
    <3>1. drift[c] \subseteq Aspects /\ drift[c] \ as \subseteq Aspects
      BY <1>0, <2>2
    <3>. QED
      BY <1>0, <2>1, <3>1
  <2>3. CASE c \notin Containers
    BY <1>0, <2>1, <2>3
  <2>. QED
    BY <2>2, <2>3
<1>3. ASSUME NEW h \in Handlers, GiveUp(h), request[h] # None
      PROVE  drift' \in [Containers -> SUBSET Aspects]
  <2>1. request[h] \in Requests
    BY <1>3 DEF TypeOK
  <2>. QED
    BY <1>1, <1>3, <2>1, Reached DEF GiveUp, Aspects
<1>4. \A h \in Handlers : \A c, map : Stale(h, c, map) \subseteq {"quota", "limit", "options"}
  BY DEF Stale
<1>. QED
  BY <1>1, <1>2, <1>3, <1>4

-----------------------------------------------------------------------------
(* Type correctness, with what the requests have read.                     *)

LEMMA Serving ==
  ASSUME TypeOK, Shape, NEW h \in Handlers, NEW kind, NEW step, Serves(h, kind, step)
  PROVE  /\ request[h] \in Requests /\ request[h] # None
         /\ request[h].req = kind /\ request[h].at = step /\ ShapeOf(request[h])
BY DEF Serves, Busy, Idle, TypeOK, Shape

(* The least and the greatest of a set of resources.                       *)
LEMMA Extremes ==
  ASSUME NEW S \in SUBSET Resources, S # {}
  PROVE  /\ Least(S) \in S /\ \A i \in S : Least(S) <= i
         /\ Greatest(S) \in S /\ \A i \in S : Greatest(S) >= i
<1>1. Resources = {1, 2, 3}
  BY DEF Resources, Cpu, Mem, Disk
<1>4. \A i \in S : i = 1 \/ i = 2 \/ i = 3
  BY <1>1
<1>5. 1 \in S \/ 2 \in S \/ 3 \in S
  BY <1>4
<1>2. \E k \in S : \A i \in S : k <= i
  <2>1. CASE 1 \in S
    <3>1. \A i \in S : 1 <= i
      BY <1>4
    <3>. QED
      BY <2>1, <3>1
  <2>2. CASE 1 \notin S /\ 2 \in S
    <3>1. \A i \in S : 2 <= i
      BY <1>4, <2>2
    <3>. QED
      BY <2>2, <3>1
  <2>3. CASE 1 \notin S /\ 2 \notin S
    <3>1. 3 \in S /\ \A i \in S : 3 <= i
      BY <1>4, <1>5, <2>3
    <3>. QED
      BY <3>1
  <2>. QED
    BY <2>1, <2>2, <2>3
<1>3. \E k \in S : \A i \in S : k >= i
  <2>1. CASE 3 \in S
    <3>1. \A i \in S : 3 >= i
      BY <1>4
    <3>. QED
      BY <2>1, <3>1
  <2>2. CASE 3 \notin S /\ 2 \in S
    <3>1. \A i \in S : 2 >= i
      BY <1>4, <2>2
    <3>. QED
      BY <2>2, <3>1
  <2>3. CASE 3 \notin S /\ 2 \notin S
    <3>1. 1 \in S /\ \A i \in S : 1 >= i
      BY <1>4, <1>5, <2>3
    <3>. QED
      BY <3>1
  <2>. QED
    BY <2>1, <2>2, <2>3
<1>. QED
  BY <1>2, <1>3 DEF Least, Greatest

(* What UpdateQuotas sets next, or restores next.                          *)
LEMMA NextResource ==
  ASSUME NEW r \in QuotaRequest
  PROVE  /\ ToSet(r) # {} =>
              LET k == Least(ToSet(r))
              IN /\ k \in Resources /\ k > r.done /\ r.want[k] > 0
                 /\ \A i \in Resources : i > r.done /\ i < k => ~(r.want[i] > 0)
         /\ ToUndo(r) # {} =>
              LET k == Greatest(ToUndo(r))
              IN /\ k \in Resources /\ k <= r.done /\ r.want[k] > 0
                 /\ \A i \in Resources : i <= r.done /\ i > k => ~(r.want[i] > 0)
         /\ r.done \in 0..3 /\ Resources = {1, 2, 3} /\ Resources \subseteq Int
<1>1. Resources = {1, 2, 3} /\ r.done \in 0..3
  BY DEF Resources, Cpu, Mem, Disk, QuotaRequest
<1>2. /\ ToSet(r) \subseteq Resources /\ ToUndo(r) \subseteq Resources
      /\ \A k \in Resources : k \in ToSet(r) <=> k > r.done /\ r.want[k] > 0
      /\ \A k \in Resources : k \in ToUndo(r) <=> k <= r.done /\ r.want[k] > 0
  BY DEF ToSet, ToUndo
<1>3. ASSUME ToSet(r) # {}
      PROVE  /\ Least(ToSet(r)) \in ToSet(r) /\ \A i \in ToSet(r) : Least(ToSet(r)) <= i
  BY <1>2, <1>3, Extremes
<1>4. ASSUME ToUndo(r) # {}
      PROVE  /\ Greatest(ToUndo(r)) \in ToUndo(r) /\ \A i \in ToUndo(r) : Greatest(ToUndo(r)) >= i
  BY <1>2, <1>4, Extremes
<1>5. ASSUME ToSet(r) # {}, NEW k, k = Least(ToSet(r))
      PROVE  /\ k \in Resources /\ k > r.done /\ r.want[k] > 0
             /\ \A i \in Resources : i > r.done /\ i < k => ~(r.want[i] > 0)
  BY <1>1, <1>2, <1>3, <1>5
<1>6. ASSUME ToUndo(r) # {}, NEW k, k = Greatest(ToUndo(r))
      PROVE  /\ k \in Resources /\ k <= r.done /\ r.want[k] > 0
             /\ \A i \in Resources : i <= r.done /\ i > k => ~(r.want[i] > 0)
  BY <1>1, <1>2, <1>4, <1>6
<1>. QED
  BY <1>1, <1>5, <1>6

StoresTyped ==
  /\ row \in [Containers -> [quota : Quota, traffic : Nat]]
  /\ config \in [Containers -> [cpu : [cores : Int, slice : Int], mem : Int]]
  /\ device \in [Containers -> Map]
  /\ power \in [Containers -> [running : BOOLEAN, autostart : BOOLEAN, asked : BOOLEAN]]
  /\ machine \in [Containers -> {"baked", "own"}]
  /\ bridge \in [dhcp : BOOLEAN, stale : BOOLEAN]
  /\ throttled \subseteq Containers
LEMMA TypeParts ==
  TypeOK <=> /\ StoresTyped /\ request \in [Handlers -> Requests \cup {None}]
             /\ drift \in [Containers -> SUBSET Aspects]
BY DEF TypeOK, StoresTyped

Stores == <<row, config, device, power, machine, bridge, throttled>>
LEMMA StoresKept ==
  ASSUME StoresTyped, UNCHANGED Stores
  PROVE  StoresTyped'
BY DEF Stores, StoresTyped

LEMMA InitTypes == Init => TypeOK /\ Shape
<1>. SUFFICES ASSUME Init PROVE TypeOK /\ Shape
  OBVIOUS
<1>1. FirstQuota \in Quota /\ \A k \in Resources : FirstQuota[k] \in Int
  BY FirstQuotaAssumption DEF Quota, Resources, Cpu, Mem, Disk
<1>2. FirstQuota[Cpu] \in Int /\ FirstQuota[Mem] \in Int /\ FirstQuota[Disk] \in Int
  BY <1>1 DEF Resources
<1>3. CpuLimit(FirstQuota[Cpu]) \in [cores : Int, slice : Int]
  BY <1>2, CpuLimitType
<1>4. row \in [Containers -> [quota : Quota, traffic : Nat]]
  BY <1>1 DEF Init
<1>5. config \in [Containers -> [cpu : [cores : Int, slice : Int], mem : Int]]
  BY <1>2, <1>3 DEF Init
<1>6. device \in [Containers -> Map] /\ machine \in [Containers -> {"baked", "own"}]
      /\ bridge \in [dhcp : BOOLEAN, stale : BOOLEAN]
  <2>1. PICK old \in BOOLEAN :
          /\ device = [c \in Containers |-> [disk |-> FirstQuota[Disk], limit |-> FALSE,
                                            options |-> IF old THEN {} ELSE Options]]
          /\ machine = [c \in Containers |-> IF old THEN "baked" ELSE "own"]
          /\ bridge = [dhcp |-> TRUE, stale |-> old]
    BY DEF Init
  <2>2. \A disk \in Int : [disk |-> disk, limit |-> FALSE, options |-> IF old THEN {} ELSE Options]
                             \in Map
    BY DEF Map
  <2>. QED
    BY <1>2, <2>1, <2>2
<1>7. power \in [Containers -> [running : BOOLEAN, autostart : BOOLEAN, asked : BOOLEAN]]
  BY DEF Init
<1>8. throttled \subseteq Containers /\ drift \in [Containers -> SUBSET Aspects]
      /\ request \in [Handlers -> Requests \cup {None}] /\ Shape
  BY DEF Init, Shape
<1>. QED
  BY <1>4, <1>5, <1>6, <1>7, <1>8 DEF TypeOK

Typed == TypeOK /\ Shape

LEMMA TypedNext ==
  ASSUME Typed, NEW h \in Handlers, NEW r \in Requests \cup {None},
         r # None => ShapeOf(r), Proceed(h, r),
         StoresTyped', drift' \in [Containers -> SUBSET Aspects]
  PROVE  Typed'
<1>1. request' \in [Handlers -> Requests \cup {None}] /\ Shape'
  BY Proceeds DEF Typed
<1>. QED
  BY <1>1 DEF Typed, TypeOK, StoresTyped

(* The quota request of a handler, with its fields.                        *)
LEMMA ServingQuota ==
  ASSUME Typed, NEW h \in Handlers, NEW step, Serves(h, "quota", step)
  PROVE  /\ request[h] \in QuotaRequest /\ request[h].at = step /\ ShapeOf(request[h])
         /\ request[h].on \in Containers /\ request[h].want \in Quota
         /\ \A k \in Resources : request[h].want[k] \in Int
         /\ row[request[h].on] \in [quota : Quota, traffic : Nat]
         /\ row[request[h].on].quota \in Quota /\ row[request[h].on].traffic \in Nat
         /\ device[request[h].on] \in Map
         /\ StoresTyped /\ drift \in [Containers -> SUBSET Aspects] /\ TypeOK
<1>1. request[h] \in QuotaRequest /\ request[h].at = step /\ ShapeOf(request[h]) /\ TypeOK
  BY Serving, RequestKind DEF Typed
<1>2. request[h].on \in Containers /\ request[h].want \in Quota
  BY <1>1 DEF QuotaRequest
<1>3. \A k \in Resources : request[h].want[k] \in Int
  BY <1>2 DEF Quota
<1>4. /\ row[request[h].on] \in [quota : Quota, traffic : Nat]
      /\ row[request[h].on].quota \in Quota /\ row[request[h].on].traffic \in Nat
      /\ device[request[h].on] \in Map
  BY <1>1, <1>2 DEF TypeOK
<1>. QED
  BY <1>1, <1>2, <1>3, <1>4, TypeParts

(* A write of one column of a row, and of one part of a configuration.     *)
RowType == [quota : Quota, traffic : Nat]
ConfigType == [cpu : [cores : Int, slice : Int], mem : Int]
LEMMA FieldUpdates ==
  /\ \A w \in RowType, v \in Nat :
       /\ [w EXCEPT !.traffic = v] \in RowType
       /\ [w EXCEPT !.traffic = v].traffic = v /\ [w EXCEPT !.traffic = v].quota = w.quota
  /\ \A w \in RowType, q \in Quota :
       /\ [w EXCEPT !.quota = q] \in RowType
       /\ [w EXCEPT !.quota = q].quota = q /\ [w EXCEPT !.quota = q].traffic = w.traffic
  /\ \A f \in ConfigType, limit \in [cores : Int, slice : Int] :
       /\ [f EXCEPT !.cpu = limit] \in ConfigType
       /\ [f EXCEPT !.cpu = limit].cpu = limit /\ [f EXCEPT !.cpu = limit].mem = f.mem
  /\ \A f \in ConfigType, v \in Int :
       /\ [f EXCEPT !.mem = v] \in ConfigType
       /\ [f EXCEPT !.mem = v].mem = v /\ [f EXCEPT !.mem = v].cpu = f.cpu
BY DEF RowType, ConfigType

LEMMA RowUpdates ==
  ASSUME StoresTyped, NEW c \in Containers
  PROVE  /\ \A v \in Nat : row' = [row EXCEPT ![c].traffic = v] =>
              /\ row' \in [Containers -> RowType]
              /\ row'[c].traffic = v /\ row'[c].quota = row[c].quota
              /\ \A d \in Containers : d # c => row'[d] = row[d]
         /\ \A q \in Quota : row' = [row EXCEPT ![c].quota = q] =>
              /\ row' \in [Containers -> RowType]
              /\ row'[c].quota = q /\ row'[c].traffic = row[c].traffic
              /\ \A d \in Containers : d # c => row'[d] = row[d]
<1>1. row \in [Containers -> RowType]
  BY DEF StoresTyped, RowType
<1>2. PICK w \in RowType : w = row[c]
  BY <1>1
<1>3. ASSUME NEW v \in Nat, row' = [row EXCEPT ![c].traffic = v]
      PROVE  /\ row' \in [Containers -> RowType]
             /\ row'[c].traffic = v /\ row'[c].quota = row[c].quota
             /\ \A d \in Containers : d # c => row'[d] = row[d]
  <2>1. PICK new \in RowType :
          new = [w EXCEPT !.traffic = v] /\ new.traffic = v /\ new.quota = w.quota
    BY FieldUpdates
  <2>2. row' = [row EXCEPT ![c] = new]
    BY <1>1, <1>2, <1>3, <2>1
  <2>. QED
    BY <1>1, <1>2, <2>1, <2>2
<1>4. ASSUME NEW q \in Quota, row' = [row EXCEPT ![c].quota = q]
      PROVE  /\ row' \in [Containers -> RowType]
             /\ row'[c].quota = q /\ row'[c].traffic = row[c].traffic
             /\ \A d \in Containers : d # c => row'[d] = row[d]
  <2>1. PICK new \in RowType :
          new = [w EXCEPT !.quota = q] /\ new.quota = q /\ new.traffic = w.traffic
    BY FieldUpdates
  <2>2. row' = [row EXCEPT ![c] = new]
    BY <1>1, <1>2, <1>4, <2>1
  <2>. QED
    BY <1>1, <1>2, <2>1, <2>2
<1>. QED
  BY <1>3, <1>4

LEMMA ConfigUpdates ==
  ASSUME StoresTyped, NEW c \in Containers, NEW k \in {Cpu, Mem}, NEW v \in Int,
         PatchConfig(c, k, v)
  PROVE  /\ config' \in [Containers -> ConfigType]
         /\ k = Cpu => config'[c].cpu = CpuLimit(v) /\ config'[c].mem = config[c].mem
         /\ k = Mem => config'[c].mem = v /\ config'[c].cpu = config[c].cpu
         /\ \A d \in Containers : d # c => config'[d] = config[d]
<1>1. config \in [Containers -> ConfigType]
  BY DEF StoresTyped, ConfigType
<1>2. PICK f \in ConfigType : f = config[c]
  BY <1>1
<1>3. PICK limit \in [cores : Int, slice : Int] : limit = CpuLimit(v)
  BY CpuLimitType
<1>4. Cpu # Mem
  BY DEF Cpu, Mem
<1>5. CASE k = Cpu
  <2>1. PICK new \in ConfigType :
          new = [f EXCEPT !.cpu = limit] /\ new.cpu = limit /\ new.mem = f.mem
    BY FieldUpdates
  <2>2. config' = [config EXCEPT ![c] = new]
    <3>1. config' = [config EXCEPT ![c] = [@ EXCEPT !.cpu = limit]]
      BY <1>3, <1>5 DEF PatchConfig
    <3>. QED
      BY <1>1, <1>2, <2>1, <3>1
  <2>. QED
    BY <1>1, <1>2, <1>3, <1>4, <1>5, <2>1, <2>2
<1>6. CASE k = Mem
  <2>1. PICK new \in ConfigType :
          new = [f EXCEPT !.mem = v] /\ new.mem = v /\ new.cpu = f.cpu
    BY FieldUpdates
  <2>2. config' = [config EXCEPT ![c] = new]
    BY <1>1, <1>2, <1>4, <1>6, <2>1 DEF PatchConfig
  <2>. QED
    BY <1>1, <1>2, <1>4, <1>6, <2>1, <2>2
<1>. QED
  BY <1>5, <1>6

LEMMA DeviceUpdates ==
  ASSUME StoresTyped, NEW c \in Containers, NEW map \in Map, device' = [device EXCEPT ![c] = map]
  PROVE  /\ device' \in [Containers -> Map] /\ device'[c] = map
         /\ \A d \in Containers : d # c => device'[d] = device[d]
BY DEF StoresTyped

LEMMA MapUpdates ==
  /\ \A m \in Map, v \in Int :
       /\ [m EXCEPT !.disk = v] \in Map
       /\ [m EXCEPT !.disk = v].disk = v /\ [m EXCEPT !.disk = v].limit = m.limit
       /\ [m EXCEPT !.disk = v].options = m.options
  /\ \A m \in Map, v \in BOOLEAN :
       /\ [m EXCEPT !.limit = v] \in Map
       /\ [m EXCEPT !.limit = v].limit = v /\ [m EXCEPT !.limit = v].disk = m.disk
  /\ \A m \in Map, o \in Options :
       /\ [m EXCEPT !.options = @ \cup {o}] \in Map
       /\ [m EXCEPT !.options = @ \cup {o}].limit = m.limit
       /\ [m EXCEPT !.options = @ \cup {o}].disk = m.disk
BY DEF Map

(* What becomes of drift: more on one container, or less.                  *)
LEMMA DriftUpdates ==
  ASSUME TypeOK, NEW h \in Handlers, NEW c \in Containers
  PROVE  /\ \A as : Apart({c}, as) =>
              drift'[c] = drift[c] \cup as /\ \A d \in Containers : d # c => drift'[d] = drift[d]
         /\ \A as : Together(h, c, as) =>
              /\ drift'[c] = IF request[h].met THEN drift[c] ELSE drift[c] \ as
              /\ \A d \in Containers : d # c => drift'[d] = drift[d]
BY DEF Apart, Together, TypeOK

-----------------------------------------------------------------------------
(* What each step of a quota request does: the request before it and       *)
(* after, and what it writes.                                              *)
Move(h, r, s) ==
  request[h] = r /\ request'[h] = s /\ \A g \in Handlers \ {h} : request'[g] = request[g]
SameAsk(r, s) ==
  s.on = r.on /\ s.want = r.want /\ s.traffic = r.traffic /\ s.met = r.met /\ s.req = r.req

LEMMA ReadTrafficDoes ==
  ASSUME Typed, NEW h \in Handlers, ReadTraffic(h)
  PROVE  /\ Typed' /\ UNCHANGED Stores /\ UNCHANGED drift
         /\ \E r, s \in QuotaRequest :
              /\ Move(h, r, s) /\ SameAsk(r, s)
              /\ r.at = "start" /\ s.at = "traffic"
              /\ s.before = row[r.on].traffic /\ s.done = r.done
<1>1. PICK r \in QuotaRequest : r = request[h] /\ r.at = "start" /\ ShapeOf(r)
                                /\ row[r.on].traffic \in Nat /\ StoresTyped /\ TypeOK
                                /\ drift \in [Containers -> SUBSET Aspects]
  BY ServingQuota DEF ReadTraffic
<1>2. PICK was \in Nat : was = row[r.on].traffic
  BY <1>1
<1>. DEFINE s == [r EXCEPT !.at = "traffic", !.before = was]
<1>3. /\ s \in QuotaRequest /\ SameAsk(r, s)
      /\ s.at = "traffic" /\ s.before = was /\ s.done = r.done
  BY DEF QuotaRequest, SameAsk
<1>4. Proceed(h, s) /\ UNCHANGED Stores /\ UNCHANGED drift
  BY <1>1, <1>2 DEF ReadTraffic, Stores
<1>. HIDE DEF s
<1>5. ShapeOf(s)
  BY <1>1, <1>3 DEF ShapeOf, QuotaRequest
<1>6. s \in Requests
  BY <1>3 DEF Requests
<1>7. Typed' /\ Move(h, r, s)
  BY <1>1, <1>4, <1>5, <1>6, StoresKept, TypedNext, Proceeds DEF Move, Typed
<1>8. /\ Move(h, r, s) /\ SameAsk(r, s)
      /\ r.at = "start" /\ s.at = "traffic"
      /\ s.before = row[r.on].traffic /\ s.done = r.done
  BY <1>1, <1>2, <1>3, <1>7
<1>. QED
  BY <1>3, <1>4, <1>7, <1>8

LEMMA SetTrafficDoes ==
  ASSUME Typed, NEW h \in Handlers, SetTraffic(h)
  PROVE  /\ Typed' /\ UNCHANGED <<config, device, power, machine, bridge, throttled, drift>>
         /\ \E r \in QuotaRequest, s \in QuotaRequest \cup {None} :
              /\ Move(h, r, s) /\ r.at = "traffic"
              /\ \A d \in Containers : d # r.on => row'[d] = row[d]
              /\ row'[r.on].quota = row[r.on].quota
              /\ \/ s = None /\ row'[r.on] = row[r.on]
                 \/ /\ s # None /\ SameAsk(r, s) /\ s.at = "read" /\ s.done = r.done
                    /\ row'[r.on].traffic = r.traffic
<1>1. PICK r \in QuotaRequest : r = request[h] /\ r.at = "traffic" /\ ShapeOf(r)
                                /\ r.on \in Containers /\ StoresTyped /\ TypeOK
                                /\ drift \in [Containers -> SUBSET Aspects]
  BY ServingQuota DEF SetTraffic
<1>. DEFINE s == [r EXCEPT !.at = "read"]
<1>2. /\ s \in QuotaRequest /\ SameAsk(r, s)
      /\ s.at = "read" /\ s.before = r.before /\ s.done = r.done
  BY DEF QuotaRequest, SameAsk
<1>3. /\ UNCHANGED <<config, device, power, machine, bridge, throttled, drift>>
      /\ \/ Proceed(h, s) /\ row' = [row EXCEPT ![r.on].traffic = r.traffic]
         \/ Proceed(h, None) /\ row' = row
  BY <1>1 DEF SetTraffic, Goto, Finish
<1>. HIDE DEF s
<1>4. s \in Requests /\ r.traffic \in Nat /\ s # None
  BY <1>2, RequestKind DEF Requests, QuotaRequest
<1>5. ShapeOf(s)
  BY <1>1, <1>2 DEF ShapeOf, QuotaRequest
<1>6. CASE Proceed(h, None) /\ row' = row
  <2>1. StoresTyped'
    BY <1>1, <1>3, <1>6 DEF StoresTyped
  <2>2. Typed' /\ Move(h, r, None)
    BY <1>1, <1>3, <1>6, <2>1, TypedNext, Proceeds DEF Move, Typed
  <2>. QED
    BY <1>1, <1>3, <1>6, <2>2
<1>7. CASE Proceed(h, s) /\ row' = [row EXCEPT ![r.on].traffic = r.traffic]
  <2>1. /\ row' \in [Containers -> RowType]
        /\ row'[r.on].traffic = r.traffic /\ row'[r.on].quota = row[r.on].quota
        /\ \A d \in Containers : d # r.on => row'[d] = row[d]
    BY <1>1, <1>4, <1>7, RowUpdates
  <2>2. StoresTyped'
    BY <1>1, <1>3, <2>1 DEF StoresTyped, RowType
  <2>3. Typed' /\ Move(h, r, s)
    BY <1>1, <1>3, <1>4, <1>5, <1>7, <2>2, TypedNext, Proceeds DEF Move, Typed
  <2>. QED
    BY <1>1, <1>2, <1>3, <1>4, <2>1, <2>3
<1>. QED
  BY <1>3, <1>6, <1>7

LEMMA ReadRowDoes ==
  ASSUME Typed, NEW h \in Handlers, ReadRow(h)
  PROVE  /\ Typed' /\ UNCHANGED Stores /\ UNCHANGED drift
         /\ \E r, s \in QuotaRequest :
              /\ Move(h, r, s) /\ SameAsk(r, s)
              /\ r.at = "read" /\ s.at \in {"set", "restore"}
              /\ s.old = row[r.on].quota /\ s.done = 0
<1>1. PICK r \in QuotaRequest : r = request[h] /\ r.at = "read" /\ ShapeOf(r)
                                /\ row[r.on].quota \in Quota /\ StoresTyped /\ TypeOK
                                /\ drift \in [Containers -> SUBSET Aspects]
  BY ServingQuota DEF ReadRow
<1>2. PICK now \in Quota : now = row[r.on].quota
  BY <1>1
<1>. DEFINE s == [r EXCEPT !.at = IF Accepts(r.want, now) THEN "set" ELSE "restore", !.old = now]
<1>3. /\ s \in QuotaRequest /\ SameAsk(r, s) /\ s.req = "quota"
      /\ s.at = IF Accepts(r.want, now) THEN "set" ELSE "restore"
      /\ s.before = r.before /\ s.old = now /\ s.done = r.done
  BY DEF QuotaRequest, SameAsk
<1>4. Proceed(h, s) /\ UNCHANGED Stores /\ UNCHANGED drift
  BY <1>1, <1>2 DEF ReadRow, Stores
<1>. HIDE DEF s
<1>5. ShapeOf(s) /\ r.done = 0 /\ s.at \in {"set", "restore"}
  <2>1. s.before \in Nat /\ s.want = r.want /\ r.done = 0
    BY <1>1, <1>3 DEF ShapeOf, QuotaRequest, SameAsk
  <2>2. s.at = "set" => (s.want[Disk] > 0 => s.want[Disk] >= s.old[Disk])
    BY <1>3, <2>1 DEF Accepts
  <2>3. s.at \in {"set", "restore"}
    BY <1>3
  <2>. QED
    BY <1>3, <2>1, <2>2, <2>3 DEF ShapeOf
<1>6. s \in Requests
  BY <1>3 DEF Requests
<1>7. Typed' /\ Move(h, r, s)
  BY <1>1, <1>4, <1>5, <1>6, StoresKept, TypedNext, Proceeds DEF Move, Typed
<1>8. /\ Move(h, r, s) /\ SameAsk(r, s)
      /\ r.at = "read" /\ s.at \in {"set", "restore"}
      /\ s.old = row[r.on].quota /\ s.done = 0
  BY <1>1, <1>2, <1>3, <1>5, <1>7
<1>. QED
  BY <1>3, <1>4, <1>7, <1>8

(* One of the two configurations of a container is written.                *)
Wrote(c, k, v) ==
  /\ k = Cpu => config'[c].cpu = CpuLimit(v) /\ config'[c].mem = config[c].mem
  /\ k = Mem => config'[c].mem = v /\ config'[c].cpu = config[c].cpu
  /\ \A d \in Containers : d # c => config'[d] = config[d]
LEMMA Writes ==
  ASSUME Typed, NEW c \in Containers, NEW k \in {Cpu, Mem}, NEW v \in Int, PatchConfig(c, k, v),
         UNCHANGED <<row, device, power, machine, bridge, throttled>>
  PROVE  StoresTyped' /\ Wrote(c, k, v)
<1>1. StoresTyped
  BY TypeParts DEF Typed
<1>2. config' \in [Containers -> ConfigType]
  BY <1>1, ConfigUpdates
<1>3. Wrote(c, k, v)
  BY <1>1, ConfigUpdates DEF Wrote
<1>. QED
  BY <1>1, <1>2, <1>3 DEF StoresTyped, ConfigType

(* A device map is written, and what may have come apart is noted.         *)
Put(c, map) == device'[c] = map /\ \A d \in Containers : d # c => device'[d] = device[d]
Noted(c, aspects) ==
  drift'[c] = drift[c] \cup aspects /\ \A d \in Containers : d # c => drift'[d] = drift[d]
LEMMA Puts ==
  ASSUME Typed, NEW c \in Containers, NEW map \in Map, device' = [device EXCEPT ![c] = map],
         UNCHANGED <<row, config, power, machine, bridge>>, throttled' \subseteq Containers
  PROVE  StoresTyped' /\ Put(c, map)
<1>1. StoresTyped
  BY TypeParts DEF Typed
<1>2. device' \in [Containers -> Map] /\ Put(c, map)
  BY <1>1, DeviceUpdates DEF Put
<1>. QED
  BY <1>1, <1>2 DEF StoresTyped

LEMMA Notes ==
  ASSUME Typed, NEW c \in Containers, NEW aspects, aspects \subseteq Aspects, Apart({c}, aspects)
  PROVE  drift' \in [Containers -> SUBSET Aspects] /\ Noted(c, aspects)
<1>1. TypeOK
  BY DEF Typed
<1>2. drift' \in [Containers -> SUBSET Aspects]
  BY <1>1, DriftTypes
<1>3. Noted(c, aspects)
  BY <1>1 DEF Apart, TypeOK, Noted
<1>. QED
  BY <1>2, <1>3

(* A write that notes nothing stale agrees with every other copy.          *)
LEMMA StaleMeans ==
  ASSUME Typed, NEW h \in Handlers, NEW c \in Containers, NEW map
  PROVE  /\ Stale(h, c, map) \subseteq Aspects
         /\ "quota" \notin Stale(h, c, map) =>
              \A g \in Handlers : g # h /\ Copies(request[g], c) => request[g].map.disk = map.disk
         /\ "limit" \notin Stale(h, c, map) =>
              \A g \in Handlers : g # h /\ Copies(request[g], c) => request[g].map.limit = map.limit
         /\ "power" \notin Stale(h, c, map)
<1>1. \A g \in Handlers : g # h /\ Copies(request[g], c) =>
        request[g].map \in {request[i].map : i \in {i \in Handlers \ {h} : Holds(i, c)}}
  BY DEF Copies, Holds, Busy, Idle
<1>. QED
  BY <1>1 DEF Stale, Aspects

LEMMA SetLimitDoes ==
  ASSUME Typed, NEW h \in Handlers, SetLimit(h)
  PROVE  /\ Typed' /\ UNCHANGED <<row, device, power, machine, bridge, throttled>>
         /\ \E r, s \in QuotaRequest :
              /\ Move(h, r, s) /\ SameAsk(r, s)
              /\ r.at = "set" /\ s.old = r.old
              /\ \/ \E k \in {Cpu, Mem} :
                      /\ s.at = "set" /\ s.done = k /\ k > r.done /\ r.want[k] > 0
                      /\ \A i \in Resources : i > r.done /\ i < k => ~(r.want[i] > 0)
                      /\ Wrote(r.on, k, r.want[k]) /\ drift' = drift
                 \/ /\ s.at = "patch" /\ s.map = device[r.on] /\ s.done = r.done
                    /\ config' = config /\ drift' = drift
                    /\ \A i \in Resources : i > r.done /\ i < Disk => ~(r.want[i] > 0)
                 \/ s.at = "undo" /\ s.done = r.done /\ config' = config /\ drift' = drift
                 \/ \E k \in {Cpu, Mem} :
                      /\ s.at = "undo" /\ s.done = r.done
                      /\ Wrote(r.on, k, r.want[k]) /\ Noted(r.on, {"quota"})
<1>1. PICK r \in QuotaRequest :
        /\ r = request[h] /\ r.at = "set" /\ ShapeOf(r) /\ r.on \in Containers /\ r.want \in Quota
        /\ device[r.on] \in Map /\ StoresTyped /\ TypeOK /\ \A i \in Resources : r.want[i] \in Int
        /\ drift \in [Containers -> SUBSET Aspects]
  BY ServingQuota DEF SetLimit
<1>2. PICK k : k = Least(ToSet(r))
  OBVIOUS
<1>3. ToSet(r) # {}
  BY <1>1 DEF SetLimit
<1>4. /\ k \in Resources /\ k > r.done /\ r.want[k] > 0
      /\ \A i \in Resources : i > r.done /\ i < k => ~(r.want[i] > 0)
  BY <1>2, <1>3, NextResource
<1>5. /\ UNCHANGED <<row, device, power, machine, bridge, throttled>>
      /\ \/ /\ k # Disk
            /\ PatchConfig(r.on, k, r.want[k])
            /\ Proceed(h, [r EXCEPT !.done = k])
            /\ drift' = drift
         \/ /\ k = Disk
            /\ Proceed(h, [r EXCEPT !.at = "patch", !.map = device[r.on]])
            /\ config' = config /\ drift' = drift
         \/ Proceed(h, [r EXCEPT !.at = "undo"]) /\ config' = config /\ drift' = drift
         \/ /\ k # Disk
            /\ PatchConfig(r.on, k, r.want[k])
            /\ Proceed(h, [r EXCEPT !.at = "undo"])
            /\ Apart({r.on}, {"quota"})
  BY <1>1, <1>2 DEF SetLimit, Goto
<1>6. /\ r.req = "quota" /\ r.before \in Nat /\ r.old \in Quota /\ r.done \in 0..3
      /\ r.want[Disk] > 0 => r.want[Disk] >= r.old[Disk]
  BY <1>1 DEF ShapeOf, QuotaRequest
<1>7. Resources = {Cpu, Mem, Disk} /\ Cpu = 1 /\ Mem = 2 /\ Disk = 3
  BY DEF Resources, Cpu, Mem, Disk
<1>8. CASE /\ k # Disk /\ PatchConfig(r.on, k, r.want[k]) /\ Proceed(h, [r EXCEPT !.done = k])
           /\ drift' = drift
  <2>1. k \in {Cpu, Mem} /\ k \in 0..3
    BY <1>4, <1>7, <1>8
  <2>. DEFINE s == [r EXCEPT !.done = k]
  <2>2. /\ s \in QuotaRequest /\ SameAsk(r, s) /\ s.at = r.at /\ s.before = r.before
        /\ s.done = k /\ s.old = r.old /\ s.map = r.map
    BY <2>1 DEF QuotaRequest, SameAsk
  <2>3. Proceed(h, s)
    BY <1>8
  <2>. HIDE DEF s
  <2>4. ShapeOf(s)
    BY <1>1, <1>6, <2>2 DEF ShapeOf, SameAsk
  <2>5. StoresTyped' /\ Wrote(r.on, k, r.want[k])
    BY <1>1, <1>4, <1>5, <1>8, <2>1, Writes
  <2>6. s \in Requests
    BY <2>2 DEF Requests
  <2>7. Typed' /\ Move(h, r, s)
    BY <1>1, <1>8, <2>3, <2>4, <2>5, <2>6, TypedNext, Proceeds DEF Move, Typed
  <2>8. /\ Move(h, r, s) /\ SameAsk(r, s) /\ r.at = "set" /\ s.old = r.old
        /\ s.at = "set" /\ s.done = k
    BY <1>1, <2>2, <2>7
  <2>. QED
    BY <1>4, <1>5, <1>8, <2>1, <2>2, <2>5, <2>7, <2>8
<1>9. CASE /\ k = Disk
           /\ Proceed(h, [r EXCEPT !.at = "patch", !.map = device[r.on]])
           /\ config' = config /\ drift' = drift
  <2>1. PICK map \in Map : map = device[r.on]
    BY <1>1
  <2>. DEFINE s == [r EXCEPT !.at = "patch", !.map = map]
  <2>2. /\ s \in QuotaRequest /\ SameAsk(r, s) /\ s.at = "patch" /\ s.before = r.before
        /\ s.done = r.done /\ s.old = r.old /\ s.map = map
    BY DEF QuotaRequest, SameAsk
  <2>3. Proceed(h, s)
    BY <1>9, <2>1
  <2>. HIDE DEF s
  <2>4. ShapeOf(s)
    BY <1>1, <1>4, <1>6, <1>9, <2>2 DEF ShapeOf, SameAsk
  <2>5. s \in Requests /\ UNCHANGED Stores
    BY <1>5, <1>9, <2>2 DEF Requests, Stores
  <2>6. Typed' /\ Move(h, r, s)
    BY <1>1, <1>9, <2>3, <2>4, <2>5, StoresKept, TypedNext, Proceeds DEF Move, Typed
  <2>7. /\ Move(h, r, s) /\ SameAsk(r, s) /\ r.at = "set" /\ s.old = r.old
        /\ s.at = "patch" /\ s.map = device[r.on] /\ s.done = r.done
    BY <1>1, <2>1, <2>2, <2>6
  <2>. QED
    BY <1>4, <1>5, <1>9, <2>2, <2>6, <2>7
<1>10. CASE Proceed(h, [r EXCEPT !.at = "undo"]) /\ config' = config /\ drift' = drift
  <2>. DEFINE s == [r EXCEPT !.at = "undo"]
  <2>2. /\ s \in QuotaRequest /\ SameAsk(r, s) /\ s.at = "undo" /\ s.before = r.before
        /\ s.done = r.done /\ s.old = r.old /\ s.map = r.map
    BY DEF QuotaRequest, SameAsk
  <2>3. Proceed(h, s)
    BY <1>10
  <2>. HIDE DEF s
  <2>4. ShapeOf(s)
    BY <1>1, <1>6, <2>2 DEF ShapeOf, SameAsk
  <2>5. s \in Requests /\ UNCHANGED Stores
    BY <1>5, <1>10, <2>2 DEF Requests, Stores
  <2>6. Typed' /\ Move(h, r, s)
    BY <1>1, <1>10, <2>3, <2>4, <2>5, StoresKept, TypedNext, Proceeds DEF Move, Typed
  <2>7. /\ Move(h, r, s) /\ SameAsk(r, s) /\ r.at = "set" /\ s.old = r.old
        /\ s.at = "undo" /\ s.done = r.done
    BY <1>1, <2>2, <2>6
  <2>. QED
    BY <1>5, <1>10, <2>2, <2>6, <2>7
<1>11. CASE /\ k # Disk /\ PatchConfig(r.on, k, r.want[k])
            /\ Proceed(h, [r EXCEPT !.at = "undo"]) /\ Apart({r.on}, {"quota"})
  <2>1. k \in {Cpu, Mem}
    BY <1>4, <1>7, <1>11
  <2>. DEFINE s == [r EXCEPT !.at = "undo"]
  <2>2. /\ s \in QuotaRequest /\ SameAsk(r, s) /\ s.at = "undo" /\ s.before = r.before
        /\ s.done = r.done /\ s.old = r.old /\ s.map = r.map
    BY DEF QuotaRequest, SameAsk
  <2>3. Proceed(h, s)
    BY <1>11
  <2>. HIDE DEF s
  <2>4. ShapeOf(s)
    BY <1>1, <1>6, <2>2 DEF ShapeOf, SameAsk
  <2>5. StoresTyped' /\ Wrote(r.on, k, r.want[k])
    BY <1>1, <1>4, <1>5, <1>11, <2>1, Writes
  <2>6. drift' \in [Containers -> SUBSET Aspects] /\ Noted(r.on, {"quota"})
    BY <1>1, <1>11, Notes DEF Aspects
  <2>7. s \in Requests
    BY <2>2 DEF Requests
  <2>8. Typed' /\ Move(h, r, s)
    BY <1>1, <2>3, <2>4, <2>5, <2>6, <2>7, TypedNext, Proceeds DEF Move, Typed
  <2>. QED
    BY <1>1, <1>5, <2>1, <2>2, <2>5, <2>6, <2>8
<1>. QED
  BY <1>5, <1>8, <1>9, <1>10, <1>11

LEMMA PatchDiskDoes ==
  ASSUME Typed, NEW h \in Handlers, PatchDisk(h)
  PROVE  /\ Typed' /\ UNCHANGED <<row, config, power, machine, bridge, throttled>>
         /\ \E r, s \in QuotaRequest :
              /\ Move(h, r, s)
              /\ s.on = r.on /\ s.want = r.want /\ s.traffic = r.traffic /\ s.old = r.old
              /\ r.at = "patch" /\ r.want[Disk] > 0
              /\ \A i \in Resources : i > r.done /\ i < Disk => ~(r.want[i] > 0)
              /\ \/ \E map \in Map :
                      /\ s.at = "set" /\ s.done = Disk
                      /\ map.disk = r.want[Disk] /\ map.limit = r.map.limit
                      /\ s.met = (r.met \/ Stale(h, r.on, map) # {})
                      /\ Put(r.on, map) /\ Noted(r.on, Stale(h, r.on, map))
                 \/ s.at = "undo" /\ s.done = r.done /\ SameAsk(r, s) /\ UNCHANGED <<device, drift>>
                 \/ \E map \in Map :
                      /\ s.at = "undo" /\ s.done = r.done /\ SameAsk(r, s)
                      /\ map.disk = r.want[Disk] /\ map.limit = r.map.limit
                      /\ Put(r.on, map) /\ Noted(r.on, Stale(h, r.on, map) \cup {"quota"})
<1>1. PICK r \in QuotaRequest :
        /\ r = request[h] /\ r.at = "patch" /\ ShapeOf(r) /\ r.on \in Containers /\ r.want \in Quota
        /\ StoresTyped /\ TypeOK /\ \A i \in Resources : r.want[i] \in Int
        /\ drift \in [Containers -> SUBSET Aspects]
  BY ServingQuota DEF PatchDisk
<1>2. /\ r.req = "quota" /\ r.before \in Nat /\ r.old \in Quota /\ r.map \in Map /\ r.want[Disk] > 0
      /\ r.want[Disk] >= r.old[Disk] /\ r.done < Disk
      /\ \A i \in Resources : i > r.done /\ i < Disk => ~(r.want[i] > 0)
  BY <1>1 DEF ShapeOf, QuotaRequest
<1>3. Disk = 3 /\ Disk \in Resources /\ r.want[Disk] \in Int
  BY <1>1 DEF Resources, Cpu, Mem, Disk
<1>. DEFINE map == [r.map EXCEPT !.disk = r.want[Disk]]
            stale == Stale(h, r.on, map)
<1>4. map \in Map /\ map.disk = r.want[Disk] /\ map.limit = r.map.limit
  BY <1>2, <1>3, MapUpdates
<1>5. /\ UNCHANGED <<row, config, power, machine, bridge, throttled>>
      /\ \/ /\ device' = [device EXCEPT ![r.on] = map]
            /\ Proceed(h, [r EXCEPT !.at = "set", !.done = Disk, !.map = None,
                                    !.met = @ \/ stale # {}])
            /\ Apart({r.on}, stale)
         \/ /\ Proceed(h, [r EXCEPT !.at = "undo", !.map = None])
            /\ UNCHANGED <<device, drift>>
         \/ /\ device' = [device EXCEPT ![r.on] = map]
            /\ Proceed(h, [r EXCEPT !.at = "undo", !.map = None])
            /\ Apart({r.on}, stale \cup {"quota"})
  BY <1>1 DEF PatchDisk
<1>. HIDE DEF map
<1>6. PICK m \in Map : m = map
  BY <1>4
<1>7. CASE /\ device' = [device EXCEPT ![r.on] = map]
           /\ Proceed(h, [r EXCEPT !.at = "set", !.done = Disk, !.map = None, !.met = @ \/ stale # {}])
           /\ Apart({r.on}, stale)
  <2>1. PICK met \in BOOLEAN : met = (r.met \/ stale # {})
    BY DEF QuotaRequest
  <2>. DEFINE s == [r EXCEPT !.at = "set", !.done = Disk, !.map = None, !.met = met]
  <2>2. /\ s \in QuotaRequest /\ s.on = r.on /\ s.want = r.want /\ s.traffic = r.traffic
        /\ s.met = met /\ s.at = "set" /\ s.before = r.before /\ s.req = "quota"
        /\ s.done = Disk /\ s.old = r.old /\ s.map = None
    <3>1. Disk \in 0..3 /\ None \in Map \cup {None}
      BY <1>3
    <3>2. s \in QuotaRequest
      BY <3>1 DEF QuotaRequest
    <3>3. s.on = r.on /\ s.want = r.want /\ s.traffic = r.traffic /\ s.met = met
      BY <3>1 DEF QuotaRequest
    <3>4. s.at = "set" /\ s.before = r.before /\ s.req = r.req
      BY <3>1 DEF QuotaRequest
    <3>5. s.done = Disk /\ s.old = r.old /\ s.map = None
      BY <3>1 DEF QuotaRequest
    <3>. QED
      BY <1>2, <3>2, <3>3, <3>4, <3>5
  <2>3. Proceed(h, s)
    BY <1>7, <2>1
  <2>. HIDE DEF s
  <2>4. ShapeOf(s)
    BY <1>2, <2>2 DEF ShapeOf
  <2>5. StoresTyped' /\ Put(r.on, map)
    BY <1>1, <1>4, <1>5, <1>6, <1>7, Puts DEF StoresTyped
  <2>6. drift' \in [Containers -> SUBSET Aspects] /\ Noted(r.on, stale)
    BY <1>1, <1>7, StaleMeans, Notes
  <2>7. s \in Requests
    BY <2>2 DEF Requests
  <2>8. Typed' /\ Move(h, r, s)
    BY <1>1, <2>3, <2>4, <2>5, <2>6, <2>7, TypedNext, Proceeds DEF Move, Typed
  <2>9. Put(r.on, m) /\ Noted(r.on, Stale(h, r.on, m)) /\ s.met = (r.met \/ Stale(h, r.on, m) # {})
    BY <1>6, <2>1, <2>2, <2>5, <2>6
  <2>. QED
    BY <1>1, <1>2, <1>4, <1>5, <1>6, <2>2, <2>8, <2>9
<1>8. CASE Proceed(h, [r EXCEPT !.at = "undo", !.map = None]) /\ UNCHANGED <<device, drift>>
  <2>. DEFINE s == [r EXCEPT !.at = "undo", !.map = None]
  <2>2. /\ s \in QuotaRequest /\ SameAsk(r, s) /\ s.at = "undo" /\ s.before = r.before
        /\ s.done = r.done /\ s.old = r.old
    BY DEF QuotaRequest, SameAsk
  <2>3. Proceed(h, s)
    BY <1>8
  <2>. HIDE DEF s
  <2>4. ShapeOf(s)
    BY <1>1, <1>2, <2>2 DEF ShapeOf, SameAsk
  <2>5. s \in Requests /\ UNCHANGED Stores
    BY <1>5, <1>8, <2>2 DEF Requests, Stores
  <2>6. Typed' /\ Move(h, r, s)
    BY <1>1, <1>8, <2>3, <2>4, <2>5, StoresKept, TypedNext, Proceeds DEF Move, Typed
  <2>7. s.on = r.on /\ s.want = r.want /\ s.traffic = r.traffic
    BY <2>2 DEF SameAsk
  <2>. QED
    BY <1>1, <1>2, <1>5, <1>8, <2>2, <2>6, <2>7
<1>9. CASE /\ device' = [device EXCEPT ![r.on] = map]
           /\ Proceed(h, [r EXCEPT !.at = "undo", !.map = None])
           /\ Apart({r.on}, stale \cup {"quota"})
  <2>. DEFINE s == [r EXCEPT !.at = "undo", !.map = None]
  <2>2. /\ s \in QuotaRequest /\ SameAsk(r, s) /\ s.at = "undo" /\ s.before = r.before
        /\ s.done = r.done /\ s.old = r.old
    BY DEF QuotaRequest, SameAsk
  <2>3. Proceed(h, s)
    BY <1>9
  <2>. HIDE DEF s
  <2>4. ShapeOf(s)
    BY <1>1, <1>2, <2>2 DEF ShapeOf, SameAsk
  <2>5. StoresTyped' /\ Put(r.on, map)
    BY <1>1, <1>4, <1>5, <1>6, <1>9, Puts DEF StoresTyped
  <2>6. stale \cup {"quota"} \subseteq Aspects
    BY StaleMeans, <1>1 DEF Aspects
  <2>7. drift' \in [Containers -> SUBSET Aspects] /\ Noted(r.on, stale \cup {"quota"})
    BY <1>1, <1>9, <2>6, Notes
  <2>8. s \in Requests
    BY <2>2 DEF Requests
  <2>9. Typed' /\ Move(h, r, s)
    BY <1>1, <2>3, <2>4, <2>5, <2>7, <2>8, TypedNext, Proceeds DEF Move, Typed
  <2>10. Put(r.on, m) /\ Noted(r.on, Stale(h, r.on, m) \cup {"quota"})
    BY <1>6, <2>5, <2>7
  <2>11. s.on = r.on /\ s.want = r.want /\ s.traffic = r.traffic
    BY <2>2 DEF SameAsk
  <2>. QED
    BY <1>1, <1>2, <1>4, <1>5, <1>6, <2>2, <2>9, <2>10, <2>11
<1>. QED
  BY <1>5, <1>7, <1>8, <1>9

LEMMA SaveRowDoes ==
  ASSUME Typed, NEW h \in Handlers, SaveRow(h)
  PROVE  /\ Typed' /\ UNCHANGED <<config, device, power, machine, bridge, throttled>>
         /\ \E r \in QuotaRequest, s \in QuotaRequest \cup {None} :
              /\ Move(h, r, s) /\ r.at = "set"
              /\ \A i \in Resources : i > r.done => ~(r.want[i] > 0)
              /\ \A d \in Containers : d # r.on => row'[d] = row[d] /\ drift'[d] = drift[d]
              /\ row'[r.on].traffic = row[r.on].traffic
              /\ \/ /\ s = None /\ row'[r.on].quota = Applied(r)
                    /\ \/ drift'[r.on] = drift[r.on]
                       \/ drift'[r.on] = drift[r.on] \ {"traffic"}
                       \/ /\ \A k \in Resources : r.want[k] > 0
                          /\ ~r.met /\ drift'[r.on] = drift[r.on] \ {"quota", "traffic"}
                 \/ /\ s # None /\ SameAsk(r, s) /\ s.at = "undo" /\ s.done = r.done /\ s.old = r.old
                    /\ row' = row /\ drift' = drift
<1>1. PICK r \in QuotaRequest :
        /\ r = request[h] /\ r.at = "set" /\ ShapeOf(r) /\ r.on \in Containers /\ r.want \in Quota
        /\ StoresTyped /\ TypeOK /\ \A i \in Resources : r.want[i] \in Int
        /\ drift \in [Containers -> SUBSET Aspects] /\ row[r.on].traffic \in Nat
  BY ServingQuota DEF SaveRow
<1>2. /\ r.req = "quota" /\ r.before \in Nat /\ r.old \in Quota
      /\ r.want[Disk] > 0 => r.want[Disk] >= r.old[Disk]
  BY <1>1 DEF ShapeOf, QuotaRequest
<1>3. \A i \in Resources : i > r.done => ~(r.want[i] > 0)
  BY <1>1 DEF SaveRow, ToSet
<1>4. Applied(r) \in Quota
  <2>1. \A i \in Resources : r.old[i] \in Int /\ r.want[i] \in Int
    BY <1>1, <1>2 DEF Quota
  <2>. QED
    BY <2>1 DEF Applied, Quota
<1>. DEFINE Cleared == IF \A k \in Resources : r.want[k] > 0 THEN {"quota", "traffic"}
                       ELSE {"traffic"}
<1>5. /\ UNCHANGED <<config, device, power, machine, bridge, throttled>>
      /\ \/ /\ row' = [row EXCEPT ![r.on].quota = Applied(r)]
            /\ Proceed(h, None)
            /\ Together(h, r.on, Cleared)
         \/ Proceed(h, [r EXCEPT !.at = "undo"]) /\ UNCHANGED drift /\ UNCHANGED row
  BY <1>1, <1>2 DEF SaveRow, Goto, Touches
<1>6. CASE /\ row' = [row EXCEPT ![r.on].quota = Applied(r)]
           /\ Proceed(h, None)
           /\ Together(h, r.on, Cleared)
  <2>1. /\ row' \in [Containers -> RowType] /\ row'[r.on].quota = Applied(r)
        /\ row'[r.on].traffic = row[r.on].traffic
        /\ \A d \in Containers : d # r.on => row'[d] = row[d]
    <3>1. StoresTyped /\ r.on \in Containers
      BY <1>1
    <3>2. row' = [row EXCEPT ![r.on].quota = Applied(r)]
      BY <1>6
    <3>. QED
      BY <1>4, <3>1, <3>2, RowUpdates
  <2>2. StoresTyped'
    BY <1>1, <1>5, <2>1 DEF StoresTyped, RowType
  <2>3. drift' \in [Containers -> SUBSET Aspects]
    BY <1>1, <1>6, DriftTypes
  <2>4. /\ \A d \in Containers : d # r.on => drift'[d] = drift[d]
        /\ drift'[r.on] = IF r.met THEN drift[r.on] ELSE drift[r.on] \ Cleared
    <3>1. PICK as : as = Cleared
      OBVIOUS
    <3>2. Together(h, r.on, as)
      BY <1>6, <3>1
    <3>3. /\ \A d \in Containers : d # r.on => drift'[d] = drift[d]
          /\ drift'[r.on] = IF request[h].met THEN drift[r.on] ELSE drift[r.on] \ as
      <4>1. TypeOK /\ r.on \in Containers /\ drift \in [Containers -> SUBSET Aspects]
        BY <1>1
      <4>. QED
        BY <3>2, <4>1 DEF Together
    <3>. QED
      BY <1>1, <3>1, <3>3
  <2>5. Typed' /\ Move(h, r, None)
    BY <1>1, <1>6, <2>2, <2>3, TypedNext, Proceeds DEF Move, Typed
  <2>. QED
    BY <1>1, <1>3, <1>5, <2>1, <2>4, <2>5
<1>7. CASE Proceed(h, [r EXCEPT !.at = "undo"]) /\ UNCHANGED drift /\ UNCHANGED row
  <2>. DEFINE s == [r EXCEPT !.at = "undo"]
  <2>2. /\ s \in QuotaRequest /\ SameAsk(r, s) /\ s.at = "undo" /\ s.before = r.before
        /\ s.done = r.done /\ s.old = r.old
    BY DEF QuotaRequest, SameAsk
  <2>3. Proceed(h, s)
    BY <1>7
  <2>. HIDE DEF s
  <2>4. ShapeOf(s)
    BY <1>1, <1>2, <2>2 DEF ShapeOf, SameAsk
  <2>5. s \in Requests /\ UNCHANGED Stores /\ s # None
    BY <1>5, <1>7, <2>2, RequestKind DEF Requests, Stores
  <2>6. Typed' /\ Move(h, r, s)
    BY <1>1, <1>7, <2>3, <2>4, <2>5, StoresKept, TypedNext, Proceeds DEF Move, Typed
  <2>. QED
    BY <1>1, <1>3, <1>5, <1>7, <2>2, <2>5, <2>6
<1>. QED
  BY <1>5, <1>6, <1>7

LEMMA UndoDoes ==
  ASSUME Typed, NEW h \in Handlers, Undo(h)
  PROVE  /\ Typed' /\ UNCHANGED <<row, device, power, machine, bridge, throttled>>
         /\ \E r, s \in QuotaRequest, k \in Resources :
              /\ Move(h, r, s) /\ SameAsk(r, s)
              /\ r.at = "undo" /\ s.old = r.old
              /\ k <= r.done /\ r.want[k] > 0
              /\ \A i \in Resources : i <= r.done /\ i > k => ~(r.want[i] > 0)
              /\ \/ /\ k \in {Cpu, Mem} /\ s.at = "undo" /\ s.done = k - 1
                    /\ Wrote(r.on, k, r.old[k]) /\ drift' = drift
                 \/ /\ k = Disk /\ s.at = "unpatch" /\ s.done = r.done /\ s.map = device[r.on]
                    /\ config' = config /\ drift' = drift
                 \/ /\ s.at = "undo" /\ s.done = k - 1
                    /\ config' = config /\ Noted(r.on, {"quota"})
                 \/ /\ k \in {Cpu, Mem} /\ s.at = "undo" /\ s.done = k - 1
                    /\ Wrote(r.on, k, r.old[k]) /\ Noted(r.on, {"quota"})
<1>1. PICK r \in QuotaRequest :
        /\ r = request[h] /\ r.at = "undo" /\ ShapeOf(r) /\ r.on \in Containers /\ r.want \in Quota
        /\ device[r.on] \in Map /\ StoresTyped /\ TypeOK /\ \A i \in Resources : r.want[i] \in Int
        /\ drift \in [Containers -> SUBSET Aspects]
  BY ServingQuota DEF Undo
<1>2. PICK k : k = Greatest(ToUndo(r))
  OBVIOUS
<1>3. ToUndo(r) # {}
  BY <1>1 DEF Undo
<1>4. /\ k \in Resources /\ k <= r.done /\ r.want[k] > 0
      /\ \A i \in Resources : i <= r.done /\ i > k => ~(r.want[i] > 0)
  BY <1>2, <1>3, NextResource
<1>5. /\ UNCHANGED <<row, device, power, machine, bridge, throttled>>
      /\ \/ /\ k # Disk
            /\ PatchConfig(r.on, k, r.old[k])
            /\ Proceed(h, [r EXCEPT !.done = k - 1])
            /\ UNCHANGED drift
         \/ /\ k = Disk
            /\ Proceed(h, [r EXCEPT !.at = "unpatch", !.map = device[r.on]])
            /\ UNCHANGED <<config, drift>>
         \/ /\ Proceed(h, [r EXCEPT !.done = k - 1])
            /\ Apart({r.on}, {"quota"})
            /\ UNCHANGED config
         \/ /\ k # Disk
            /\ PatchConfig(r.on, k, r.old[k])
            /\ Proceed(h, [r EXCEPT !.done = k - 1])
            /\ Apart({r.on}, {"quota"})
  BY <1>1, <1>2 DEF Undo
<1>6. r.req = "quota" /\ r.before \in Nat /\ r.old \in Quota /\ r.done \in 0..3
  BY <1>1 DEF ShapeOf, QuotaRequest
<1>7. Resources = {Cpu, Mem, Disk} /\ Cpu = 1 /\ Mem = 2 /\ Disk = 3
  BY DEF Resources, Cpu, Mem, Disk
<1>8. PICK below \in 0..3 : below = k - 1
  BY <1>4, <1>7
<1>. DEFINE s == [r EXCEPT !.done = below]
<1>9. /\ s \in QuotaRequest /\ SameAsk(r, s) /\ s.at = r.at /\ s.before = r.before
      /\ s.done = below /\ s.old = r.old
  BY DEF QuotaRequest, SameAsk
<1>10. ShapeOf(s)
  BY <1>1, <1>6, <1>9 DEF ShapeOf, SameAsk
<1>11. s \in Requests
  BY <1>9 DEF Requests
<1>12. CASE /\ k # Disk /\ PatchConfig(r.on, k, r.old[k])
            /\ Proceed(h, [r EXCEPT !.done = k - 1]) /\ UNCHANGED drift
  <2>1. k \in {Cpu, Mem} /\ r.old[k] \in Int
    BY <1>4, <1>6, <1>7, <1>12 DEF Quota
  <2>2. Proceed(h, s)
    BY <1>8, <1>12
  <2>3. StoresTyped' /\ Wrote(r.on, k, r.old[k])
    BY <1>1, <1>5, <1>12, <2>1, Writes
  <2>. HIDE DEF s
  <2>4. Typed' /\ Move(h, r, s)
    BY <1>1, <1>10, <1>11, <1>12, <2>2, <2>3, TypedNext, Proceeds DEF Move, Typed
  <2>. QED
    BY <1>1, <1>4, <1>5, <1>8, <1>9, <1>12, <2>1, <2>3, <2>4
<1>13. CASE /\ k = Disk
            /\ Proceed(h, [r EXCEPT !.at = "unpatch", !.map = device[r.on]])
            /\ UNCHANGED <<config, drift>>
  <2>1. PICK map \in Map : map = device[r.on]
    BY <1>1
  <2>. DEFINE n == [r EXCEPT !.at = "unpatch", !.map = map]
  <2>2. /\ n \in QuotaRequest /\ SameAsk(r, n) /\ n.at = "unpatch" /\ n.before = r.before
        /\ n.done = r.done /\ n.old = r.old /\ n.map = map
    BY DEF QuotaRequest, SameAsk
  <2>3. Proceed(h, n)
    BY <1>13, <2>1
  <2>. HIDE DEF n
  <2>4. r.done = Disk
    BY <1>4, <1>6, <1>7, <1>13
  <2>5. ShapeOf(n)
    BY <1>1, <1>4, <1>6, <1>13, <2>2, <2>4 DEF ShapeOf, SameAsk
  <2>6. n \in Requests /\ UNCHANGED Stores
    BY <1>5, <1>13, <2>2 DEF Requests, Stores
  <2>7. Typed' /\ Move(h, r, n)
    BY <1>1, <1>13, <2>3, <2>5, <2>6, StoresKept, TypedNext, Proceeds DEF Move, Typed
  <2>. QED
    BY <1>1, <1>4, <1>5, <1>13, <2>1, <2>2, <2>7
<1>14. CASE /\ Proceed(h, [r EXCEPT !.done = k - 1]) /\ Apart({r.on}, {"quota"})
            /\ UNCHANGED config
  <2>1. Proceed(h, s) /\ UNCHANGED Stores
    BY <1>5, <1>8, <1>14 DEF Stores
  <2>2. drift' \in [Containers -> SUBSET Aspects] /\ Noted(r.on, {"quota"})
    BY <1>1, <1>14, Notes DEF Aspects
  <2>. HIDE DEF s
  <2>3. Typed' /\ Move(h, r, s)
    BY <1>1, <1>10, <1>11, <2>1, <2>2, StoresKept, TypedNext, Proceeds DEF Move, Typed
  <2>. QED
    BY <1>1, <1>4, <1>5, <1>8, <1>9, <1>14, <2>2, <2>3
<1>15. CASE /\ k # Disk /\ PatchConfig(r.on, k, r.old[k])
            /\ Proceed(h, [r EXCEPT !.done = k - 1]) /\ Apart({r.on}, {"quota"})
  <2>1. k \in {Cpu, Mem} /\ r.old[k] \in Int
    BY <1>4, <1>6, <1>7, <1>15 DEF Quota
  <2>2. Proceed(h, s)
    BY <1>8, <1>15
  <2>3. StoresTyped' /\ Wrote(r.on, k, r.old[k])
    BY <1>1, <1>5, <1>15, <2>1, Writes
  <2>4. drift' \in [Containers -> SUBSET Aspects] /\ Noted(r.on, {"quota"})
    BY <1>1, <1>15, Notes DEF Aspects
  <2>. HIDE DEF s
  <2>5. Typed' /\ Move(h, r, s)
    BY <1>1, <1>10, <1>11, <2>2, <2>3, <2>4, TypedNext, Proceeds DEF Move, Typed
  <2>. QED
    BY <1>1, <1>4, <1>5, <1>8, <1>9, <2>1, <2>3, <2>4, <2>5
<1>. QED
  BY <1>5, <1>12, <1>13, <1>14, <1>15

LEMMA UnpatchDiskDoes ==
  ASSUME Typed, NEW h \in Handlers, UnpatchDisk(h)
  PROVE  /\ Typed' /\ UNCHANGED <<row, config, power, machine, bridge, throttled>>
         /\ \E r, s \in QuotaRequest :
              /\ Move(h, r, s) /\ SameAsk(r, s)
              /\ r.at = "unpatch" /\ s.old = r.old /\ r.done = Disk
              /\ s.at = "undo" /\ s.done = Disk - 1
              /\ \/ \E map \in Map :
                      /\ map.disk = r.old[Disk] /\ map.limit = r.map.limit
                      /\ Put(r.on, map)
                      /\ \E more \in SUBSET {"quota"} : Noted(r.on, Stale(h, r.on, map) \cup more)
                 \/ device' = device /\ Noted(r.on, {"quota"})
<1>1. PICK r \in QuotaRequest :
        /\ r = request[h] /\ r.at = "unpatch" /\ ShapeOf(r) /\ r.on \in Containers
        /\ StoresTyped /\ TypeOK /\ drift \in [Containers -> SUBSET Aspects]
  BY ServingQuota DEF UnpatchDisk
<1>2. /\ r.req = "quota" /\ r.before \in Nat /\ r.old \in Quota /\ r.map \in Map /\ r.done = Disk
  BY <1>1 DEF ShapeOf, QuotaRequest
<1>3. Disk = 3 /\ Disk \in Resources /\ r.old[Disk] \in Int
  BY <1>2 DEF Resources, Cpu, Mem, Disk, Quota
<1>. DEFINE map == [r.map EXCEPT !.disk = r.old[Disk]]
<1>4. map \in Map /\ map.disk = r.old[Disk] /\ map.limit = r.map.limit
  BY <1>2, <1>3, MapUpdates
<1>5. /\ UNCHANGED <<row, config, power, machine, bridge, throttled>>
      /\ Proceed(h, [r EXCEPT !.at = "undo", !.done = Disk - 1, !.map = None])
      /\ \/ /\ device' = [device EXCEPT ![r.on] = map]
            /\ \/ Apart({r.on}, Stale(h, r.on, map))
               \/ Apart({r.on}, Stale(h, r.on, map) \cup {"quota"})
         \/ Apart({r.on}, {"quota"}) /\ UNCHANGED device
  BY <1>1 DEF UnpatchDisk
<1>. HIDE DEF map
<1>6. PICK m \in Map : m = map
  BY <1>4
<1>7. PICK below \in 0..3 : below = Disk - 1
  BY <1>3
<1>. DEFINE s == [r EXCEPT !.at = "undo", !.done = below, !.map = None]
<1>8. s \in QuotaRequest /\ SameAsk(r, s) /\ s.at = "undo" /\ s.before = r.before
  BY DEF QuotaRequest, SameAsk
<1>9. s.done = below /\ s.old = r.old
  BY DEF QuotaRequest
<1>10. Proceed(h, s)
  BY <1>5, <1>7
<1>. HIDE DEF s
<1>11. ShapeOf(s) /\ s \in Requests
  BY <1>1, <1>2, <1>8, <1>9 DEF ShapeOf, SameAsk, Requests
<1>12. CASE /\ device' = [device EXCEPT ![r.on] = map]
            /\ \/ Apart({r.on}, Stale(h, r.on, map))
               \/ Apart({r.on}, Stale(h, r.on, map) \cup {"quota"})
  <2>1. StoresTyped' /\ Put(r.on, map)
    BY <1>1, <1>4, <1>5, <1>6, <1>12, Puts DEF StoresTyped
  <2>0. PICK more \in SUBSET {"quota"} : Apart({r.on}, Stale(h, r.on, map) \cup more)
    <3>1. Stale(h, r.on, map) \cup {} = Stale(h, r.on, map)
      OBVIOUS
    <3>. QED
      BY <1>12, <3>1
  <2>5. Stale(h, r.on, map) \cup more \subseteq Aspects
    BY <1>1, StaleMeans DEF Aspects
  <2>2. drift' \in [Containers -> SUBSET Aspects] /\ Noted(r.on, Stale(h, r.on, map) \cup more)
    BY <1>1, <2>0, <2>5, Notes
  <2>3. Typed' /\ Move(h, r, s)
    BY <1>1, <1>10, <1>11, <2>1, <2>2, TypedNext, Proceeds DEF Move, Typed
  <2>4. Put(r.on, m) /\ Noted(r.on, Stale(h, r.on, m) \cup more)
    BY <1>6, <2>1, <2>2
  <2>. QED
    BY <1>1, <1>2, <1>4, <1>5, <1>6, <1>7, <1>8, <1>9, <2>3, <2>4
<1>13. CASE Apart({r.on}, {"quota"}) /\ UNCHANGED device
  <2>1. UNCHANGED Stores
    BY <1>5, <1>13 DEF Stores
  <2>2. drift' \in [Containers -> SUBSET Aspects] /\ Noted(r.on, {"quota"})
    BY <1>1, <1>13, Notes DEF Aspects
  <2>3. Typed' /\ Move(h, r, s)
    BY <1>1, <1>10, <1>11, <2>1, <2>2, StoresKept, TypedNext, Proceeds DEF Move, Typed
  <2>. QED
    BY <1>1, <1>2, <1>5, <1>7, <1>8, <1>9, <1>13, <2>2, <2>3
<1>. QED
  BY <1>5, <1>12, <1>13

LEMMA UndoneDoes ==
  ASSUME Typed, NEW h \in Handlers, Undone(h)
  PROVE  /\ Typed' /\ UNCHANGED Stores /\ UNCHANGED drift
         /\ \E r, s \in QuotaRequest :
              /\ Move(h, r, s) /\ SameAsk(r, s)
              /\ r.at = "undo" /\ s.at = "restore"
              /\ \A i \in Resources : i <= r.done => ~(r.want[i] > 0)
<1>1. PICK r \in QuotaRequest :
        /\ r = request[h] /\ r.at = "undo" /\ ShapeOf(r) /\ StoresTyped /\ TypeOK
        /\ drift \in [Containers -> SUBSET Aspects]
  BY ServingQuota DEF Undone
<1>2. r.req = "quota" /\ r.before \in Nat /\ \A i \in Resources : i <= r.done => ~(r.want[i] > 0)
  BY <1>1 DEF ShapeOf, QuotaRequest, Undone, ToUndo
<1>. DEFINE s == [r EXCEPT !.at = "restore"]
<1>3. s \in QuotaRequest /\ SameAsk(r, s) /\ s.at = "restore" /\ s.before = r.before
  BY DEF QuotaRequest, SameAsk
<1>4. Proceed(h, s) /\ UNCHANGED Stores /\ UNCHANGED drift
  BY <1>1 DEF Undone, Goto, Stores
<1>. HIDE DEF s
<1>5. ShapeOf(s) /\ s \in Requests
  BY <1>1, <1>2, <1>3 DEF ShapeOf, SameAsk, Requests
<1>6. Typed' /\ Move(h, r, s)
  BY <1>1, <1>4, <1>5, StoresKept, TypedNext, Proceeds DEF Move, Typed
<1>. QED
  BY <1>1, <1>2, <1>3, <1>4, <1>6

LEMMA RestoreTrafficDoes ==
  ASSUME Typed, NEW h \in Handlers, RestoreTraffic(h)
  PROVE  /\ Typed' /\ UNCHANGED <<config, device, power, machine, bridge, throttled>>
         /\ \E r \in QuotaRequest :
              /\ Move(h, r, None) /\ r.at = "restore" /\ r.before \in Nat
              /\ \/ /\ row'[r.on].traffic = r.before /\ row'[r.on].quota = row[r.on].quota
                    /\ \A d \in Containers : d # r.on => row'[d] = row[d]
                    /\ drift' = drift
                 \/ row' = row /\ Noted(r.on, {"traffic"})
<1>1. PICK r \in QuotaRequest :
        /\ r = request[h] /\ r.at = "restore" /\ ShapeOf(r) /\ r.on \in Containers
        /\ StoresTyped /\ TypeOK /\ drift \in [Containers -> SUBSET Aspects]
  BY ServingQuota DEF RestoreTraffic
<1>2. r.req = "quota" /\ r.before \in Nat
  BY <1>1 DEF ShapeOf, QuotaRequest
<1>3. /\ UNCHANGED <<config, device, power, machine, bridge, throttled>> /\ Proceed(h, None)
      /\ \/ row' = [row EXCEPT ![r.on].traffic = r.before] /\ UNCHANGED drift
         \/ Apart({r.on}, {"traffic"}) /\ UNCHANGED row
  BY <1>1, <1>2 DEF RestoreTraffic, Finish
<1>4. CASE row' = [row EXCEPT ![r.on].traffic = r.before] /\ UNCHANGED drift
  <2>1. /\ row' \in [Containers -> RowType]
        /\ row'[r.on].traffic = r.before /\ row'[r.on].quota = row[r.on].quota
        /\ \A d \in Containers : d # r.on => row'[d] = row[d]
    BY <1>1, <1>2, <1>4, RowUpdates
  <2>2. StoresTyped'
    BY <1>1, <1>3, <2>1 DEF StoresTyped, RowType
  <2>3. Typed' /\ Move(h, r, None)
    BY <1>1, <1>3, <1>4, <2>2, TypedNext, Proceeds DEF Move, Typed
  <2>. QED
    BY <1>1, <1>2, <1>3, <1>4, <2>1, <2>3
<1>5. CASE Apart({r.on}, {"traffic"}) /\ UNCHANGED row
  <2>1. UNCHANGED Stores
    BY <1>3, <1>5 DEF Stores
  <2>2. drift' \in [Containers -> SUBSET Aspects] /\ Noted(r.on, {"traffic"})
    BY <1>1, <1>5, Notes DEF Aspects
  <2>3. Typed' /\ Move(h, r, None)
    BY <1>1, <1>3, <2>1, <2>2, StoresKept, TypedNext, Proceeds DEF Move, Typed
  <2>. QED
    BY <1>1, <1>2, <1>3, <1>5, <2>2, <2>3
<1>. QED
  BY <1>3, <1>4, <1>5

-----------------------------------------------------------------------------
(* The limiter, the device options and the power requests, likewise.       *)

PowerType == [running : BOOLEAN, autostart : BOOLEAN, asked : BOOLEAN]
Powered(c, p) == power'[c] = p /\ \A d \in Containers : d # c => power'[d] = power[d]
LEMMA PowerUpdates ==
  ASSUME Typed, NEW c \in Containers
  PROVE  /\ power[c] \in PowerType
         /\ \A b \in BOOLEAN : power' = [power EXCEPT ![c].running = b] =>
              \E p \in PowerType : /\ p.running = b /\ p.autostart = power[c].autostart
                                   /\ p.asked = power[c].asked /\ Powered(c, p)
                                   /\ power' \in [Containers -> PowerType]
         /\ \A b \in BOOLEAN : power' = [power EXCEPT ![c].autostart = b] =>
              \E p \in PowerType : /\ p.running = power[c].running /\ p.autostart = b
                                   /\ p.asked = power[c].asked /\ Powered(c, p)
                                   /\ power' \in [Containers -> PowerType]
         /\ \A b \in BOOLEAN : power' = [power EXCEPT ![c].asked = b] =>
              \E p \in PowerType : /\ p.running = power[c].running
                                   /\ p.autostart = power[c].autostart
                                   /\ p.asked = b /\ Powered(c, p)
                                   /\ power' \in [Containers -> PowerType]
<1>1. power \in [Containers -> PowerType]
  BY DEF Typed, TypeOK, PowerType
<1>2. PICK p \in PowerType : p = power[c]
  BY <1>1
<1>3. ASSUME NEW b \in BOOLEAN, power' = [power EXCEPT ![c].running = b]
      PROVE  \E q \in PowerType : /\ q.running = b /\ q.autostart = p.autostart
                                  /\ q.asked = p.asked /\ Powered(c, q)
                                  /\ power' \in [Containers -> PowerType]
  <2>. DEFINE q == [p EXCEPT !.running = b]
  <2>1. q \in PowerType /\ q.running = b /\ q.autostart = p.autostart /\ q.asked = p.asked
    BY DEF PowerType
  <2>2. power' = [power EXCEPT ![c] = q]
    BY <1>1, <1>2, <1>3
  <2>. HIDE DEF q
  <2>3. Powered(c, q) /\ power' \in [Containers -> PowerType]
    BY <1>1, <2>1, <2>2 DEF Powered
  <2>. QED
    BY <2>1, <2>3
<1>4. ASSUME NEW b \in BOOLEAN, power' = [power EXCEPT ![c].autostart = b]
      PROVE  \E q \in PowerType : /\ q.running = p.running /\ q.autostart = b
                                  /\ q.asked = p.asked /\ Powered(c, q)
                                  /\ power' \in [Containers -> PowerType]
  <2>. DEFINE q == [p EXCEPT !.autostart = b]
  <2>1. q \in PowerType /\ q.running = p.running /\ q.autostart = b /\ q.asked = p.asked
    BY DEF PowerType
  <2>2. power' = [power EXCEPT ![c] = q]
    BY <1>1, <1>2, <1>4
  <2>. HIDE DEF q
  <2>3. Powered(c, q) /\ power' \in [Containers -> PowerType]
    BY <1>1, <2>1, <2>2 DEF Powered
  <2>. QED
    BY <2>1, <2>3
<1>5. ASSUME NEW b \in BOOLEAN, power' = [power EXCEPT ![c].asked = b]
      PROVE  \E q \in PowerType : /\ q.running = p.running /\ q.autostart = p.autostart
                                  /\ q.asked = b /\ Powered(c, q)
                                  /\ power' \in [Containers -> PowerType]
  <2>. DEFINE q == [p EXCEPT !.asked = b]
  <2>1. q \in PowerType /\ q.running = p.running /\ q.autostart = p.autostart /\ q.asked = b
    BY DEF PowerType
  <2>2. power' = [power EXCEPT ![c] = q]
    BY <1>1, <1>2, <1>5
  <2>. HIDE DEF q
  <2>3. Powered(c, q) /\ power' \in [Containers -> PowerType]
    BY <1>1, <2>1, <2>2 DEF Powered
  <2>. QED
    BY <2>1, <2>3
<1>. QED
  BY <1>2, <1>3, <1>4, <1>5

LEMMA PatchLimitDoes ==
  ASSUME Typed, NEW h \in Handlers, PatchLimit(h)
  PROVE  /\ Typed' /\ UNCHANGED <<row, config, power, machine, bridge>>
         /\ \E r \in LimitRequest :
              /\ Move(h, r, None)
              /\ \/ \E map \in Map :
                      /\ map.limit = (r.on \notin throttled) /\ map.disk = r.map.disk
                      /\ Put(r.on, map)
                      /\ throttled' = IF r.on \notin throttled THEN throttled \cup {r.on}
                                      ELSE throttled \ {r.on}
                      /\ drift'[r.on] = (drift[r.on] \ {"limit"}) \cup Stale(h, r.on, map)
                      /\ \A d \in Containers : d # r.on => drift'[d] = drift[d]
                 \/ UNCHANGED <<device, throttled, drift>>
                 \/ \E map \in Map :
                      /\ map.disk = r.map.disk /\ Put(r.on, map) /\ throttled' = throttled
                      /\ Noted(r.on, Stale(h, r.on, map) \cup {"limit"})
<1>1. PICK r \in LimitRequest : r = request[h]
  BY Serving, RequestKind DEF PatchLimit, Typed
<1>2. /\ StoresTyped /\ TypeOK /\ drift \in [Containers -> SUBSET Aspects]
      /\ r.on \in Containers /\ r.map \in Map
  BY TypeParts DEF Typed, LimitRequest
<1>3. PICK on \in BOOLEAN : on = (r.on \notin throttled)
  OBVIOUS
<1>. DEFINE map == [r.map EXCEPT !.limit = on]
<1>4. map \in Map /\ map.limit = on /\ map.disk = r.map.disk
  BY <1>2, MapUpdates
<1>5. /\ UNCHANGED <<row, config, power, machine, bridge>> /\ Proceed(h, None)
      /\ \/ /\ device' = [device EXCEPT ![r.on] = map]
            /\ throttled' = IF on THEN throttled \cup {r.on} ELSE throttled \ {r.on}
            /\ drift' = [drift EXCEPT ![r.on] = (@ \ {"limit"}) \cup Stale(h, r.on, map)]
         \/ UNCHANGED <<device, throttled, drift>>
         \/ /\ device' = [device EXCEPT ![r.on] = map]
            /\ Apart({r.on}, Stale(h, r.on, map) \cup {"limit"})
            /\ throttled' = throttled
  BY <1>1, <1>3 DEF PatchLimit
<1>. HIDE DEF map
<1>6. PICK m \in Map : m = map
  BY <1>4
<1>7. CASE /\ device' = [device EXCEPT ![r.on] = map]
           /\ throttled' = IF on THEN throttled \cup {r.on} ELSE throttled \ {r.on}
           /\ drift' = [drift EXCEPT ![r.on] = (@ \ {"limit"}) \cup Stale(h, r.on, map)]
  <2>1. throttled' \subseteq Containers
    BY <1>2, <1>7 DEF StoresTyped
  <2>2. StoresTyped' /\ Put(r.on, map)
    BY <1>2, <1>4, <1>5, <1>6, <1>7, <2>1, Puts DEF StoresTyped
  <2>3. Stale(h, r.on, map) \subseteq Aspects
    BY <1>2, StaleMeans
  <2>4. /\ drift' \in [Containers -> SUBSET Aspects]
        /\ drift'[r.on] = (drift[r.on] \ {"limit"}) \cup Stale(h, r.on, map)
        /\ \A d \in Containers : d # r.on => drift'[d] = drift[d]
    BY <1>2, <1>7, <2>3
  <2>5. Typed' /\ Move(h, r, None)
    BY <1>1, <1>2, <1>5, <2>2, <2>4, TypedNext, Proceeds DEF Move, Typed
  <2>6. /\ Put(r.on, m) /\ drift'[r.on] = (drift[r.on] \ {"limit"}) \cup Stale(h, r.on, m)
        /\ throttled' = IF r.on \notin throttled THEN throttled \cup {r.on} ELSE throttled \ {r.on}
        /\ m.limit = (r.on \notin throttled) /\ m.disk = r.map.disk
    BY <1>3, <1>4, <1>6, <1>7, <2>2, <2>4
  <2>. QED
    BY <1>5, <2>4, <2>5, <2>6
<1>8. CASE UNCHANGED <<device, throttled, drift>>
  <2>1. UNCHANGED Stores
    BY <1>5, <1>8 DEF Stores
  <2>2. Typed' /\ Move(h, r, None)
    BY <1>1, <1>2, <1>5, <1>8, <2>1, StoresKept, TypedNext, Proceeds DEF Move, Typed
  <2>. QED
    BY <1>5, <1>8, <2>2
<1>9. CASE /\ device' = [device EXCEPT ![r.on] = map]
           /\ Apart({r.on}, Stale(h, r.on, map) \cup {"limit"})
           /\ throttled' = throttled
  <2>1. throttled' \subseteq Containers
    BY <1>2, <1>9 DEF StoresTyped
  <2>2. StoresTyped' /\ Put(r.on, map)
    BY <1>2, <1>4, <1>5, <1>6, <1>9, <2>1, Puts DEF StoresTyped
  <2>3. Stale(h, r.on, map) \cup {"limit"} \subseteq Aspects
    BY <1>2, StaleMeans DEF Aspects
  <2>4. /\ drift' \in [Containers -> SUBSET Aspects]
        /\ Noted(r.on, Stale(h, r.on, map) \cup {"limit"})
    BY <1>2, <1>9, <2>3, Notes
  <2>5. Typed' /\ Move(h, r, None)
    BY <1>1, <1>2, <1>5, <2>2, <2>4, TypedNext, Proceeds DEF Move, Typed
  <2>6. Put(r.on, m) /\ Noted(r.on, Stale(h, r.on, m) \cup {"limit"}) /\ m.disk = r.map.disk
    BY <1>4, <1>6, <2>2, <2>4
  <2>. QED
    BY <1>5, <1>9, <2>5, <2>6
<1>. QED
  BY <1>5, <1>7, <1>8, <1>9

(* A call that changes the power of one container, as far as it goes.      *)
Touched(c) ==
  power' \in [Containers -> PowerType] /\ \A d \in Containers : d # c => power'[d] = power[d]
LEMMA Touching ==
  ASSUME Typed, NEW c \in Containers
  PROVE  /\ power' = power => Touched(c)
         /\ \A b \in BOOLEAN : power' = [power EXCEPT ![c].running = b] => Touched(c)
         /\ \A b \in BOOLEAN : power' = [power EXCEPT ![c].autostart = b] => Touched(c)
<1>1. power \in [Containers -> PowerType]
  BY DEF Typed, TypeOK, PowerType
<1>2. power' = power => Touched(c)
  BY <1>1 DEF Touched
<1>3. \A b \in BOOLEAN : power' = [power EXCEPT ![c].running = b] => Touched(c)
  BY PowerUpdates DEF Touched, Powered
<1>4. \A b \in BOOLEAN : power' = [power EXCEPT ![c].autostart = b] => Touched(c)
  BY PowerUpdates DEF Touched, Powered
<1>. QED
  BY <1>2, <1>3, <1>4

(* A request on a container's power that gives up, whatever became of it.  *)
LEMMA PowerFails ==
  ASSUME Typed, NEW h \in Handlers, NEW r \in HardenRequest \cup PowerRequest, r = request[h],
         UNCHANGED <<row, config, device, machine, bridge, throttled>>, GiveUp(h), Touched(r.on)
  PROVE  /\ Typed' /\ Move(h, r, None) /\ Noted(r.on, {"power"})
         /\ \A d \in Containers : d # r.on => power'[d] = power[d]
<1>1. /\ StoresTyped /\ TypeOK /\ Shape /\ drift \in [Containers -> SUBSET Aspects]
      /\ r.on \in Containers /\ r.req \in {"harden", "power"}
  BY TypeParts DEF Typed, HardenRequest, PowerRequest
<1>2. Proceed(h, None) /\ Apart({r.on}, {"power"})
  BY <1>1 DEF GiveUp, Reach, Touches
<1>3. drift' \in [Containers -> SUBSET Aspects] /\ Noted(r.on, {"power"})
  BY <1>1, <1>2, Notes DEF Aspects
<1>4. StoresTyped'
  BY <1>1 DEF StoresTyped, PowerType, Touched
<1>5. Typed' /\ Move(h, r, None)
  BY <1>1, <1>2, <1>3, <1>4, TypedNext, Proceeds DEF Move
<1>. QED
  BY <1>3, <1>5 DEF Touched

(* The next call of a hardening.                                           *)
SameHarden(r, s) ==
  s.on = r.on /\ s.met = r.met /\ s.map = r.map /\ s.wasRunning = r.wasRunning /\ s.req = r.req

LEMMA HardenStopDoes ==
  ASSUME Typed, NEW h \in Handlers, HardenStop(h)
  PROVE  /\ Typed' /\ UNCHANGED <<row, config, device, machine, bridge, throttled>>
         /\ \E r \in HardenRequest, s \in HardenRequest \cup {None} :
              /\ Move(h, r, s) /\ r.at = "stop" /\ r.wasRunning
              /\ \/ /\ s # None /\ s.at = "patch" /\ SameHarden(r, s) /\ drift' = drift
                    /\ \E p \in PowerType :
                         /\ ~p.running /\ p.autostart = power[r.on].autostart
                         /\ p.asked = power[r.on].asked /\ Powered(r.on, p)
                 \/ s = None /\ power' = power /\ drift' = drift
                 \/ /\ s = None /\ Noted(r.on, {"power"})
                    /\ \A d \in Containers : d # r.on => power'[d] = power[d]
<1>1. PICK r \in HardenRequest : r = request[h] /\ r.at = "stop" /\ ShapeOf(r)
  BY Serving, RequestKind DEF HardenStop, Typed
<1>2. /\ StoresTyped /\ TypeOK /\ drift \in [Containers -> SUBSET Aspects]
      /\ r.on \in Containers /\ r.req = "harden" /\ r.wasRunning
  BY <1>1, TypeParts DEF Typed, HardenRequest, ShapeOf
<1>. DEFINE s == [r EXCEPT !.at = "patch"]
<1>3. s \in HardenRequest /\ SameHarden(r, s) /\ s.at = "patch"
  BY DEF HardenRequest, SameHarden
<1>4. /\ UNCHANGED <<row, config, device, machine, bridge, throttled>>
      /\ \/ power' = [power EXCEPT ![r.on].running = FALSE] /\ Proceed(h, s) /\ drift' = drift
         \/ power' = power /\ Proceed(h, None) /\ drift' = drift
         \/ power' = [power EXCEPT ![r.on].running = FALSE] /\ GiveUp(h)
  BY <1>1 DEF HardenStop, Goto, Finish
<1>. HIDE DEF s
<1>5. ShapeOf(s) /\ s \in Requests /\ s # None
  BY <1>2, <1>3, RequestKind DEF ShapeOf, SameHarden, Requests
<1>6. CASE power' = [power EXCEPT ![r.on].running = FALSE] /\ Proceed(h, s) /\ drift' = drift
  <2>1. PICK p \in PowerType : /\ ~p.running /\ p.autostart = power[r.on].autostart
                               /\ p.asked = power[r.on].asked /\ Powered(r.on, p)
                               /\ power' \in [Containers -> PowerType]
    BY <1>2, <1>6, PowerUpdates
  <2>2. StoresTyped'
    BY <1>2, <1>4, <2>1 DEF StoresTyped, PowerType
  <2>3. Typed' /\ Move(h, r, s)
    BY <1>1, <1>2, <1>4, <1>5, <1>6, <2>2, TypedNext, Proceeds DEF Move, Typed
  <2>. QED
    BY <1>1, <1>2, <1>3, <1>4, <1>5, <1>6, <2>1, <2>3
<1>7. CASE power' = power /\ Proceed(h, None) /\ drift' = drift
  <2>1. UNCHANGED Stores
    BY <1>4, <1>7 DEF Stores
  <2>2. Typed' /\ Move(h, r, None)
    BY <1>1, <1>2, <1>4, <1>7, <2>1, StoresKept, TypedNext, Proceeds DEF Move, Typed
  <2>. QED
    BY <1>1, <1>2, <1>4, <1>7, <2>2
<1>8. CASE power' = [power EXCEPT ![r.on].running = FALSE] /\ GiveUp(h)
  <2>1. /\ Typed' /\ Move(h, r, None) /\ Noted(r.on, {"power"})
        /\ \A d \in Containers : d # r.on => power'[d] = power[d]
    BY <1>1, <1>2, <1>4, <1>8, Touching, PowerFails
  <2>. QED
    BY <1>1, <1>2, <1>4, <2>1
<1>. QED
  BY <1>4, <1>6, <1>7, <1>8

LEMMA HardenPatchDoes ==
  ASSUME Typed, NEW h \in Handlers, HardenPatch(h)
  PROVE  /\ Typed' /\ UNCHANGED <<row, config, power, machine, bridge, throttled>>
         /\ \E r \in HardenRequest, s \in HardenRequest \cup {None} :
              /\ Move(h, r, s) /\ r.at = "patch"
              /\ \/ /\ IF r.wasRunning THEN s # None /\ s.at = "start" /\ SameHarden(r, s)
                       ELSE s = None
                    /\ \E map \in Map :
                         /\ map.disk = r.map.disk /\ map.limit = r.map.limit
                         /\ Put(r.on, map) /\ Noted(r.on, Stale(h, r.on, map))
                 \/ /\ s = None /\ device' = device
                    /\ IF r.wasRunning THEN Noted(r.on, {"power"}) ELSE drift' = drift
                 \/ /\ s = None
                    /\ \E map \in Map, more \in SUBSET {"power"} :
                         /\ map.disk = r.map.disk /\ map.limit = r.map.limit
                         /\ r.wasRunning => more = {"power"}
                         /\ Put(r.on, map) /\ Noted(r.on, Stale(h, r.on, map) \cup more)
<1>1. PICK r \in HardenRequest : r = request[h] /\ r.at = "patch" /\ ShapeOf(r)
  BY Serving, RequestKind DEF HardenPatch, Typed
<1>2. /\ StoresTyped /\ TypeOK /\ drift \in [Containers -> SUBSET Aspects]
      /\ r.on \in Containers /\ r.req = "harden" /\ r.map \in Map /\ r.option \in Options
  BY <1>1, TypeParts DEF Typed, HardenRequest
<1>. DEFINE map == [r.map EXCEPT !.options = @ \cup {r.option}]
<1>3. map \in Map /\ map.limit = r.map.limit /\ map.disk = r.map.disk
  BY <1>2, MapUpdates
<1>. DEFINE s == [r EXCEPT !.at = "start"]
<1>4. s \in HardenRequest /\ SameHarden(r, s) /\ s.at = "start"
  BY DEF HardenRequest, SameHarden
<1>5. PICK next \in HardenRequest \cup {None} :
        /\ next = IF r.wasRunning THEN s ELSE None
        /\ next # None => ShapeOf(next) /\ next \in Requests
        /\ IF r.wasRunning THEN next # None /\ next.at = "start" /\ SameHarden(r, next)
           ELSE next = None
  <2>. HIDE DEF s
  <2>1. s \in Requests /\ s # None
    BY <1>4, RequestKind DEF Requests
  <2>2. r.wasRunning => ShapeOf(s)
    BY <1>2, <1>4 DEF ShapeOf, SameHarden
  <2>. QED
    BY <1>4, <2>1, <2>2
<1>6. /\ UNCHANGED <<row, config, power, machine, bridge, throttled>>
      /\ \/ /\ device' = [device EXCEPT ![r.on] = map]
            /\ Proceed(h, next)
            /\ Apart({r.on}, Stale(h, r.on, map))
         \/ /\ IF r.wasRunning THEN GiveUp(h) ELSE Finish(h)
            /\ UNCHANGED device
         \/ /\ device' = [device EXCEPT ![r.on] = map]
            /\ Proceed(h, None)
            /\ Apart({r.on}, Stale(h, r.on, map) \cup IF r.wasRunning THEN {"power"} ELSE {})
  BY <1>1, <1>5 DEF HardenPatch
<1>. HIDE DEF map, s
<1>7. PICK m \in Map : m = map
  BY <1>3
<1>8. CASE /\ device' = [device EXCEPT ![r.on] = map]
           /\ Proceed(h, next)
           /\ Apart({r.on}, Stale(h, r.on, map))
  <2>1. StoresTyped' /\ Put(r.on, map)
    BY <1>2, <1>3, <1>6, <1>7, <1>8, Puts DEF StoresTyped
  <2>2. drift' \in [Containers -> SUBSET Aspects] /\ Noted(r.on, Stale(h, r.on, map))
    BY <1>2, <1>8, StaleMeans, Notes
  <2>3. Typed' /\ Move(h, r, next)
    BY <1>1, <1>2, <1>5, <1>8, <2>1, <2>2, TypedNext, Proceeds DEF Move, Typed
  <2>4. Put(r.on, m) /\ Noted(r.on, Stale(h, r.on, m)) /\ m.disk = r.map.disk /\ m.limit = r.map.limit
    BY <1>3, <1>7, <2>1, <2>2
  <2>. QED
    BY <1>1, <1>5, <1>6, <2>3, <2>4
<1>9. CASE (IF r.wasRunning THEN GiveUp(h) ELSE Finish(h)) /\ UNCHANGED device
  <2>1. UNCHANGED Stores /\ Proceed(h, None)
    BY <1>6, <1>9 DEF Stores, GiveUp, Finish
  <2>2. IF r.wasRunning THEN Noted(r.on, {"power"}) ELSE drift' = drift
    BY <1>1, <1>2, <1>9, Notes DEF GiveUp, Finish, Reach, Touches, Aspects
  <2>3. drift' \in [Containers -> SUBSET Aspects]
    BY <1>1, <1>2, <1>9, Notes DEF GiveUp, Finish, Reach, Touches, Aspects
  <2>4. Typed' /\ Move(h, r, None)
    BY <1>1, <1>2, <2>1, <2>3, StoresKept, TypedNext, Proceeds DEF Move, Typed
  <2>. QED
    BY <1>1, <1>6, <1>9, <2>2, <2>4
<1>10. CASE /\ device' = [device EXCEPT ![r.on] = map]
            /\ Proceed(h, None)
            /\ Apart({r.on}, Stale(h, r.on, map) \cup IF r.wasRunning THEN {"power"} ELSE {})
  <2>1. StoresTyped' /\ Put(r.on, map)
    BY <1>2, <1>3, <1>6, <1>7, <1>10, Puts DEF StoresTyped
  <2>2. PICK more \in SUBSET {"power"} : more = IF r.wasRunning THEN {"power"} ELSE {}
    OBVIOUS
  <2>3. Stale(h, r.on, map) \cup more \subseteq Aspects
    BY <1>2, StaleMeans DEF Aspects
  <2>4. drift' \in [Containers -> SUBSET Aspects] /\ Noted(r.on, Stale(h, r.on, map) \cup more)
    BY <1>2, <1>10, <2>2, <2>3, Notes
  <2>5. Typed' /\ Move(h, r, None)
    BY <1>1, <1>2, <1>10, <2>1, <2>4, TypedNext, Proceeds DEF Move, Typed
  <2>6. /\ Put(r.on, m) /\ Noted(r.on, Stale(h, r.on, m) \cup more)
        /\ m.disk = r.map.disk /\ m.limit = r.map.limit
        /\ r.wasRunning => more = {"power"}
    BY <1>3, <1>7, <2>1, <2>2, <2>4
  <2>. QED
    BY <1>1, <1>6, <2>5, <2>6
<1>. QED
  BY <1>6, <1>8, <1>9, <1>10

LEMMA HardenStartDoes ==
  ASSUME Typed, NEW h \in Handlers, HardenStart(h)
  PROVE  /\ Typed' /\ UNCHANGED <<row, config, device, machine, bridge, throttled>>
         /\ \E r \in HardenRequest :
              /\ Move(h, r, None) /\ r.at = "start" /\ r.wasRunning
              /\ \/ /\ drift' = drift
                    /\ \E p \in PowerType :
                         /\ p.running /\ p.autostart = power[r.on].autostart
                         /\ p.asked = power[r.on].asked /\ Powered(r.on, p)
                 \/ /\ Noted(r.on, {"power"})
                    /\ \A d \in Containers : d # r.on => power'[d] = power[d]
<1>1. PICK r \in HardenRequest : r = request[h] /\ r.at = "start" /\ ShapeOf(r)
  BY Serving, RequestKind DEF HardenStart, Typed
<1>2. /\ StoresTyped /\ TypeOK /\ drift \in [Containers -> SUBSET Aspects]
      /\ r.on \in Containers /\ r.req = "harden" /\ r.wasRunning
  BY <1>1, TypeParts DEF Typed, HardenRequest, ShapeOf
<1>3. /\ UNCHANGED <<row, config, device, machine, bridge, throttled>> /\ Proceed(h, None)
      /\ \/ power' = [power EXCEPT ![r.on].running = TRUE] /\ UNCHANGED drift
         \/ GiveUp(h) /\ power' \in {power, [power EXCEPT ![r.on].running = TRUE]}
  BY <1>1, <1>2 DEF HardenStart, Finish, GiveUp
<1>4. CASE power' = [power EXCEPT ![r.on].running = TRUE] /\ UNCHANGED drift
  <2>1. PICK p \in PowerType : /\ p.running /\ p.autostart = power[r.on].autostart
                               /\ p.asked = power[r.on].asked /\ Powered(r.on, p)
                               /\ power' \in [Containers -> PowerType]
    BY <1>2, <1>4, PowerUpdates
  <2>2. StoresTyped'
    BY <1>2, <1>3, <2>1 DEF StoresTyped, PowerType
  <2>3. Typed' /\ Move(h, r, None)
    BY <1>1, <1>2, <1>3, <1>4, <2>2, TypedNext, Proceeds DEF Move, Typed
  <2>. QED
    BY <1>1, <1>2, <1>3, <1>4, <2>1, <2>3
<1>5. CASE GiveUp(h) /\ power' \in {power, [power EXCEPT ![r.on].running = TRUE]}
  <2>1. /\ Typed' /\ Move(h, r, None) /\ Noted(r.on, {"power"})
        /\ \A d \in Containers : d # r.on => power'[d] = power[d]
    <3>1. Touched(r.on)
      BY <1>2, <1>5, Touching
    <3>. QED
      BY <1>1, <1>3, <1>5, <3>1, PowerFails
  <2>. QED
    BY <1>1, <1>2, <1>3, <2>1
<1>. QED
  BY <1>3, <1>4, <1>5

LEMMA SetAutostartDoes ==
  ASSUME Typed, NEW h \in Handlers, SetAutostart(h)
  PROVE  /\ Typed' /\ UNCHANGED <<row, config, device, machine, bridge, throttled>>
         /\ \E r \in PowerRequest, s \in PowerRequest \cup {None} :
              /\ Move(h, r, s) /\ r.at = "autostart"
              /\ \/ /\ s # None /\ s.at = "state" /\ s.on = r.on /\ s.action = r.action /\ s.met = r.met
                    /\ drift' = drift
                    /\ \E p \in PowerType :
                         /\ p.running = power[r.on].running /\ p.autostart = (r.action # "stop")
                         /\ p.asked = power[r.on].asked /\ Powered(r.on, p)
                 \/ s = None /\ power' = power /\ drift' = drift
                 \/ /\ s = None /\ Noted(r.on, {"power"})
                    /\ \A d \in Containers : d # r.on => power'[d] = power[d]
<1>1. PICK r \in PowerRequest : r = request[h] /\ r.at = "autostart"
  BY Serving, RequestKind DEF SetAutostart, Typed
<1>2. /\ StoresTyped /\ TypeOK /\ drift \in [Containers -> SUBSET Aspects]
      /\ r.on \in Containers /\ r.req = "power"
  BY <1>1, TypeParts DEF Typed, PowerRequest
<1>. DEFINE s == [r EXCEPT !.at = "state"]
<1>3. /\ s \in PowerRequest /\ s.at = "state" /\ s.on = r.on /\ s.action = r.action
      /\ s.met = r.met /\ s.req = "power"
  BY DEF PowerRequest
<1>4. /\ UNCHANGED <<row, config, device, machine, bridge, throttled>>
      /\ \/ /\ power' = [power EXCEPT ![r.on].autostart = (r.action # "stop")]
            /\ Proceed(h, s) /\ drift' = drift
         \/ power' = power /\ Proceed(h, None) /\ drift' = drift
         \/ power' = [power EXCEPT ![r.on].autostart = (r.action # "stop")] /\ GiveUp(h)
  BY <1>1 DEF SetAutostart, Goto, Finish
<1>. HIDE DEF s
<1>5. ShapeOf(s) /\ s \in Requests /\ s # None
  BY <1>3, RequestKind DEF ShapeOf, Requests
<1>6. CASE /\ power' = [power EXCEPT ![r.on].autostart = (r.action # "stop")]
           /\ Proceed(h, s) /\ drift' = drift
  <2>1. PICK on \in BOOLEAN : on = (r.action # "stop")
    OBVIOUS
  <2>2. PICK p \in PowerType : /\ p.running = power[r.on].running /\ p.autostart = on
                               /\ p.asked = power[r.on].asked /\ Powered(r.on, p)
                               /\ power' \in [Containers -> PowerType]
    BY <1>2, <1>6, <2>1, PowerUpdates
  <2>3. StoresTyped'
    BY <1>2, <1>4, <2>2 DEF StoresTyped, PowerType
  <2>4. Typed' /\ Move(h, r, s)
    BY <1>1, <1>2, <1>4, <1>5, <1>6, <2>3, TypedNext, Proceeds DEF Move, Typed
  <2>. QED
    BY <1>1, <1>3, <1>4, <1>5, <1>6, <2>1, <2>2, <2>4
<1>7. CASE power' = power /\ Proceed(h, None) /\ drift' = drift
  <2>1. UNCHANGED Stores
    BY <1>4, <1>7 DEF Stores
  <2>2. Typed' /\ Move(h, r, None)
    BY <1>1, <1>2, <1>4, <1>7, <2>1, StoresKept, TypedNext, Proceeds DEF Move, Typed
  <2>. QED
    BY <1>1, <1>4, <1>7, <2>2
<1>8. CASE power' = [power EXCEPT ![r.on].autostart = (r.action # "stop")] /\ GiveUp(h)
  <2>1. PICK on \in BOOLEAN : on = (r.action # "stop")
    OBVIOUS
  <2>2. /\ Typed' /\ Move(h, r, None) /\ Noted(r.on, {"power"})
        /\ \A d \in Containers : d # r.on => power'[d] = power[d]
    <3>1. Touched(r.on)
      BY <1>2, <1>8, <2>1, Touching
    <3>. QED
      BY <1>1, <1>4, <1>8, <3>1, PowerFails
  <2>. QED
    BY <1>1, <1>4, <2>2
<1>. QED
  BY <1>4, <1>6, <1>7, <1>8

LEMMA SetStateDoes ==
  ASSUME Typed, NEW h \in Handlers, SetState(h)
  PROVE  /\ Typed' /\ UNCHANGED <<row, config, device, machine, bridge, throttled>>
         /\ \E r \in PowerRequest :
              /\ Move(h, r, None) /\ r.at = "state"
              /\ \/ /\ \E p \in PowerType :
                         /\ p.running = (r.action # "stop") /\ p.asked = (r.action # "stop")
                         /\ p.autostart = power[r.on].autostart /\ Powered(r.on, p)
                    /\ \A d \in Containers : d # r.on => drift'[d] = drift[d]
                    /\ drift'[r.on] = drift[r.on]
                         \/ (~r.met /\ drift'[r.on] = drift[r.on] \ {"power"})
                 \/ /\ Noted(r.on, {"power"})
                    /\ \A d \in Containers : d # r.on => power'[d] = power[d]
<1>1. PICK r \in PowerRequest : r = request[h] /\ r.at = "state"
  BY Serving, RequestKind DEF SetState, Typed
<1>2. /\ StoresTyped /\ TypeOK /\ drift \in [Containers -> SUBSET Aspects]
      /\ r.on \in Containers /\ r.req = "power" /\ r.met \in BOOLEAN
      /\ power \in [Containers -> PowerType]
  BY <1>1, TypeParts DEF Typed, PowerRequest, StoresTyped, PowerType
<1>3. PICK on \in BOOLEAN : on = (r.action # "stop")
  OBVIOUS
<1>4. /\ UNCHANGED <<row, config, device, machine, bridge, throttled>> /\ Proceed(h, None)
      /\ \/ /\ power' = [[power EXCEPT ![r.on].asked = on] EXCEPT ![r.on].running = on]
            /\ Together(h, r.on, {"power"})
         \/ /\ power[r.on].running = on
            /\ power' = [power EXCEPT ![r.on].asked = on]
            /\ UNCHANGED drift
         \/ /\ GiveUp(h)
            /\ \/ power' = power
               \/ \E b \in BOOLEAN : power' = [power EXCEPT ![r.on].running = b]
  BY <1>1, <1>2, <1>3 DEF SetState, Finish, GiveUp
<1>5. CASE /\ power' = [[power EXCEPT ![r.on].asked = on] EXCEPT ![r.on].running = on]
           /\ Together(h, r.on, {"power"})
  <2>1. PICK was \in PowerType : was = power[r.on]
    BY <1>2
  <2>. DEFINE p == [was EXCEPT !.asked = on, !.running = on]
  <2>2. p \in PowerType /\ p.running = on /\ p.asked = on /\ p.autostart = was.autostart
    BY DEF PowerType
  <2>3. power' = [power EXCEPT ![r.on] = p]
    BY <1>2, <1>5, <2>1
  <2>. HIDE DEF p
  <2>4. power' \in [Containers -> PowerType] /\ Powered(r.on, p)
    BY <1>2, <2>2, <2>3 DEF Powered
  <2>5. StoresTyped'
    BY <1>2, <1>4, <2>4 DEF StoresTyped, PowerType
  <2>6. drift' \in [Containers -> SUBSET Aspects]
    BY <1>2, <1>5, DriftTypes
  <2>7. /\ \A d \in Containers : d # r.on => drift'[d] = drift[d]
        /\ drift'[r.on] = drift[r.on] \/ (~r.met /\ drift'[r.on] = drift[r.on] \ {"power"})
    BY <1>1, <1>2, <1>5, DriftUpdates
  <2>8. Typed' /\ Move(h, r, None)
    BY <1>1, <1>2, <1>4, <2>5, <2>6, TypedNext, Proceeds DEF Move, Typed
  <2>. QED
    BY <1>1, <1>3, <1>4, <2>1, <2>2, <2>4, <2>7, <2>8
<1>6. CASE /\ power[r.on].running = on
           /\ power' = [power EXCEPT ![r.on].asked = on]
           /\ UNCHANGED drift
  <2>1. PICK p \in PowerType : /\ p.running = power[r.on].running
                               /\ p.autostart = power[r.on].autostart
                               /\ p.asked = on /\ Powered(r.on, p)
                               /\ power' \in [Containers -> PowerType]
    BY <1>2, <1>6, PowerUpdates
  <2>2. StoresTyped'
    BY <1>2, <1>4, <2>1 DEF StoresTyped, PowerType
  <2>3. Typed' /\ Move(h, r, None)
    BY <1>1, <1>2, <1>4, <1>6, <2>2, TypedNext, Proceeds DEF Move, Typed
  <2>4. /\ \A d \in Containers : d # r.on => drift'[d] = drift[d]
        /\ drift'[r.on] = drift[r.on]
    BY <1>2, <1>6
  <2>. QED
    BY <1>1, <1>3, <1>4, <1>6, <2>1, <2>3, <2>4
<1>7. CASE /\ GiveUp(h)
           /\ \/ power' = power
              \/ \E b \in BOOLEAN : power' = [power EXCEPT ![r.on].running = b]
  <2>1. /\ Typed' /\ Move(h, r, None) /\ Noted(r.on, {"power"})
        /\ \A d \in Containers : d # r.on => power'[d] = power[d]
    <3>1. Touched(r.on)
      BY <1>2, <1>7, Touching
    <3>. QED
      BY <1>1, <1>4, <1>7, <3>1, PowerFails
  <2>. QED
    BY <1>1, <1>4, <2>1
<1>. QED
  BY <1>4, <1>5, <1>6, <1>7

-----------------------------------------------------------------------------
(* The repair.                                                             *)

(* A round of a loop: on to the next container, or to the next step.       *)
Round(r, s, c, next) ==
  \/ /\ r.todo # {c} /\ s # None /\ s.at = r.at /\ s.todo = r.todo \ {c}
     /\ s.affected = r.affected /\ s.met = r.met
  \/ /\ r.todo = {c} /\ next # None /\ s # None /\ s.at = next /\ s.todo = r.affected
     /\ s.affected = r.affected /\ s.met = r.met
  \/ r.todo = {c} /\ next = None /\ s = None

LEMMA LoopedDoes ==
  ASSUME Typed, NEW h \in Handlers, NEW c,
         NEW step \in {"regenerate", "stop", "start"}, NEW next \in {"stop", "leases", None},
         Looped(h, c, step, next)
  PROVE  \E r \in RepairRequest, s \in RepairRequest \cup {None} :
           /\ r = request[h] /\ r.at = step /\ c \in r.todo /\ c \in r.affected
           /\ c \in Containers
           /\ s # None => ShapeOf(s) /\ s \in Requests
           /\ Proceed(h, s) /\ Move(h, r, s) /\ Round(r, s, c, next)
<1>1. PICK r \in RepairRequest : r = request[h] /\ r.at = step /\ ShapeOf(r)
  BY Serving, RequestKind DEF Looped, Typed
<1>2. /\ r.todo \subseteq r.affected /\ r.affected \subseteq Containers /\ c \in r.todo
      /\ r.req = "repair" /\ TypeOK /\ Shape
  BY <1>1 DEF Typed, RepairRequest, ShapeOf, Looped
<1>3. Proceed(h, IF r.todo # {c} THEN [r EXCEPT !.todo = @ \ {c}]
                 ELSE IF next = None THEN None
                 ELSE [r EXCEPT !.at = next, !.todo = r.affected])
  BY <1>1 DEF Looped
<1>4. CASE r.todo # {c}
  <2>1. PICK rest \in SUBSET Containers : rest = r.todo \ {c}
    BY <1>2
  <2>. DEFINE s == [r EXCEPT !.todo = rest]
  <2>2. /\ s \in RepairRequest /\ s.at = r.at /\ s.todo = rest /\ s.affected = r.affected
        /\ s.met = r.met /\ s.req = "repair"
    BY DEF RepairRequest
  <2>3. Proceed(h, s)
    BY <1>3, <1>4, <2>1
  <2>. HIDE DEF s
  <2>4. rest # {} /\ rest \subseteq r.affected
    BY <1>2, <1>4, <2>1
  <2>5. s \in Requests /\ s # None /\ ShapeOf(s)
    BY <1>1, <2>2, <2>4, RequestKind DEF Requests, ShapeOf
  <2>6. Move(h, r, s) /\ Round(r, s, c, next)
    BY <1>1, <1>2, <1>4, <2>1, <2>2, <2>3, <2>5, Proceeds DEF Move, Round
  <2>. QED
    BY <1>1, <1>2, <2>2, <2>3, <2>5, <2>6
<1>5. CASE r.todo = {c} /\ next = None
  <2>1. Proceed(h, None) /\ Move(h, r, None) /\ Round(r, None, c, next)
    BY <1>1, <1>2, <1>3, <1>5, Proceeds DEF Move, Round
  <2>. QED
    BY <1>1, <1>2, <2>1
<1>6. CASE r.todo = {c} /\ next # None
  <2>1. PICK all \in SUBSET Containers : all = r.affected
    BY <1>2
  <2>. DEFINE s == [r EXCEPT !.at = next, !.todo = all]
  <2>2. /\ s \in RepairRequest /\ s.at = next /\ s.todo = all /\ s.affected = r.affected
        /\ s.met = r.met /\ s.req = "repair"
    BY <1>6 DEF RepairRequest
  <2>3. Proceed(h, s)
    BY <1>3, <1>6, <2>1
  <2>. HIDE DEF s
  <2>4. s \in Requests /\ s # None /\ ShapeOf(s)
    BY <1>2, <2>1, <2>2, RequestKind DEF Requests, ShapeOf
  <2>5. Move(h, r, s) /\ Round(r, s, c, next)
    BY <1>1, <1>2, <1>6, <2>1, <2>2, <2>3, <2>4, Proceeds DEF Move, Round
  <2>. QED
    BY <1>1, <1>2, <2>2, <2>3, <2>4, <2>5
<1>. QED
  BY <1>4, <1>5, <1>6

NotedOn(cs, aspects) ==
  \A d \in Containers : drift'[d] = IF d \in cs THEN drift[d] \cup aspects ELSE drift[d]

(* A repair that fails: at a container of its loop, or at the bridge.      *)
LEMMA RepairFails ==
  ASSUME Typed, NEW h \in Handlers, NEW step, Serves(h, "repair", step),
         GiveUp(h) \/ Finish(h), StoresTyped'
  PROVE  /\ Typed'
         /\ \E r \in RepairRequest :
              /\ r = request[h] /\ r.at = step /\ Move(h, r, None)
              /\ GiveUp(h) => NotedOn(r.affected, {"power"})
              /\ Finish(h) => drift' = drift
<1>1. PICK r \in RepairRequest : r = request[h] /\ r.at = step
  BY Serving, RequestKind DEF Typed
<1>2. /\ StoresTyped /\ TypeOK /\ drift \in [Containers -> SUBSET Aspects]
      /\ r.req = "repair" /\ request[h] # None
  BY <1>1, TypeParts DEF Typed, RepairRequest, Serves, Busy, Idle
<1>3. Proceed(h, None)
  BY DEF GiveUp, Finish
<1>4. ASSUME GiveUp(h) PROVE NotedOn(r.affected, {"power"})
  BY <1>1, <1>2, <1>4 DEF GiveUp, Apart, Reach, Touches, NotedOn
<1>5. drift' \in [Containers -> SUBSET Aspects]
  BY <1>2, DriftTypes DEF Finish
<1>6. Typed' /\ Move(h, r, None)
  BY <1>1, <1>2, <1>3, <1>5, TypedNext, Proceeds DEF Move, Typed
<1>. QED
  BY <1>1, <1>4, <1>6 DEF Finish

LEMMA RegenerateDoes ==
  ASSUME Typed, NEW h \in Handlers, NEW c, Regenerate(h, c)
  PROVE  /\ Typed' /\ UNCHANGED <<row, config, device, power, bridge, throttled, drift>>
         /\ \E r \in RepairRequest, s \in RepairRequest \cup {None} :
              /\ Move(h, r, s) /\ r.at = "regenerate"
              /\ \/ /\ Round(r, s, c, "stop") /\ c \in r.todo /\ c \in Containers
                    /\ machine'[c] = "own"
                    /\ \A d \in Containers : d # c => machine'[d] = machine[d]
                 \/ /\ s = None
                    /\ \A d \in Containers : machine'[d] \in {machine[d], "own"}
<1>1. UNCHANGED <<row, config, device, power, bridge, throttled>>
  BY DEF Regenerate
<1>2. StoresTyped /\ drift \in [Containers -> SUBSET Aspects]
  BY TypeParts DEF Typed
<1>3. CASE /\ Looped(h, c, "regenerate", "stop") /\ machine' = [machine EXCEPT ![c] = "own"]
           /\ UNCHANGED drift
  <2>1. PICK r \in RepairRequest, s \in RepairRequest \cup {None} :
          /\ r = request[h] /\ r.at = "regenerate" /\ c \in r.todo /\ c \in Containers
          /\ s # None => ShapeOf(s) /\ s \in Requests
          /\ Proceed(h, s) /\ Move(h, r, s) /\ Round(r, s, c, "stop")
    BY <1>3, LoopedDoes
  <2>2. /\ machine' \in [Containers -> {"baked", "own"}] /\ machine'[c] = "own"
        /\ \A d \in Containers : d # c => machine'[d] = machine[d]
    BY <1>2, <1>3, <2>1 DEF StoresTyped
  <2>3. StoresTyped'
    BY <1>1, <1>2, <2>2 DEF StoresTyped
  <2>4. Typed'
    BY <1>2, <1>3, <2>1, <2>3, TypedNext
  <2>. QED
    BY <1>1, <1>3, <2>1, <2>2, <2>4
<1>4. CASE /\ Serves(h, "repair", "regenerate") /\ Finish(h)
           /\ machine' \in {machine, [machine EXCEPT ![c] = "own"]}
  <2>1. /\ machine' \in [Containers -> {"baked", "own"}]
        /\ \A d \in Containers : machine'[d] \in {machine[d], "own"}
    BY <1>2, <1>4 DEF StoresTyped
  <2>2. StoresTyped'
    BY <1>1, <1>2, <2>1 DEF StoresTyped
  <2>3. PICK r \in RepairRequest : r.at = "regenerate" /\ Move(h, r, None) /\ drift' = drift
    BY <1>4, <2>2, RepairFails
  <2>4. Typed'
    BY <1>4, <2>2, RepairFails
  <2>. QED
    BY <1>1, <2>1, <2>3, <2>4
<1>. QED
  BY <1>3, <1>4 DEF Regenerate

LEMMA RepairStopDoes ==
  ASSUME Typed, NEW h \in Handlers, NEW c, RepairStop(h, c)
  PROVE  /\ Typed' /\ UNCHANGED <<row, config, device, machine, bridge, throttled>>
         /\ \E r \in RepairRequest, s \in RepairRequest \cup {None} :
              /\ Move(h, r, s) /\ r.at = "stop"
              /\ \/ /\ Round(r, s, c, "leases") /\ c \in r.todo /\ c \in Containers
                    /\ drift' = drift
                    /\ \E p \in PowerType :
                         /\ ~p.running /\ p.autostart = power[c].autostart
                         /\ p.asked = power[c].asked /\ Powered(c, p)
                 \/ /\ s = None /\ NotedOn(r.affected, {"power"})
                    /\ \A d \in Containers : d \notin r.affected => power'[d] = power[d]
<1>1. UNCHANGED <<row, config, device, machine, bridge, throttled>>
  BY DEF RepairStop
<1>2. StoresTyped /\ drift \in [Containers -> SUBSET Aspects]
  BY TypeParts DEF Typed
<1>3. CASE /\ Looped(h, c, "stop", "leases") /\ power' = [power EXCEPT ![c].running = FALSE]
           /\ UNCHANGED drift
  <2>1. PICK r \in RepairRequest, s \in RepairRequest \cup {None} :
          /\ r = request[h] /\ r.at = "stop" /\ c \in r.todo /\ c \in Containers
          /\ s # None => ShapeOf(s) /\ s \in Requests
          /\ Proceed(h, s) /\ Move(h, r, s) /\ Round(r, s, c, "leases")
    BY <1>3, LoopedDoes
  <2>2. PICK p \in PowerType : /\ ~p.running /\ p.autostart = power[c].autostart
                               /\ p.asked = power[c].asked /\ Powered(c, p)
                               /\ power' \in [Containers -> PowerType]
    BY <1>3, <2>1, PowerUpdates
  <2>3. StoresTyped'
    BY <1>1, <1>2, <2>2 DEF StoresTyped, PowerType
  <2>4. Typed'
    BY <1>2, <1>3, <2>1, <2>3, TypedNext
  <2>. QED
    BY <1>1, <1>3, <2>1, <2>2, <2>4
<1>4. CASE /\ Serves(h, "repair", "stop") /\ GiveUp(h) /\ c \in request[h].todo
           /\ power' \in {power, [power EXCEPT ![c].running = FALSE]}
  <2>0. /\ ShapeOf(request[h]) /\ request[h].req = "repair" /\ request[h] \in Requests
    BY <1>4, Serving DEF Typed
  <2>6. c \in request[h].affected /\ c \in Containers
    BY <1>4, <2>0, RequestKind DEF ShapeOf, RepairRequest
  <2>7. /\ power' \in [Containers -> PowerType]
        /\ \A d \in Containers : d # c => power'[d] = power[d]
    BY <1>2, <1>4, <2>6, PowerUpdates DEF Powered, StoresTyped, PowerType
  <2>1. StoresTyped'
    BY <1>1, <1>2, <2>7 DEF StoresTyped, PowerType
  <2>2. PICK r \in RepairRequest :
          /\ r = request[h] /\ r.at = "stop" /\ Move(h, r, None)
          /\ NotedOn(r.affected, {"power"})
    BY <1>4, <2>1, RepairFails
  <2>3. Typed'
    BY <1>4, <2>1, RepairFails
  <2>. QED
    BY <1>1, <2>2, <2>3, <2>6, <2>7
<1>. QED
  BY <1>3, <1>4 DEF RepairStop

LEMMA RepairStartDoes ==
  ASSUME Typed, NEW h \in Handlers, NEW c, RepairStart(h, c)
  PROVE  /\ Typed' /\ UNCHANGED <<row, config, device, machine, bridge, throttled>>
         /\ \E r \in RepairRequest, s \in RepairRequest \cup {None} :
              /\ Move(h, r, s) /\ r.at = "start" /\ r.todo # {} /\ r.todo \subseteq r.affected
              /\ \/ /\ Round(r, s, c, None) /\ c \in r.todo /\ c \in Containers
                    /\ drift' = drift
                    /\ \E p \in PowerType :
                         /\ p.running /\ p.autostart = power[c].autostart
                         /\ p.asked = power[c].asked /\ Powered(c, p)
                 \/ /\ s = None /\ NotedOn(r.affected, {"power"})
                    /\ \A d \in Containers : d \notin r.affected => power'[d] = power[d]
<1>1. UNCHANGED <<row, config, device, machine, bridge, throttled>>
  BY DEF RepairStart
<1>2. StoresTyped /\ drift \in [Containers -> SUBSET Aspects] /\ TypeOK /\ Shape
  BY TypeParts DEF Typed
<1>3. CASE /\ Looped(h, c, "start", None) /\ power' = [power EXCEPT ![c].running = TRUE]
           /\ UNCHANGED drift
  <2>1. PICK r \in RepairRequest, s \in RepairRequest \cup {None} :
          /\ r = request[h] /\ r.at = "start" /\ c \in r.todo /\ c \in Containers
          /\ s # None => ShapeOf(s) /\ s \in Requests
          /\ Proceed(h, s) /\ Move(h, r, s) /\ Round(r, s, c, None)
    BY <1>3, LoopedDoes
  <2>2. PICK p \in PowerType : /\ p.running /\ p.autostart = power[c].autostart
                               /\ p.asked = power[c].asked /\ Powered(c, p)
                               /\ power' \in [Containers -> PowerType]
    BY <1>3, <2>1, PowerUpdates
  <2>3. StoresTyped'
    BY <1>1, <1>2, <2>2 DEF StoresTyped, PowerType
  <2>4. Typed'
    BY <1>2, <1>3, <2>1, <2>3, TypedNext
  <2>5. ShapeOf(request[h]) /\ request[h].req = "repair"
    BY <1>2, <1>3, Serving DEF Looped
  <2>6. r.todo # {} /\ r.todo \subseteq r.affected
    BY <2>1, <2>5 DEF ShapeOf
  <2>. QED
    BY <1>1, <1>3, <2>1, <2>2, <2>4, <2>6
<1>4. CASE /\ Serves(h, "repair", "start") /\ GiveUp(h) /\ c \in request[h].todo
           /\ power' \in {power, [power EXCEPT ![c].running = TRUE]}
  <2>0. /\ ShapeOf(request[h]) /\ request[h].req = "repair" /\ request[h] \in Requests
    BY <1>4, Serving DEF Typed
  <2>6. c \in request[h].affected /\ c \in Containers
    BY <1>4, <2>0, RequestKind DEF ShapeOf, RepairRequest
  <2>7. /\ power' \in [Containers -> PowerType]
        /\ \A d \in Containers : d # c => power'[d] = power[d]
    BY <1>2, <1>4, <2>6, PowerUpdates DEF Powered, StoresTyped, PowerType
  <2>1. StoresTyped'
    BY <1>1, <1>2, <2>7 DEF StoresTyped, PowerType
  <2>2. PICK r \in RepairRequest :
          /\ r = request[h] /\ r.at = "start" /\ Move(h, r, None)
          /\ NotedOn(r.affected, {"power"})
    BY <1>4, <2>1, RepairFails
  <2>3. Typed'
    BY <1>4, <2>1, RepairFails
  <2>4. ShapeOf(request[h]) /\ request[h].req = "repair"
    BY <1>2, <1>4, Serving
  <2>5. r.todo # {} /\ r.todo \subseteq r.affected
    BY <2>2, <2>4 DEF ShapeOf
  <2>. QED
    BY <1>1, <2>2, <2>3, <2>5, <2>6, <2>7
<1>. QED
  BY <1>3, <1>4 DEF RepairStart

(* The steps at the bridge, in their order.                                *)
LEMMA BridgeStepDoes ==
  ASSUME Typed, NEW h \in Handlers, DropLeases(h) \/ DhcpOff(h) \/ DhcpOn(h)
  PROVE  /\ Typed' /\ UNCHANGED <<row, config, device, power, machine, throttled>>
         /\ \E r \in RepairRequest, s \in RepairRequest \cup {None} :
              /\ Move(h, r, s)
              /\ \/ /\ s # None /\ s.todo = r.todo /\ s.affected = r.affected /\ s.met = r.met
                    /\ drift' = drift
                    /\ \/ /\ r.at = "leases" /\ s.at = "off"
                          /\ ~bridge'.stale /\ bridge'.dhcp = bridge.dhcp
                       \/ /\ r.at = "off" /\ s.at = "on"
                          /\ ~bridge'.dhcp /\ bridge'.stale = bridge.stale
                       \/ /\ r.at = "on" /\ s.at = "start"
                          /\ bridge'.dhcp /\ bridge'.stale = bridge.stale
                 \/ /\ s = None /\ r.at \in {"leases", "off", "on"}
                    /\ NotedOn(r.affected, {"power"})
<1>1. StoresTyped /\ drift \in [Containers -> SUBSET Aspects] /\ TypeOK /\ Shape
  BY TypeParts DEF Typed
<1>2. PICK b \in [dhcp : BOOLEAN, stale : BOOLEAN] : b = bridge
  BY <1>1 DEF StoresTyped
<1>3. ASSUME NEW step \in {"leases", "off", "on"}, NEW next \in {"off", "on", "start"},
             NEW n \in [dhcp : BOOLEAN, stale : BOOLEAN], BridgeStep(h, step, next, n)
      PROVE  /\ Typed' /\ UNCHANGED <<row, config, device, power, machine, throttled>>
             /\ \E r \in RepairRequest, s \in RepairRequest \cup {None} :
                  /\ Move(h, r, s) /\ r.at = step
                  /\ \/ /\ s # None /\ s.at = next
                        /\ s.todo = r.todo /\ s.affected = r.affected /\ s.met = r.met
                        /\ drift' = drift /\ bridge' = n
                     \/ s = None /\ NotedOn(r.affected, {"power"})
  <2>1. Serves(h, "repair", step) /\ UNCHANGED <<row, config, device, power, machine, throttled>>
    BY <1>3 DEF BridgeStep
  <2>2. PICK r \in RepairRequest : r = request[h] /\ r.at = step /\ ShapeOf(r)
    BY <1>1, <2>1, Serving, RequestKind
  <2>. DEFINE s == [r EXCEPT !.at = next]
  <2>3. /\ s \in RepairRequest /\ s.at = next /\ s.todo = r.todo /\ s.affected = r.affected
        /\ s.met = r.met /\ s.req = "repair" /\ r.req = "repair"
    BY DEF RepairRequest
  <2>4. (bridge' = n /\ UNCHANGED drift /\ Proceed(h, s)) \/ (GiveUp(h) /\ bridge' \in {bridge, n})
    BY <1>3, <2>2 DEF BridgeStep, Goto
  <2>. HIDE DEF s
  <2>5. s \in Requests /\ s # None /\ ShapeOf(s)
    BY <2>2, <2>3, RequestKind DEF Requests, ShapeOf
  <2>6. CASE bridge' = n /\ UNCHANGED drift /\ Proceed(h, s)
    <3>1. StoresTyped'
      BY <1>1, <2>1, <2>6 DEF StoresTyped
    <3>2. Typed' /\ Move(h, r, s)
      BY <1>1, <2>2, <2>5, <2>6, <3>1, TypedNext, Proceeds DEF Move
    <3>. QED
      BY <2>1, <2>2, <2>3, <2>5, <2>6, <3>2
  <2>7. CASE GiveUp(h) /\ bridge' \in {bridge, n}
    <3>1. StoresTyped'
      BY <1>1, <2>1, <2>7 DEF StoresTyped
    <3>2. PICK q \in RepairRequest :
            /\ q = request[h] /\ Move(h, q, None) /\ NotedOn(q.affected, {"power"})
      BY <2>1, <2>7, <3>1, RepairFails
    <3>3. Typed'
      BY <2>1, <2>7, <3>1, RepairFails
    <3>. QED
      BY <2>1, <2>2, <2>7, <3>2, <3>3
  <2>. QED
    BY <2>4, <2>6, <2>7
<1>4. CASE DropLeases(h)
  <2>. DEFINE n == [b EXCEPT !.stale = FALSE]
  <2>1. n \in [dhcp : BOOLEAN, stale : BOOLEAN] /\ ~n.stale /\ n.dhcp = b.dhcp
    OBVIOUS
  <2>2. BridgeStep(h, "leases", "off", n)
    BY <1>2, <1>4 DEF DropLeases
  <2>. HIDE DEF n
  <2>. QED
    BY <1>2, <1>3, <2>1, <2>2
<1>5. CASE DhcpOff(h)
  <2>. DEFINE n == [b EXCEPT !.dhcp = FALSE]
  <2>1. n \in [dhcp : BOOLEAN, stale : BOOLEAN] /\ ~n.dhcp /\ n.stale = b.stale
    OBVIOUS
  <2>2. BridgeStep(h, "off", "on", n)
    BY <1>2, <1>5 DEF DhcpOff
  <2>. HIDE DEF n
  <2>. QED
    BY <1>2, <1>3, <2>1, <2>2
<1>6. CASE DhcpOn(h)
  <2>. DEFINE n == [b EXCEPT !.dhcp = TRUE]
  <2>1. n \in [dhcp : BOOLEAN, stale : BOOLEAN] /\ n.dhcp /\ n.stale = b.stale
    OBVIOUS
  <2>2. BridgeStep(h, "on", "start", n)
    BY <1>2, <1>6 DEF DhcpOn
  <2>. HIDE DEF n
  <2>. QED
    BY <1>2, <1>3, <2>1, <2>2
<1>. QED
  BY <1>4, <1>5, <1>6

-----------------------------------------------------------------------------
(* A new request, as it begins.                                            *)
Fresh(r) ==
  /\ r.req # "limit" => ~r.met
  /\ r.req = "quota" => r.at = "start" /\ r.done = 0
  /\ r.req = "limit" => r.at = "patch" /\ r.map = device[r.on]
  /\ r.req = "harden" => /\ r.map = device[r.on] /\ r.wasRunning = power[r.on].running
                         /\ r.at = IF r.wasRunning THEN "stop" ELSE "patch"
  /\ r.req = "power" => r.at = "autostart"
  /\ r.req = "repair" => /\ r.at = "regenerate" /\ r.affected = Sharing /\ r.todo = Sharing
                         /\ Sharing # {}

LEMMA QuotaArrives ==
  ASSUME Typed, NEW h \in Handlers, NEW c \in Containers, AdminQuota(h, c) \/ CliQuota(h, c)
  PROVE  \E r \in Requests : Begin(h, r) /\ ShapeOf(r) /\ Fresh(r)
<1>1. row[c].quota \in Quota /\ row[c].traffic \in Nat
  BY DEF Typed, TypeOK
<1>2. Disk = 3 /\ Mem = 2 /\ Cpu = 1 /\ Resources = {1, 2, 3}
  BY DEF Resources, Cpu, Mem, Disk
<1>3. \A cpu, mem, disk \in Int : <<cpu, mem, disk>> \in Quota
  BY <1>2 DEF Quota
<1>4. ASSUME NEW want \in Quota, NEW traffic \in Nat
      PROVE  /\ QuotaRequestOn(c, want, traffic) \in Requests
             /\ ShapeOf(QuotaRequestOn(c, want, traffic)) /\ Fresh(QuotaRequestOn(c, want, traffic))
  <2>. DEFINE r == QuotaRequestOn(c, want, traffic)
  <2>1. r \in QuotaRequest /\ r.req = "quota" /\ r.at = "start" /\ r.done = 0 /\ ~r.met
    BY DEF QuotaRequestOn, QuotaRequest
  <2>. HIDE DEF r
  <2>2. r \in Requests /\ ShapeOf(r) /\ Fresh(r)
    BY <2>1 DEF Requests, ShapeOf, Fresh
  <2>. QED
    BY <2>2 DEF r
<1>5. \E want \in Quota, traffic \in Nat : Begin(h, QuotaRequestOn(c, want, traffic))
  <2>1. CASE AdminQuota(h, c)
    <3>. DEFINE Want(form) == <<ParseCPU(form.cpu), ParseMem(form.mem), ParseDisk(form.disk)>>
    <3>1. PICK form \in Forms :
            /\ None \notin {form.cpu, form.mem, form.disk, form.traffic}
            /\ Refused \notin {ParseCPU(form.cpu), ParseMem(form.mem), ParseDisk(form.disk),
                              ParseTrafficGB(form.traffic)}
            /\ Begin(h, QuotaRequestOn(c, Want(form), ParseTrafficGB(form.traffic)))
      BY <2>1, <1>2 DEF AdminQuota
    <3>2. {form.cpu, form.mem, form.disk, form.traffic} \subseteq Text
      BY <3>1, FormsAssumption
    <3>3. /\ ParseCPU(form.cpu) \in Int /\ ParseMem(form.mem) \in Int
          /\ ParseDisk(form.disk) \in Int /\ ParseTrafficGB(form.traffic) \in Nat
      BY <3>1, <3>2, ParsedTypes
    <3>. QED
      BY <1>3, <3>1, <3>3
  <2>2. CASE CliQuota(h, c)
    <3>. DEFINE now == row[c].quota
                Want(form) == <<Given(form.cpu, ParseCPU, now[Cpu]),
                                Given(form.mem, ParseMemStrict, now[Mem]),
                                Given(form.disk, ParseDiskStrict, now[Disk])>>
                Traffic(form) == Given(form.traffic, ParseTrafficGB, row[c].traffic)
    <3>1. PICK form \in Forms :
            /\ Refused \notin {Want(form)[Cpu], Want(form)[Mem], Want(form)[Disk], Traffic(form)}
            /\ Begin(h, QuotaRequestOn(c, Want(form), Traffic(form)))
      BY <2>2 DEF CliQuota
    <3>2. now[Cpu] \in Int /\ now[Mem] \in Int /\ now[Disk] \in Int
      BY <1>1, <1>2 DEF Quota
    <3>3. {form.cpu, form.mem, form.disk, form.traffic} \subseteq Text \cup {None}
      BY <3>1, FormsAssumption
    <3>4. /\ Given(form.cpu, ParseCPU, now[Cpu]) \in Int
          /\ Given(form.mem, ParseMemStrict, now[Mem]) \in Int
          /\ Given(form.disk, ParseDiskStrict, now[Disk]) \in Int
      BY <1>2, <3>1, <3>2, <3>3, ParsedTypes DEF Given
    <3>5. Traffic(form) \in Nat
      BY <1>1, <3>1, <3>3, ParsedTypes DEF Given
    <3>. QED
      BY <1>3, <3>1, <3>4, <3>5
  <2>. QED
    BY <2>1, <2>2
<1>. QED
  BY <1>4, <1>5

LEMMA OthersArrive ==
  ASSUME Typed, NEW h \in Handlers,
         \/ Repair(h)
         \/ \E c \in Containers : \/ Limit(h, c)
                                  \/ \E option \in Options : Harden(h, c, option)
                                  \/ \E action \in Actions : Power(h, c, action)
  PROVE  \E r \in Requests : Begin(h, r) /\ ShapeOf(r) /\ Fresh(r)
<1>1. CASE Repair(h)
  <2>1. PICK shared \in SUBSET Containers : shared = Sharing
    BY DEF Sharing
  <2>2. shared # {}
    BY <1>1, <2>1, FS_EmptySet DEF Repair
  <2>. DEFINE r == [req |-> "repair", met |-> FALSE, at |-> "regenerate", affected |-> shared,
                    todo |-> shared]
  <2>3. /\ r \in RepairRequest /\ r.req = "repair" /\ ~r.met /\ r.at = "regenerate"
        /\ r.affected = shared /\ r.todo = shared
    BY DEF RepairRequest
  <2>4. Begin(h, r)
    BY <1>1, <2>1 DEF Repair
  <2>. HIDE DEF r
  <2>5. r \in Requests /\ ShapeOf(r) /\ Fresh(r)
    BY <2>1, <2>2, <2>3 DEF Requests, ShapeOf, Fresh
  <2>. QED
    BY <2>4, <2>5
<1>2. CASE \E c \in Containers : Limit(h, c)
  <2>1. PICK c \in Containers : Limit(h, c)
    BY <1>2
  <2>2. PICK map \in Map : map = device[c]
    BY DEF Typed, TypeOK
  <2>. DEFINE r == [req |-> "limit", on |-> c, at |-> "patch", map |-> map]
  <2>3. r \in LimitRequest /\ r.req = "limit" /\ r.at = "patch" /\ r.on = c /\ r.map = map
    BY DEF LimitRequest
  <2>4. Begin(h, r)
    BY <2>1, <2>2 DEF Limit
  <2>. HIDE DEF r
  <2>5. r \in Requests /\ ShapeOf(r) /\ Fresh(r)
    BY <2>2, <2>3 DEF Requests, ShapeOf, Fresh
  <2>. QED
    BY <2>4, <2>5
<1>3. CASE \E c \in Containers : \E option \in Options : Harden(h, c, option)
  <2>1. PICK c \in Containers, option \in Options : Harden(h, c, option)
    BY <1>3
  <2>2. PICK map \in Map : map = device[c]
    BY DEF Typed, TypeOK
  <2>3. PICK on \in BOOLEAN : on = power[c].running
    BY DEF Typed, TypeOK
  <2>4. PICK at \in {"stop", "patch"} : at = IF on THEN "stop" ELSE "patch"
    OBVIOUS
  <2>. DEFINE r == [req |-> "harden", on |-> c, met |-> FALSE, option |-> option, map |-> map,
                    wasRunning |-> on, at |-> at]
  <2>5. /\ r \in HardenRequest /\ r.req = "harden" /\ r.on = c /\ ~r.met /\ r.map = map
        /\ r.wasRunning = on /\ r.at = at
    BY DEF HardenRequest
  <2>6. Begin(h, r)
    BY <2>1, <2>2, <2>3, <2>4 DEF Harden
  <2>. HIDE DEF r
  <2>7. r \in Requests /\ ShapeOf(r) /\ Fresh(r)
    BY <2>2, <2>3, <2>4, <2>5 DEF Requests, ShapeOf, Fresh
  <2>. QED
    BY <2>6, <2>7
<1>4. CASE \E c \in Containers : \E action \in Actions : Power(h, c, action)
  <2>1. PICK c \in Containers, action \in Actions : Power(h, c, action)
    BY <1>4
  <2>. DEFINE r == [req |-> "power", on |-> c, met |-> FALSE, action |-> action,
                    at |-> "autostart"]
  <2>2. r \in PowerRequest /\ r.req = "power" /\ ~r.met /\ r.at = "autostart"
    BY DEF PowerRequest
  <2>3. Begin(h, r)
    BY <2>1 DEF Power
  <2>. HIDE DEF r
  <2>4. r \in Requests /\ ShapeOf(r) /\ Fresh(r)
    BY <2>2 DEF Requests, ShapeOf, Fresh
  <2>. QED
    BY <2>3, <2>4
<1>. QED
  BY <1>1, <1>2, <1>3, <1>4

LEMMA ArriveDoes ==
  ASSUME Typed, NEW h \in Handlers, Arrive(h)
  PROVE  /\ Typed' /\ UNCHANGED Stores
         /\ \E r \in Requests : Begin(h, r) /\ Fresh(r)
<1>1. PICK r \in Requests : Begin(h, r) /\ ShapeOf(r) /\ Fresh(r)
  BY QuotaArrives, OthersArrive DEF Arrive
<1>2. UNCHANGED Stores
  BY DEF Arrive, Repair, AdminQuota, CliQuota, Limit, Harden, Power, Stores
<1>3. TypeOK /\ Shape /\ StoresTyped
  BY TypeParts DEF Typed
<1>4. /\ request' \in [Handlers -> Requests \cup {None}]
      /\ drift' \in [Containers -> SUBSET Aspects]
      /\ request'[h] = r \/ (r.req # "limit" /\ request'[h] = Met(r))
      /\ \A g \in Handlers \ {h} :
           \/ request'[g] = request[g]
           \/ /\ request[g] # None /\ request[g].req # "limit"
              /\ request'[g] = Met(request[g])
  BY <1>1, <1>3, Begins
<1>5. ShapeOf(request'[h])
  BY <1>1, <1>4, MetIsSame
<1>6. ASSUME NEW g \in Handlers \ {h}, request'[g] # None
      PROVE  ShapeOf(request'[g])
  <2>1. CASE request'[g] = request[g]
    BY <1>3, <1>6, <2>1 DEF Shape
  <2>2. CASE request[g] # None /\ request[g].req # "limit" /\ request'[g] = Met(request[g])
    <3>1. request[g] \in Requests /\ ShapeOf(request[g])
      BY <1>3, <2>2 DEF Shape, TypeOK
    <3>. QED
      BY <2>2, <3>1, MetIsSame
  <2>. QED
    BY <1>4, <2>1, <2>2
<1>7. Shape'
  <2>1. ASSUME NEW g \in Handlers, request'[g] # None PROVE ShapeOf(request'[g])
    BY <1>5, <1>6, <2>1
  <2>. QED
    BY <2>1 DEF Shape, ShapeOf
<1>8. StoresTyped'
  BY <1>2, <1>3, StoresKept
<1>. QED
  BY <1>1, <1>2, <1>4, <1>7, <1>8 DEF Typed, TypeOK, StoresTyped

-----------------------------------------------------------------------------
(* A guest shuts down, a process dies, the host restarts.                  *)

LEMMA GuestStopsDoes ==
  ASSUME Typed, NEW c \in Containers, GuestStops(c)
  PROVE  /\ Typed' /\ UNCHANGED <<row, config, device, machine, bridge, throttled, request>>
         /\ Noted(c, {"power"})
         /\ \A d \in Containers : /\ d # c => power'[d] = power[d]
                                  /\ power'[d].autostart = power[d].autostart
<1>1. TypeOK /\ Shape /\ StoresTyped
  BY TypeParts DEF Typed
<1>2. /\ power' = [power EXCEPT ![c].running = FALSE] /\ Apart({c}, {"power"})
      /\ UNCHANGED <<row, config, device, machine, bridge, throttled, request>>
  BY DEF GuestStops
<1>3. PICK p \in PowerType : /\ p.autostart = power[c].autostart
                              /\ Powered(c, p) /\ power' \in [Containers -> PowerType]
  BY <1>2, PowerUpdates
<1>4. StoresTyped'
  BY <1>1, <1>2, <1>3 DEF StoresTyped, PowerType
<1>5. drift' \in [Containers -> SUBSET Aspects] /\ Noted(c, {"power"})
  BY <1>2, Notes DEF Aspects
<1>6. Typed'
  <2>1. Shape' /\ request' \in [Handlers -> Requests \cup {None}]
    BY <1>1, <1>2 DEF Shape, TypeOK, ShapeOf
  <2>. QED
    BY <1>4, <1>5, <2>1 DEF Typed, TypeOK, StoresTyped
<1>. QED
  BY <1>2, <1>3, <1>5, <1>6 DEF Powered

LEMMA CrashDoes ==
  ASSUME Typed, NEW h \in Handlers, Crash(h)
  PROVE  /\ Typed' /\ UNCHANGED <<row, config, device, power, machine, bridge>>
         /\ \E r \in Requests :
              /\ Move(h, r, None) /\ NotedOn(Reach(r), Touches(r))
              /\ throttled' = IF r.req = "limit" THEN {c \in Containers : device[c].limit}
                              ELSE throttled
<1>1. TypeOK /\ Shape /\ StoresTyped
  BY TypeParts DEF Typed
<1>2. PICK r \in Requests : r = request[h] /\ request[h] # None
  BY <1>1 DEF Crash, Busy, Idle, TypeOK
<1>3. /\ UNCHANGED <<row, config, device, power, machine, bridge>> /\ Proceed(h, None)
      /\ Apart(Reach(r), Touches(r))
      /\ throttled' = IF r.req = "limit" THEN {c \in Containers : device[c].limit} ELSE throttled
  BY <1>2 DEF Crash, GiveUp
<1>4. StoresTyped'
  BY <1>1, <1>3 DEF StoresTyped
<1>5. drift' \in [Containers -> SUBSET Aspects]
  BY <1>1, <1>3, Reached, DriftTypes DEF Aspects
<1>6. NotedOn(Reach(r), Touches(r))
  BY <1>3 DEF Apart, NotedOn
<1>7. Typed' /\ Move(h, r, None)
  BY <1>1, <1>2, <1>3, <1>4, <1>5, TypedNext, Proceeds DEF Move
<1>. QED
  BY <1>3, <1>6, <1>7

LEMMA RebootDoes ==
  ASSUME Typed, Reboot
  PROVE  /\ Typed' /\ UNCHANGED <<row, config, device, machine, bridge>>
         /\ \A h \in Handlers : request'[h] = None
         /\ throttled' = {c \in Containers : device[c].limit}
         /\ \A c \in Containers : /\ power'[c].running = power[c].autostart
                                  /\ power'[c].autostart = power[c].autostart
                                  /\ power'[c].asked = power[c].asked
         /\ \A c \in Containers : \A a \in Aspects \ {"limit"} : a \in drift[c] => a \in drift'[c]
         /\ \A c \in Containers, h \in Handlers :
              Quotas(request[h], c) => {"quota", "traffic"} \subseteq drift'[c]
         /\ \A c \in Containers, h \in Handlers :
              request[h] # None /\ request[h].req = "power" /\ request[h].on = c =>
                "power" \in drift'[c]
<1>1. TypeOK /\ Shape /\ StoresTyped
  BY TypeParts DEF Typed
<1>2. /\ UNCHANGED <<row, config, device, machine, bridge>>
      /\ power' = [c \in Containers |-> [power[c] EXCEPT !.running = power[c].autostart]]
      /\ throttled' = {c \in Containers : device[c].limit}
      /\ request' = [h \in Handlers |-> None]
      /\ drift' = [c \in Containers |->
                     (drift[c] \ {"limit"})
                     \cup UNION {Touches(request[h]) : h \in
                                   {g \in Busy : /\ request[g].req \in {"quota", "power"}
                                                 /\ request[g].on = c}}]
  BY DEF Reboot
<1>3. ASSUME NEW c \in Containers
      PROVE  /\ power'[c] \in PowerType
             /\ power'[c].running = power[c].autostart
             /\ power'[c].autostart = power[c].autostart
             /\ power'[c].asked = power[c].asked
  <2>1. PICK p \in PowerType : p = power[c]
    BY <1>1 DEF StoresTyped, PowerType
  <2>2. power'[c] = [p EXCEPT !.running = p.autostart]
    BY <1>2, <2>1
  <2>3. power' [c] \in PowerType /\ power'[c].running = p.autostart
        /\ power'[c].autostart = p.autostart /\ power'[c].asked = p.asked
    BY <2>2 DEF PowerType
  <2>. QED
    BY <2>1, <2>3
<1>4. StoresTyped'
  <2>1. power' \in [Containers -> PowerType]
    BY <1>2, <1>3
  <2>. QED
    BY <1>1, <1>2, <2>1 DEF StoresTyped, PowerType
<1>5. \A h \in Handlers : request'[h] = None
  BY <1>2
<1>6. Shape' /\ request' \in [Handlers -> Requests \cup {None}]
  BY <1>2, <1>5 DEF Shape
<1>. DEFINE Lost(c) == {g \in Busy : request[g].req \in {"quota", "power"} /\ request[g].on = c}
<1>7. \A c \in Containers :
        drift'[c] = (drift[c] \ {"limit"}) \cup UNION {Touches(request[h]) : h \in Lost(c)}
  BY <1>2
<1>8. \A g \in Busy : Touches(request[g]) \subseteq Aspects
  BY <1>1, Reached DEF Busy, Idle, TypeOK, Aspects
<1>9. drift' \in [Containers -> SUBSET Aspects]
  <2>1. \A c \in Containers : drift[c] \subseteq Aspects
    BY <1>1 DEF TypeOK
  <2>2. \A c \in Containers : UNION {Touches(request[h]) : h \in Lost(c)} \subseteq Aspects
    BY <1>8
  <2>3. \A c \in Containers : drift'[c] \subseteq Aspects
    BY <1>7, <2>1, <2>2
  <2>4. drift' = [c \in Containers |-> drift'[c]]
    BY <1>2
  <2>. QED
    BY <2>3, <2>4
<1>10. ASSUME NEW c \in Containers, NEW a \in Aspects \ {"limit"}, a \in drift[c]
       PROVE  a \in drift'[c]
  BY <1>7, <1>10
<1>11. ASSUME NEW c \in Containers, NEW h \in Handlers, request[h] # None,
              request[h].req \in {"quota", "power"}, request[h].on = c
       PROVE  Touches(request[h]) \subseteq drift'[c]
  BY <1>7, <1>11 DEF Busy, Idle
<1>12. ASSUME NEW c \in Containers, NEW h \in Handlers, Quotas(request[h], c)
       PROVE  {"quota", "traffic"} \subseteq drift'[c]
  BY <1>11, <1>12 DEF Quotas, Touches
<1>13. ASSUME NEW c \in Containers, NEW h \in Handlers, request[h] # None,
              request[h].req = "power", request[h].on = c
       PROVE  "power" \in drift'[c]
  BY <1>11, <1>13 DEF Touches
<1>14. Typed'
  BY <1>4, <1>6, <1>9 DEF Typed, TypeOK, StoresTyped
<1>. QED
  BY <1>2, <1>3, <1>5, <1>10, <1>12, <1>13, <1>14

LEMMA Stutters ==
  ASSUME Typed, UNCHANGED vars
  PROVE  Typed'
BY DEF Typed, TypeOK, Shape, ShapeOf, vars

-----------------------------------------------------------------------------
LEMMA TypedStep == Typed /\ [Next]_vars => Typed'
<1>. SUFFICES ASSUME Typed, [Next]_vars PROVE Typed'
  OBVIOUS
<1>1. ASSUME NEW h \in Handlers, Arrive(h) PROVE Typed'
  BY <1>1, ArriveDoes
<1>2. ASSUME NEW h \in Handlers, Continue(h) PROVE Typed'
  <2>1. CASE ReadTraffic(h) \/ SetTraffic(h) \/ ReadRow(h) \/ SetLimit(h) \/ PatchDisk(h)
    BY <2>1, ReadTrafficDoes, SetTrafficDoes, ReadRowDoes, SetLimitDoes, PatchDiskDoes
  <2>2. CASE SaveRow(h) \/ Undo(h) \/ UnpatchDisk(h) \/ Undone(h) \/ RestoreTraffic(h)
    BY <2>2, SaveRowDoes, UndoDoes, UnpatchDiskDoes, UndoneDoes, RestoreTrafficDoes
  <2>3. CASE PatchLimit(h) \/ HardenStop(h) \/ HardenPatch(h) \/ HardenStart(h)
    BY <2>3, PatchLimitDoes, HardenStopDoes, HardenPatchDoes, HardenStartDoes
  <2>4. CASE SetAutostart(h) \/ SetState(h) \/ DropLeases(h) \/ DhcpOff(h) \/ DhcpOn(h)
    BY <2>4, SetAutostartDoes, SetStateDoes, BridgeStepDoes
  <2>5. CASE \E c \in Containers : Regenerate(h, c) \/ RepairStop(h, c) \/ RepairStart(h, c)
    BY <2>5, RegenerateDoes, RepairStopDoes, RepairStartDoes
  <2>. QED
    BY <1>2, <2>1, <2>2, <2>3, <2>4, <2>5 DEF Continue
<1>3. ASSUME NEW h \in Handlers, Crash(h) PROVE Typed'
  BY <1>3, CrashDoes
<1>4. ASSUME NEW c \in Containers, GuestStops(c) PROVE Typed'
  BY <1>4, GuestStopsDoes
<1>5. CASE Reboot
  BY <1>5, RebootDoes
<1>6. CASE UNCHANGED vars
  BY <1>6, Stutters
<1>. QED
  BY <1>1, <1>2, <1>3, <1>4, <1>5, <1>6 DEF Next

(* Every store and every request keeps its type, whatever operators type   *)
(* and however wide the program's integers are: the quotas a request keeps *)
(* to restore are there when it restores them.                             *)
THEOREM TypeCorrect == Spec => []TypeOK
<1>1. Init => Typed
  BY InitTypes DEF Typed
<1>2. Typed => TypeOK
  BY DEF Typed
<1>. QED
  BY <1>1, <1>2, TypedStep, PTL DEF Spec

-----------------------------------------------------------------------------
(* The limiter's memory, and every copy of a map, agree with the device.   *)

LEMMA LimitNext ==
  (\A c \in Containers : LimitInvOf(drift'[c], device'[c], c \in throttled', request', c)) => LimitInv'
BY DEF LimitInv, LimitInvOf, Copies

(* What holds a copy of a device map, and what does not.                   *)
LEMMA CopyKinds ==
  ASSUME NEW r \in Requests, NEW c
  PROVE  /\ Copies(r, c) => r.on = c /\ r.req \in {"quota", "limit", "harden"}
         /\ r.req = "quota" => (Copies(r, c) <=> r.at \in {"patch", "unpatch"} /\ r.on = c)
         /\ r.req = "limit" => (Copies(r, c) <=> r.on = c)
         /\ r.req = "harden" => (Copies(r, c) <=> r.at \in {"stop", "patch"} /\ r.on = c)
         /\ ~Copies(None, c)
BY RequestKind
   DEF Copies, QuotaRequest, LimitRequest, HardenRequest, PowerRequest, RepairRequest

LEMMA MetCopies ==
  ASSUME NEW r \in Requests, r.req # "limit", NEW c
  PROVE  /\ Copies(Met(r), c) <=> Copies(r, c)
         /\ Copies(r, c) => Met(r).map = r.map
<1>1. Met(r) \in Requests /\ Met(r).req = r.req /\ Met(r).at = r.at
  BY MetIsSame
<1>2. CASE r.req = "quota"
  <2>1. Met(r).on = r.on /\ Met(r).map = r.map
    BY <1>2, RequestKind DEF QuotaRequest, Met
  <2>. QED
    BY <1>1, <1>2, <2>1, CopyKinds
<1>3. CASE r.req = "harden"
  <2>1. Met(r).on = r.on /\ Met(r).map = r.map
    BY <1>3, RequestKind DEF HardenRequest, Met
  <2>. QED
    BY <1>1, <1>3, <2>1, CopyKinds
<1>4. CASE r.req \in {"power", "repair"}
  BY <1>1, <1>4, CopyKinds
<1>. QED
  BY <1>2, <1>3, <1>4, RequestKind

(* A step that writes no map: a copy it takes is of the device.            *)
LEMMA LimitFrame ==
  ASSUME LimitInv, NEW h \in Handlers, NEW r, NEW s, Move(h, r, s),
         UNCHANGED <<device, throttled>>,
         \A c \in Containers : "limit" \notin drift'[c] => "limit" \notin drift[c],
         \A c \in Containers : Copies(s, c) =>
           s.map.limit = device[c].limit \/ (Copies(r, c) /\ s.map = r.map)
  PROVE  LimitInv'
<1>1. ASSUME NEW c \in Containers, "limit" \notin drift'[c]
      PROVE  /\ device'[c].limit <=> c \in throttled'
             /\ \A g \in Handlers : Copies(request'[g], c) => request'[g].map.limit = device'[c].limit
  <2>1. /\ device[c].limit <=> c \in throttled
        /\ \A g \in Handlers : Copies(request[g], c) => request[g].map.limit = device[c].limit
    BY <1>1 DEF LimitInv, LimitInvOf
  <2>. QED
    BY <2>1 DEF Move
<1>. QED
  BY <1>1, LimitNext DEF LimitInvOf

(* A write of a map with the limit of the writer's copy.                   *)
LEMMA LimitWrite ==
  ASSUME LimitInv, NEW h \in Handlers, NEW r, NEW s, Move(h, r, s),
         NEW c \in Containers, Copies(r, c), \A d \in Containers : ~Copies(s, d),
         NEW map, map.limit = r.map.limit, Put(c, map), throttled' = throttled,
         NEW aspects, Noted(c, aspects)
  PROVE  LimitInv'
<1>1. ASSUME NEW d \in Containers, "limit" \notin drift'[d]
      PROVE  /\ device'[d].limit <=> d \in throttled'
             /\ \A g \in Handlers : Copies(request'[g], d) => request'[g].map.limit = device'[d].limit
  <2>1. "limit" \notin drift[d]
    BY <1>1 DEF Noted
  <2>2. /\ device[d].limit <=> d \in throttled
        /\ \A g \in Handlers : Copies(request[g], d) => request[g].map.limit = device[d].limit
    BY <2>1 DEF LimitInv, LimitInvOf
  <2>3. device'[d].limit = device[d].limit
    BY <2>2 DEF Put, Move
  <2>. QED
    BY <2>2, <2>3 DEF Move
<1>. QED
  BY <1>1, LimitNext DEF LimitInvOf

LEMMA LimitByQuotas ==
  ASSUME Typed, LimitInv, NEW h \in Handlers,
         \/ ReadTraffic(h) \/ SetTraffic(h) \/ ReadRow(h) \/ SetLimit(h) \/ PatchDisk(h)
         \/ SaveRow(h) \/ Undo(h) \/ UnpatchDisk(h) \/ Undone(h) \/ RestoreTraffic(h)
  PROVE  LimitInv'
<1>0. \A r \in QuotaRequest : /\ r \in Requests /\ r.req = "quota" /\ r.on \in Containers
                              /\ \A c : Copies(r, c) <=> r.at \in {"patch", "unpatch"} /\ r.on = c
  <2>1. \A r \in QuotaRequest : r \in Requests /\ r.req = "quota" /\ r.on \in Containers
    BY DEF QuotaRequest, Requests
  <2>. QED
    BY <2>1, CopyKinds
<1>1. CASE ReadTraffic(h)
  <2>1. PICK r, s \in QuotaRequest : Move(h, r, s) /\ s.at = "traffic"
    BY <1>1, ReadTrafficDoes
  <2>2. UNCHANGED <<device, throttled, drift>>
    BY <1>1, ReadTrafficDoes DEF Stores
  <2>. QED
    BY <1>0, <2>1, <2>2, LimitFrame
<1>2. CASE SetTraffic(h)
  <2>1. PICK r \in QuotaRequest, s \in QuotaRequest \cup {None} :
          Move(h, r, s) /\ (s # None => s.at = "read")
    BY <1>2, SetTrafficDoes
  <2>2. UNCHANGED <<device, throttled, drift>>
    BY <1>2, SetTrafficDoes
  <2>. QED
    BY <1>0, <2>1, <2>2, LimitFrame DEF Copies
<1>3. CASE ReadRow(h)
  <2>1. PICK r, s \in QuotaRequest : Move(h, r, s) /\ s.at \in {"set", "restore"}
    BY <1>3, ReadRowDoes
  <2>2. UNCHANGED <<device, throttled, drift>>
    BY <1>3, ReadRowDoes DEF Stores
  <2>. QED
    BY <1>0, <2>1, <2>2, LimitFrame
<1>4. CASE SetLimit(h)
  <2>1. PICK r, s \in QuotaRequest :
          /\ Move(h, r, s) /\ s.on = r.on
          /\ s.at \in {"set", "undo"} \/ (s.at = "patch" /\ s.map = device[r.on])
          /\ drift' = drift \/ Noted(r.on, {"quota"})
    BY <1>4, SetLimitDoes DEF SameAsk
  <2>2. UNCHANGED <<device, throttled>>
    BY <1>4, SetLimitDoes
  <2>3. \A c \in Containers : "limit" \notin drift'[c] => "limit" \notin drift[c]
    BY <2>1 DEF Noted
  <2>. QED
    BY <1>0, <2>1, <2>2, <2>3, LimitFrame
<1>5. CASE PatchDisk(h)
  <2>1. throttled' = throttled
    BY <1>5, PatchDiskDoes
  <2>2. PICK r, s \in QuotaRequest :
          /\ Move(h, r, s) /\ r.at = "patch"
          /\ s.at \in {"set", "undo"}
          /\ \/ \E map \in Map : \E aspects : /\ map.limit = r.map.limit
                                              /\ Put(r.on, map) /\ Noted(r.on, aspects)
             \/ UNCHANGED <<device, drift>>
    BY <1>5, PatchDiskDoes
  <2>3. CASE UNCHANGED <<device, drift>>
    BY <1>0, <2>1, <2>2, <2>3, LimitFrame
  <2>4. CASE \E map \in Map : \E aspects : /\ map.limit = r.map.limit
                                           /\ Put(r.on, map) /\ Noted(r.on, aspects)
    BY <1>0, <2>1, <2>2, <2>4, LimitWrite
  <2>. QED
    BY <2>2, <2>3, <2>4
<1>6. CASE SaveRow(h)
  <2>1. PICK r \in QuotaRequest, s \in QuotaRequest \cup {None} :
          /\ Move(h, r, s) /\ (s # None => s.at = "undo")
          /\ \A d \in Containers : d # r.on => drift'[d] = drift[d]
          /\ \A aspect \in drift[r.on] : aspect \in drift'[r.on] \/ aspect \in {"quota", "traffic"}
    BY <1>6, SaveRowDoes
  <2>2. UNCHANGED <<device, throttled>>
    BY <1>6, SaveRowDoes
  <2>3. \A c \in Containers : "limit" \notin drift'[c] => "limit" \notin drift[c]
    BY <2>1
  <2>. QED
    BY <1>0, <2>1, <2>2, <2>3, LimitFrame DEF Copies
<1>7. CASE Undo(h)
  <2>1. PICK r, s \in QuotaRequest :
          /\ Move(h, r, s) /\ s.on = r.on
          /\ s.at = "undo" \/ (s.at = "unpatch" /\ s.map = device[r.on])
          /\ drift' = drift \/ Noted(r.on, {"quota"})
    BY <1>7, UndoDoes DEF SameAsk
  <2>2. UNCHANGED <<device, throttled>>
    BY <1>7, UndoDoes
  <2>3. \A c \in Containers : "limit" \notin drift'[c] => "limit" \notin drift[c]
    BY <2>1 DEF Noted
  <2>. QED
    BY <1>0, <2>1, <2>2, <2>3, LimitFrame
<1>8. CASE UnpatchDisk(h)
  <2>1. throttled' = throttled
    BY <1>8, UnpatchDiskDoes
  <2>2. PICK r, s \in QuotaRequest :
          /\ Move(h, r, s) /\ r.at = "unpatch" /\ s.at = "undo"
          /\ \/ \E map \in Map : \E aspects : /\ map.limit = r.map.limit
                                              /\ Put(r.on, map) /\ Noted(r.on, aspects)
             \/ device' = device /\ Noted(r.on, {"quota"})
    BY <1>8, UnpatchDiskDoes
  <2>3. CASE device' = device /\ Noted(r.on, {"quota"})
    <3>1. \A c \in Containers : "limit" \notin drift'[c] => "limit" \notin drift[c]
      BY <2>3 DEF Noted
    <3>. QED
      BY <1>0, <2>1, <2>2, <2>3, <3>1, LimitFrame
  <2>4. CASE \E map \in Map : \E aspects : /\ map.limit = r.map.limit
                                           /\ Put(r.on, map) /\ Noted(r.on, aspects)
    BY <1>0, <2>1, <2>2, <2>4, LimitWrite
  <2>. QED
    BY <2>2, <2>3, <2>4
<1>9. CASE Undone(h)
  <2>1. PICK r, s \in QuotaRequest : Move(h, r, s) /\ s.at = "restore"
    BY <1>9, UndoneDoes
  <2>2. UNCHANGED <<device, throttled, drift>>
    BY <1>9, UndoneDoes DEF Stores
  <2>. QED
    BY <1>0, <2>1, <2>2, LimitFrame
<1>10. CASE RestoreTraffic(h)
  <2>1. PICK r \in QuotaRequest : Move(h, r, None) /\ (drift' = drift \/ Noted(r.on, {"traffic"}))
    BY <1>10, RestoreTrafficDoes
  <2>2. UNCHANGED <<device, throttled>>
    BY <1>10, RestoreTrafficDoes
  <2>3. \A c \in Containers : "limit" \notin drift'[c] => "limit" \notin drift[c]
    BY <2>1 DEF Noted
  <2>. QED
    BY <2>1, <2>2, <2>3, LimitFrame DEF Copies
<1>. QED
  BY <1>1, <1>2, <1>3, <1>4, <1>5, <1>6, <1>7, <1>8, <1>9, <1>10

LEMMA LimitByLimiter ==
  ASSUME Typed, LimitInv, NEW h \in Handlers, PatchLimit(h)
  PROVE  LimitInv'
<1>1. PICK r \in LimitRequest :
        /\ Move(h, r, None)
        /\ \/ \E map \in Map :
                /\ map.limit = (r.on \notin throttled)
                /\ Put(r.on, map)
                /\ throttled' = IF r.on \notin throttled THEN throttled \cup {r.on}
                                ELSE throttled \ {r.on}
                /\ drift'[r.on] = (drift[r.on] \ {"limit"}) \cup Stale(h, r.on, map)
                /\ \A d \in Containers : d # r.on => drift'[d] = drift[d]
           \/ UNCHANGED <<device, throttled, drift>>
           \/ \E map \in Map :
                /\ Put(r.on, map) /\ throttled' = throttled
                /\ Noted(r.on, Stale(h, r.on, map) \cup {"limit"})
  BY PatchLimitDoes
<1>2. CASE UNCHANGED <<device, throttled, drift>>
  BY <1>1, <1>2, LimitFrame DEF Copies
<1>3. ASSUME NEW map \in Map,
             map.limit = (r.on \notin throttled),
             Put(r.on, map),
             throttled' = IF r.on \notin throttled THEN throttled \cup {r.on}
                          ELSE throttled \ {r.on},
             drift'[r.on] = (drift[r.on] \ {"limit"}) \cup Stale(h, r.on, map),
             \A d \in Containers : d # r.on => drift'[d] = drift[d]
      PROVE  LimitInv'
  <2>1. r.on \in Containers
    BY DEF LimitRequest
  <2>2. ASSUME "limit" \notin drift'[r.on]
        PROVE  /\ device'[r.on].limit <=> r.on \in throttled'
               /\ \A g \in Handlers : Copies(request'[g], r.on) =>
                    request'[g].map.limit = device'[r.on].limit
    <3>1. device'[r.on] = map
      BY <1>3 DEF Put
    <3>2. "limit" \notin Stale(h, r.on, map)
      BY <1>3, <2>2
    <3>3. \A g \in Handlers : g # h /\ Copies(request[g], r.on) => request[g].map.limit = map.limit
      BY <2>1, <3>2, StaleMeans
    <3>4. map.limit <=> r.on \in throttled'
      BY <1>3
    <3>5. \A g \in Handlers : Copies(request'[g], r.on) => g # h /\ request'[g] = request[g]
      BY <1>1 DEF Move, Copies
    <3>. QED
      BY <3>1, <3>3, <3>4, <3>5
  <2>3. ASSUME NEW d \in Containers, d # r.on, "limit" \notin drift'[d]
        PROVE  /\ device'[d].limit <=> d \in throttled'
               /\ \A g \in Handlers : Copies(request'[g], d) =>
                    request'[g].map.limit = device'[d].limit
    <3>1. /\ device[d].limit <=> d \in throttled
          /\ \A g \in Handlers : Copies(request[g], d) => request[g].map.limit = device[d].limit
      BY <1>3, <2>3 DEF LimitInv, LimitInvOf
    <3>2. device'[d] = device[d] /\ (d \in throttled' <=> d \in throttled)
      BY <1>3, <2>3 DEF Put
    <3>. QED
      BY <1>1, <3>1, <3>2 DEF Move, Copies
  <2>. QED
    BY <2>2, <2>3, LimitNext DEF LimitInvOf
<1>4. ASSUME NEW map \in Map, Put(r.on, map), throttled' = throttled,
             Noted(r.on, Stale(h, r.on, map) \cup {"limit"})
      PROVE  LimitInv'
  <2>1. ASSUME NEW d \in Containers, "limit" \notin drift'[d]
        PROVE  /\ device'[d].limit <=> d \in throttled'
               /\ \A g \in Handlers : Copies(request'[g], d) =>
                    request'[g].map.limit = device'[d].limit
    <3>1. d # r.on /\ "limit" \notin drift[d]
      BY <1>4, <2>1 DEF Noted
    <3>2. /\ device[d].limit <=> d \in throttled
          /\ \A g \in Handlers : Copies(request[g], d) => request[g].map.limit = device[d].limit
      BY <3>1 DEF LimitInv, LimitInvOf
    <3>3. device'[d] = device[d]
      BY <1>4, <3>1 DEF Put
    <3>. QED
      BY <1>1, <1>4, <3>2, <3>3 DEF Move, Copies
  <2>. QED
    BY <2>1, LimitNext DEF LimitInvOf
<1>. QED
  BY <1>1, <1>2, <1>3, <1>4

LEMMA LimitByOthers ==
  ASSUME Typed, LimitInv, NEW h \in Handlers,
         \/ HardenStop(h) \/ HardenPatch(h) \/ HardenStart(h) \/ SetAutostart(h) \/ SetState(h)
         \/ DropLeases(h) \/ DhcpOff(h) \/ DhcpOn(h)
         \/ \E c \in Containers : Regenerate(h, c) \/ RepairStop(h, c) \/ RepairStart(h, c)
  PROVE  LimitInv'
<1>1. \A r \in HardenRequest : /\ r \in Requests /\ r.on \in Containers
                               /\ \A c : Copies(r, c) <=> r.at \in {"stop", "patch"} /\ r.on = c
  <2>1. \A r \in HardenRequest : r \in Requests /\ r.req = "harden" /\ r.on \in Containers
    BY DEF HardenRequest, Requests
  <2>. QED
    BY <2>1, CopyKinds
<1>2. \A r \in PowerRequest \cup RepairRequest \cup {None} : \A c : ~Copies(r, c)
  <2>1. \A r \in PowerRequest \cup RepairRequest : r \in Requests /\ r.req \in {"power", "repair"}
    BY DEF PowerRequest, RepairRequest, Requests
  <2>2. \A r \in PowerRequest \cup RepairRequest : \A c : ~Copies(r, c)
    BY <2>1, CopyKinds
  <2>3. \A c : ~Copies(None, c)
    BY DEF Copies
  <2>. QED
    BY <2>2, <2>3
<1>3. CASE HardenStop(h)
  <2>1. PICK r \in HardenRequest, s \in HardenRequest \cup {None} :
          /\ Move(h, r, s) /\ r.at = "stop"
          /\ s = None \/ (s # None /\ SameHarden(r, s))
          /\ drift' = drift \/ Noted(r.on, {"power"})
    BY <1>3, HardenStopDoes
  <2>2. UNCHANGED <<device, throttled>>
    BY <1>3, HardenStopDoes
  <2>3. \A c \in Containers : "limit" \notin drift'[c] => "limit" \notin drift[c]
    BY <2>1 DEF Noted
  <2>. QED
    BY <1>1, <1>2, <2>1, <2>2, <2>3, LimitFrame DEF SameHarden
<1>4. CASE HardenPatch(h)
  <2>1. throttled' = throttled
    BY <1>4, HardenPatchDoes
  <2>2. PICK r \in HardenRequest, s \in HardenRequest \cup {None} :
          /\ Move(h, r, s) /\ r.at = "patch"
          /\ s # None => s.at = "start"
          /\ \/ \E map \in Map : \E aspects : /\ map.limit = r.map.limit
                                              /\ Put(r.on, map) /\ Noted(r.on, aspects)
             \/ device' = device /\ (drift' = drift \/ Noted(r.on, {"power"}))
    BY <1>4, HardenPatchDoes
  <2>3. \A c : ~Copies(s, c)
    BY <1>1, <1>2, <2>2
  <2>4. CASE device' = device /\ (drift' = drift \/ Noted(r.on, {"power"}))
    <3>1. \A c \in Containers : "limit" \notin drift'[c] => "limit" \notin drift[c]
      BY <2>4 DEF Noted
    <3>. QED
      BY <2>1, <2>2, <2>3, <2>4, <3>1, LimitFrame
  <2>5. CASE \E map \in Map : \E aspects : /\ map.limit = r.map.limit
                                           /\ Put(r.on, map) /\ Noted(r.on, aspects)
    BY <1>1, <2>1, <2>2, <2>3, <2>5, LimitWrite
  <2>. QED
    BY <2>2, <2>4, <2>5
<1>5. CASE HardenStart(h)
  <2>1. PICK r \in HardenRequest : Move(h, r, None) /\ (drift' = drift \/ Noted(r.on, {"power"}))
    BY <1>5, HardenStartDoes
  <2>2. UNCHANGED <<device, throttled>>
    BY <1>5, HardenStartDoes
  <2>3. \A c \in Containers : "limit" \notin drift'[c] => "limit" \notin drift[c]
    BY <2>1 DEF Noted
  <2>. QED
    BY <1>2, <2>1, <2>2, <2>3, LimitFrame
<1>6. CASE SetAutostart(h)
  <2>1. PICK r \in PowerRequest, s \in PowerRequest \cup {None} :
          Move(h, r, s) /\ (drift' = drift \/ Noted(r.on, {"power"}))
    BY <1>6, SetAutostartDoes
  <2>2. UNCHANGED <<device, throttled>>
    BY <1>6, SetAutostartDoes
  <2>3. \A c \in Containers : "limit" \notin drift'[c] => "limit" \notin drift[c]
    BY <2>1 DEF Noted
  <2>. QED
    BY <1>2, <2>1, <2>2, <2>3, LimitFrame
<1>7. CASE SetState(h)
  <2>1. PICK r \in PowerRequest :
          /\ Move(h, r, None)
          /\ \/ /\ \A d \in Containers : d # r.on => drift'[d] = drift[d]
                /\ drift'[r.on] = drift[r.on] \/ drift'[r.on] = drift[r.on] \ {"power"}
             \/ Noted(r.on, {"power"})
    BY <1>7, SetStateDoes
  <2>2. UNCHANGED <<device, throttled>>
    BY <1>7, SetStateDoes
  <2>3. \A c \in Containers : "limit" \notin drift'[c] => "limit" \notin drift[c]
    BY <2>1 DEF Noted
  <2>. QED
    BY <1>2, <2>1, <2>2, <2>3, LimitFrame
<1>8. CASE DropLeases(h) \/ DhcpOff(h) \/ DhcpOn(h)
  <2>1. PICK r \in RepairRequest, s \in RepairRequest \cup {None} :
          Move(h, r, s) /\ (drift' = drift \/ NotedOn(r.affected, {"power"}))
    BY <1>8, BridgeStepDoes
  <2>2. UNCHANGED <<device, throttled>>
    BY <1>8, BridgeStepDoes
  <2>3. \A c \in Containers : "limit" \notin drift'[c] => "limit" \notin drift[c]
    BY <2>1 DEF NotedOn
  <2>. QED
    BY <1>2, <2>1, <2>2, <2>3, LimitFrame
<1>9. CASE \E c \in Containers : Regenerate(h, c) \/ RepairStop(h, c) \/ RepairStart(h, c)
  <2>1. PICK r \in RepairRequest, s \in RepairRequest \cup {None} :
          Move(h, r, s) /\ (drift' = drift \/ NotedOn(r.affected, {"power"}))
    <3>1. ASSUME NEW c \in Containers, Regenerate(h, c) \/ RepairStop(h, c) \/ RepairStart(h, c)
          PROVE  \E r \in RepairRequest, s \in RepairRequest \cup {None} :
                   Move(h, r, s) /\ (drift' = drift \/ NotedOn(r.affected, {"power"}))
      <4>1. CASE Regenerate(h, c)
        BY <4>1, RegenerateDoes
      <4>2. CASE RepairStop(h, c)
        BY <4>2, RepairStopDoes
      <4>3. CASE RepairStart(h, c)
        BY <4>3, RepairStartDoes
      <4>. QED
        BY <3>1, <4>1, <4>2, <4>3
    <3>. QED
      BY <1>9, <3>1
  <2>2. UNCHANGED <<device, throttled>>
    BY <1>9, RegenerateDoes, RepairStopDoes, RepairStartDoes
  <2>3. \A c \in Containers : "limit" \notin drift'[c] => "limit" \notin drift[c]
    BY <2>1 DEF NotedOn
  <2>. QED
    BY <1>2, <2>1, <2>2, <2>3, LimitFrame
<1>. QED
  BY <1>3, <1>4, <1>5, <1>6, <1>7, <1>8, <1>9

LEMMA LimitByArrivals ==
  ASSUME Typed, LimitInv, NEW h \in Handlers, Arrive(h)
  PROVE  LimitInv'
<1>1. PICK r \in Requests : Begin(h, r) /\ Fresh(r)
  BY ArriveDoes
<1>2. UNCHANGED <<device, throttled>>
  BY ArriveDoes DEF Stores
<1>3. TypeOK
  BY DEF Typed
<1>4. /\ request'[h] = r \/ (r.req # "limit" /\ request'[h] = Met(r))
      /\ \A g \in Handlers \ {h} :
           \/ request'[g] = request[g]
           \/ /\ request[g] # None /\ request[g].req # "limit"
              /\ request'[g] = Met(request[g])
      /\ \A c \in Containers : drift[c] \subseteq drift'[c]
  BY <1>1, <1>3, Begins
<1>5. ASSUME NEW c \in Containers, Copies(request'[h], c)
      PROVE  request'[h].map = device[c]
  <2>1. Copies(r, c) /\ request'[h].map = r.map
    BY <1>4, <1>5, MetCopies
  <2>2. r.map = device[c]
    BY <1>1, <2>1, CopyKinds DEF Fresh
  <2>. QED
    BY <2>1, <2>2
<1>6. ASSUME NEW c \in Containers, NEW g \in Handlers \ {h}, Copies(request'[g], c)
      PROVE  Copies(request[g], c) /\ request'[g].map = request[g].map
  BY <1>3, <1>4, <1>6, MetCopies DEF TypeOK
<1>7. ASSUME NEW c \in Containers, "limit" \notin drift'[c]
      PROVE  /\ device'[c].limit <=> c \in throttled'
             /\ \A g \in Handlers : Copies(request'[g], c) => request'[g].map.limit = device'[c].limit
  <2>1. /\ device[c].limit <=> c \in throttled
        /\ \A g \in Handlers : Copies(request[g], c) => request[g].map.limit = device[c].limit
    BY <1>4, <1>7 DEF LimitInv, LimitInvOf
  <2>. QED
    BY <1>2, <1>5, <1>6, <2>1
<1>. QED
  BY <1>7, LimitNext DEF LimitInvOf

LEMMA LimitStep == Typed /\ LimitInv /\ [Next]_vars => LimitInv'
<1>. SUFFICES ASSUME Typed, LimitInv, [Next]_vars PROVE LimitInv'
  OBVIOUS
<1>1. ASSUME NEW h \in Handlers, Arrive(h) PROVE LimitInv'
  BY <1>1, LimitByArrivals
<1>2. ASSUME NEW h \in Handlers, Continue(h) PROVE LimitInv'
  <2>1. CASE PatchLimit(h)
    BY <2>1, LimitByLimiter
  <2>2. CASE \/ ReadTraffic(h) \/ SetTraffic(h) \/ ReadRow(h) \/ SetLimit(h) \/ PatchDisk(h)
             \/ SaveRow(h) \/ Undo(h) \/ UnpatchDisk(h) \/ Undone(h) \/ RestoreTraffic(h)
    BY <2>2, LimitByQuotas
  <2>3. CASE \/ HardenStop(h) \/ HardenPatch(h) \/ HardenStart(h) \/ SetAutostart(h) \/ SetState(h)
             \/ DropLeases(h) \/ DhcpOff(h) \/ DhcpOn(h)
             \/ \E c \in Containers : Regenerate(h, c) \/ RepairStop(h, c) \/ RepairStart(h, c)
    BY <2>3, LimitByOthers
  <2>. QED
    BY <1>2, <2>1, <2>2, <2>3 DEF Continue
<1>3. ASSUME NEW h \in Handlers, Crash(h) PROVE LimitInv'
  <2>1. PICK r \in Requests :
          /\ Move(h, r, None) /\ NotedOn(Reach(r), Touches(r))
          /\ throttled' = IF r.req = "limit" THEN {c \in Containers : device[c].limit}
                          ELSE throttled
    BY <1>3, CrashDoes
  <2>2. device' = device
    BY <1>3, CrashDoes
  <2>3. ASSUME NEW c \in Containers, "limit" \notin drift'[c]
        PROVE  /\ device'[c].limit <=> c \in throttled'
               /\ \A g \in Handlers : Copies(request'[g], c) =>
                    request'[g].map.limit = device'[c].limit
    <3>1. "limit" \notin drift[c]
      BY <2>1, <2>3 DEF NotedOn
    <3>2. /\ device[c].limit <=> c \in throttled
          /\ \A g \in Handlers : Copies(request[g], c) => request[g].map.limit = device[c].limit
      BY <3>1 DEF LimitInv, LimitInvOf
    <3>3. device[c].limit <=> c \in throttled'
      BY <2>1, <3>2
    <3>. QED
      BY <2>1, <2>2, <3>2, <3>3 DEF Move, Copies
  <2>. QED
    BY <2>3, LimitNext DEF LimitInvOf
<1>4. ASSUME NEW c \in Containers, GuestStops(c) PROVE LimitInv'
  <2>1. UNCHANGED <<device, throttled, request>> /\ Noted(c, {"power"})
    BY <1>4, GuestStopsDoes
  <2>2. \A d \in Containers : "limit" \notin drift'[d] => "limit" \notin drift[d]
    BY <2>1 DEF Noted
  <2>3. \A d \in Containers : LimitInvOf(drift'[d], device'[d], d \in throttled', request', d)
    BY <2>1, <2>2 DEF LimitInv, LimitInvOf
  <2>. QED
    BY <2>3, LimitNext
<1>5. CASE Reboot
  <2>1. /\ device' = device /\ throttled' = {c \in Containers : device[c].limit}
        /\ \A g \in Handlers : request'[g] = None
    BY <1>5, RebootDoes
  <2>2. \A d \in Containers : LimitInvOf(drift'[d], device'[d], d \in throttled', request', d)
    BY <2>1 DEF LimitInvOf, Copies
  <2>. QED
    BY <2>2, LimitNext
<1>6. CASE UNCHANGED vars
  BY <1>6 DEF vars, LimitInv, LimitInvOf, Copies
<1>. QED
  BY <1>1, <1>2, <1>3, <1>4, <1>5, <1>6 DEF Next

(* Of any number of quota requests, hardenings and limiters that write     *)
(* whole device maps over each other, none loses a limit that the limiter  *)
(* remembers, or brings one back, but by a copy noted as stale.            *)
THEOREM LimitStaysKept == Spec => []LimitKept
<1>1. Init => Typed /\ LimitInv
  <2>1. Init => Typed
    BY InitTypes DEF Typed
  <2>2. Init => LimitInv
    BY DEF Init, LimitInv, LimitInvOf, Copies
  <2>. QED
    BY <2>1, <2>2
<1>2. LimitInv => LimitKept
  BY DEF LimitInv, LimitInvOf, LimitKept
<1>. QED
  BY <1>1, <1>2, TypedStep, LimitStep, PTL DEF Spec

-----------------------------------------------------------------------------
(* The quotas of the row, of LXD, and of the requests between them.        *)

LEMMA QuotaNext ==
  (\A c \in Containers :
     QuotaInvOf(drift'[c], row'[c], config'[c], device'[c].disk, request', c)) => QuotaInv'
BY DEF QuotaInv, QuotaInvOf, Quotas, Copies, Undisturbed, SetDisk, Follows, Enforces, HalfWay

LEMMA EnforcesParts ==
  ASSUME NEW cf \in ConfigType, NEW disk, NEW q
  PROVE  Enforces(cf, disk, q) <=>
           cf.cpu = CpuLimit(q[Cpu]) /\ cf.mem = q[Mem] /\ disk = q[Disk]
BY DEF Enforces, ConfigType

LEMMA HalfWayParts ==
  ASSUME NEW r \in QuotaRequest, r.old \in Quota
  PROVE  /\ HalfWay(r)[Cpu] = IF r.done >= 1 /\ r.want[Cpu] > 0 THEN r.want[Cpu] ELSE r.old[Cpu]
         /\ HalfWay(r)[Mem] = IF r.done >= 2 /\ r.want[Mem] > 0 THEN r.want[Mem] ELSE r.old[Mem]
         /\ HalfWay(r)[Disk] = IF r.done >= 3 /\ r.want[Disk] > 0 THEN r.want[Disk] ELSE r.old[Disk]
         /\ Applied(r)[Cpu] = IF r.want[Cpu] > 0 THEN r.want[Cpu] ELSE r.old[Cpu]
         /\ Applied(r)[Mem] = IF r.want[Mem] > 0 THEN r.want[Mem] ELSE r.old[Mem]
         /\ Applied(r)[Disk] = IF r.want[Disk] > 0 THEN r.want[Disk] ELSE r.old[Disk]
<1>1. r.done \in 0..3
  BY DEF QuotaRequest
<1>. QED
  BY <1>1 DEF HalfWay, Applied, Resources, Cpu, Mem, Disk

LEMMA QuotaKinds ==
  ASSUME NEW r \in QuotaRequest
  PROVE  /\ r \in Requests /\ r # None /\ r.req = "quota" /\ r.on \in Containers
         /\ r.met \in BOOLEAN /\ r.done \in 0..3
         /\ \A c : Quotas(r, c) <=> r.on = c
         /\ \A c : Copies(r, c) <=> r.at \in {"patch", "unpatch"} /\ r.on = c
<1>1. r \in Requests /\ r.req = "quota" /\ r.on \in Containers /\ r.met \in BOOLEAN /\ r.done \in 0..3
  BY DEF QuotaRequest, Requests
<1>. QED
  BY <1>1, CopyKinds, RequestKind DEF Quotas

(* A step that is not a quota request's, on a container whose disk stays,  *)
(* and which takes no copy but of its map.                                 *)
LEMMA QuotaFrame ==
  ASSUME NEW noted, NEW w, NEW cf, NEW disk, NEW requests, NEW c,
         QuotaInvOf(noted, w, cf, disk, requests, c),
         NEW h \in Handlers, NEW after, NEW later,
         \A g \in Handlers \ {h} : after[g] = requests[g],
         ~Quotas(requests[h], c), ~Quotas(after[h], c),
         Copies(after[h], c) =>
           after[h].map.disk = disk \/ (Copies(requests[h], c) /\ after[h].map = requests[h].map),
         "quota" \in noted => "quota" \in later
  PROVE  QuotaInvOf(later, w, cf, disk, after, c)
<1>1. \A g \in Handlers : Quotas(after[g], c) => Quotas(requests[g], c) /\ after[g] = requests[g]
  OBVIOUS
<1>2. \A g, k \in Handlers :
        g # k /\ Quotas(after[g], c) /\ Quotas(after[k], c) => "quota" \in later /\ after[g].met
  BY <1>1 DEF QuotaInvOf
<1>3. ASSUME NEW k \in Handlers, Quotas(after[k], c), ~after[k].met
      PROVE  /\ Undisturbed(after[k], w, cf, disk)
             /\ SetDisk(after[k]) => \A g \in Handlers :
                  Copies(after[g], c) => after[g].map.disk = after[k].want[Disk]
  <2>1. /\ Undisturbed(requests[k], w, cf, disk)
        /\ SetDisk(requests[k]) => \A g \in Handlers :
             Copies(requests[g], c) => requests[g].map.disk = requests[k].want[Disk]
        /\ after[k] = requests[k]
    BY <1>1, <1>3 DEF QuotaInvOf
  <2>2. SetDisk(requests[k]) => disk = requests[k].want[Disk]
    BY <2>1 DEF Undisturbed, SetDisk, Disk
  <2>. QED
    BY <2>1, <2>2
<1>4. ASSUME "quota" \notin later
      PROVE  /\ \A g \in Handlers : Copies(after[g], c) => after[g].map.disk = disk
             /\ \A k \in Handlers : Quotas(after[k], c) => Follows(after[k], w.quota, cf, disk)
             /\ (\A k \in Handlers : ~Quotas(after[k], c)) => Enforces(cf, disk, w.quota)
  <2>1. /\ \A g \in Handlers : Copies(requests[g], c) => requests[g].map.disk = disk
        /\ \A k \in Handlers : Quotas(requests[k], c) => Follows(requests[k], w.quota, cf, disk)
        /\ (\A k \in Handlers : ~Quotas(requests[k], c)) => Enforces(cf, disk, w.quota)
    BY <1>4 DEF QuotaInvOf
  <2>2. (\A k \in Handlers : ~Quotas(after[k], c)) => \A k \in Handlers : ~Quotas(requests[k], c)
    OBVIOUS
  <2>. QED
    BY <1>1, <2>1, <2>2
<1>. QED
  BY <1>2, <1>3, <1>4 DEF QuotaInvOf

(* The limiter or a hardening writes the device map from its copy.         *)
LEMMA QuotaWrite ==
  ASSUME NEW noted, NEW w, NEW cf, NEW disk, NEW requests, NEW c,
         QuotaInvOf(noted, w, cf, disk, requests, c),
         NEW h \in Handlers, NEW after, NEW later,
         \A g \in Handlers : Quotas(requests[g], c) =>
           requests[g] \in QuotaRequest /\ ShapeOf(requests[g]),
         \A g \in Handlers \ {h} : after[g] = requests[g],
         ~Quotas(requests[h], c), ~Quotas(after[h], c),
         Copies(requests[h], c), ~Copies(after[h], c),
         "quota" \in noted => "quota" \in later
  PROVE  QuotaInvOf(later, w, cf, requests[h].map.disk, after, c)
<1>. DEFINE new == requests[h].map.disk
<1>1. \A g \in Handlers : Quotas(after[g], c) => Quotas(requests[g], c) /\ after[g] = requests[g]
  OBVIOUS
<1>2. \A g, k \in Handlers :
        g # k /\ Quotas(after[g], c) /\ Quotas(after[k], c) => "quota" \in later /\ after[g].met
  BY <1>1 DEF QuotaInvOf
<1>3. ASSUME NEW k \in Handlers, Quotas(after[k], c), ~after[k].met
      PROVE  /\ Undisturbed(after[k], w, cf, new)
             /\ SetDisk(after[k]) => \A g \in Handlers :
                  Copies(after[g], c) => after[g].map.disk = after[k].want[Disk]
  <2>1. /\ Undisturbed(requests[k], w, cf, disk)
        /\ SetDisk(requests[k]) => \A g \in Handlers :
             Copies(requests[g], c) => requests[g].map.disk = requests[k].want[Disk]
        /\ after[k] = requests[k] /\ requests[k] \in QuotaRequest /\ ShapeOf(requests[k])
    BY <1>1, <1>3 DEF QuotaInvOf
  <2>2. SetDisk(requests[k]) => new = requests[k].want[Disk]
    BY <2>1
  <2>3. requests[k].at \in {"set", "patch"} /\ Disk <= requests[k].done /\ requests[k].want[Disk] > 0 =>
          SetDisk(requests[k])
    <3>1. requests[k].req = "quota" /\ requests[k].done \in 0..3 /\ Disk = 3
      BY <2>1, QuotaKinds DEF Disk
    <3>2. requests[k].at = "patch" => requests[k].done < Disk
      BY <2>1, <3>1 DEF ShapeOf
    <3>. QED
      BY <3>1, <3>2 DEF SetDisk
  <2>4. Undisturbed(requests[k], w, cf, new)
    BY <2>1, <2>2, <2>3 DEF Undisturbed
  <2>. QED
    BY <2>1, <2>4
<1>4. ASSUME "quota" \notin later
      PROVE  /\ \A g \in Handlers : Copies(after[g], c) => after[g].map.disk = new
             /\ \A k \in Handlers : Quotas(after[k], c) => Follows(after[k], w.quota, cf, new)
             /\ (\A k \in Handlers : ~Quotas(after[k], c)) => Enforces(cf, new, w.quota)
  <2>1. /\ \A g \in Handlers : Copies(requests[g], c) => requests[g].map.disk = disk
        /\ \A k \in Handlers : Quotas(requests[k], c) => Follows(requests[k], w.quota, cf, disk)
        /\ (\A k \in Handlers : ~Quotas(requests[k], c)) => Enforces(cf, disk, w.quota)
    BY <1>4 DEF QuotaInvOf
  <2>2. new = disk
    BY <2>1
  <2>3. (\A k \in Handlers : ~Quotas(after[k], c)) => \A k \in Handlers : ~Quotas(requests[k], c)
    OBVIOUS
  <2>. QED
    BY <1>1, <2>1, <2>2, <2>3
<1>. QED
  BY <1>2, <1>3, <1>4 DEF QuotaInvOf

(* A quota request's own step. If another is at work on the container both *)
(* have met and the rest is undone by neither; if not, it must show what   *)
(* it leaves.                                                              *)
LEMMA QuotaStepOn ==
  ASSUME NEW noted, NEW w, NEW cf, NEW disk, NEW requests, NEW c,
         QuotaInvOf(noted, w, cf, disk, requests, c),
         NEW h \in Handlers, NEW after, NEW later, NEW w2, NEW cf2, NEW disk2,
         \A g \in Handlers \ {h} : after[g] = requests[g],
         NEW r \in QuotaRequest, requests[h] = r, r.on = c,
         NEW s \in QuotaRequest \cup {None}, after[h] = s, s # None => s.on = c,
         s # None /\ r.met => s.met,
         r.met /\ "quota" \in noted => "quota" \in later,
         s # None /\ ~s.met =>
           /\ Undisturbed(s, w2, cf2, disk2)
           /\ SetDisk(s) => \A g \in Handlers \ {h} :
                Copies(requests[g], c) => requests[g].map.disk = s.want[Disk],
         "quota" \notin later =>
           /\ \A g \in Handlers \ {h} : Copies(requests[g], c) => requests[g].map.disk = disk2
           /\ s # None => /\ Copies(s, c) => s.map.disk = disk2
                          /\ Follows(s, w2.quota, cf2, disk2)
           /\ s = None => Enforces(cf2, disk2, w2.quota)
  PROVE  QuotaInvOf(later, w2, cf2, disk2, after, c)
<1>1. Quotas(requests[h], c) /\ (s # None => Quotas(s, c)) /\ ~Quotas(None, c) /\ ~Copies(None, c)
  BY QuotaKinds DEF Quotas, Copies
<1>2. CASE \E g \in Handlers \ {h} : Quotas(requests[g], c)
  <2>1. PICK other \in Handlers \ {h} : Quotas(requests[other], c)
    BY <1>2
  <2>2. "quota" \in noted /\ r.met
    BY <1>1, <2>1 DEF QuotaInvOf
  <2>3. "quota" \in later
    BY <2>2
  <2>4. \A g \in Handlers : Quotas(after[g], c) => after[g].met
    <3>1. ASSUME NEW g \in Handlers \ {h}, Quotas(after[g], c) PROVE after[g].met
      BY <1>1, <3>1 DEF QuotaInvOf
    <3>2. Quotas(after[h], c) => after[h].met
      BY <1>1, <2>2
    <3>. QED
      BY <3>1, <3>2
  <2>. QED
    BY <2>3, <2>4 DEF QuotaInvOf
<1>3. CASE \A g \in Handlers \ {h} : ~Quotas(requests[g], c)
  <2>1. \A g \in Handlers : Quotas(after[g], c) => g = h /\ s # None
    BY <1>1, <1>3
  <2>2. SetDisk(s) /\ s # None => ~Copies(s, c)
    BY QuotaKinds DEF SetDisk
  <2>3. ASSUME NEW k \in Handlers, Quotas(after[k], c), ~after[k].met
        PROVE  /\ Undisturbed(after[k], w2, cf2, disk2)
               /\ SetDisk(after[k]) => \A g \in Handlers :
                    Copies(after[g], c) => after[g].map.disk = after[k].want[Disk]
    <3>1. k = h /\ s # None /\ ~s.met
      BY <2>1, <2>3
    <3>2. ASSUME SetDisk(s), NEW g \in Handlers, Copies(after[g], c)
          PROVE  after[g].map.disk = s.want[Disk]
      BY <2>2, <3>1, <3>2
    <3>. QED
      BY <3>1, <3>2
  <2>4. ASSUME "quota" \notin later
        PROVE  /\ \A g \in Handlers : Copies(after[g], c) => after[g].map.disk = disk2
               /\ \A k \in Handlers : Quotas(after[k], c) => Follows(after[k], w2.quota, cf2, disk2)
               /\ (\A k \in Handlers : ~Quotas(after[k], c)) => Enforces(cf2, disk2, w2.quota)
    <3>1. \A g \in Handlers : Copies(after[g], c) => after[g].map.disk = disk2
      BY <1>1, <2>4
    <3>2. \A k \in Handlers : Quotas(after[k], c) => Follows(after[k], w2.quota, cf2, disk2)
      BY <2>1, <2>4
    <3>3. (\A k \in Handlers : ~Quotas(after[k], c)) => Enforces(cf2, disk2, w2.quota)
      BY <1>1, <2>4
    <3>. QED
      BY <3>1, <3>2, <3>3
  <2>. QED
    BY <2>1, <2>3, <2>4 DEF QuotaInvOf
<1>. QED
  BY <1>2, <1>3

LEMMA QuotaBefore ==
  ASSUME Typed, QuotaInv, NEW h \in Handlers, NEW r \in QuotaRequest, request[h] = r
  PROVE  /\ ShapeOf(r) /\ r.on \in Containers
         /\ ~r.met => /\ Undisturbed(r, row[r.on], config[r.on], device[r.on].disk)
                      /\ SetDisk(r) => \A g \in Handlers :
                           Copies(request[g], r.on) => request[g].map.disk = r.want[Disk]
         /\ "quota" \notin drift[r.on] =>
              /\ \A g \in Handlers :
                   Copies(request[g], r.on) => request[g].map.disk = device[r.on].disk
              /\ Follows(r, row[r.on].quota, config[r.on], device[r.on].disk)
<1>1. r.on \in Containers /\ Quotas(r, r.on) /\ r # None
  BY QuotaKinds
<1>2. QuotaInvOf(drift[r.on], row[r.on], config[r.on], device[r.on].disk, request, r.on)
  BY <1>1 DEF QuotaInv
<1>3. ShapeOf(r)
  BY <1>1 DEF Typed, Shape
<1>. QED
  BY <1>1, <1>2, <1>3 DEF QuotaInvOf

LEMMA QuotaMoves ==
  ASSUME Typed, QuotaInv, NEW h \in Handlers,
         NEW r \in QuotaRequest, NEW s \in QuotaRequest \cup {None}, Move(h, r, s),
         s # None => s.on = r.on,
         \A d \in Containers : d # r.on =>
           /\ row'[d] = row[d] /\ config'[d] = config[d] /\ device'[d] = device[d]
           /\ drift'[d] = drift[d],
         s # None /\ r.met => s.met,
         r.met /\ "quota" \in drift[r.on] => "quota" \in drift'[r.on],
         s # None /\ ~s.met =>
           /\ Undisturbed(s, row'[r.on], config'[r.on], device'[r.on].disk)
           /\ SetDisk(s) => \A g \in Handlers \ {h} :
                Copies(request[g], r.on) => request[g].map.disk = s.want[Disk],
         "quota" \notin drift'[r.on] =>
           /\ \A g \in Handlers \ {h} :
                Copies(request[g], r.on) => request[g].map.disk = device'[r.on].disk
           /\ s # None => /\ Copies(s, r.on) => s.map.disk = device'[r.on].disk
                          /\ Follows(s, row'[r.on].quota, config'[r.on], device'[r.on].disk)
           /\ s = None => Enforces(config'[r.on], device'[r.on].disk, row'[r.on].quota)
  PROVE  QuotaInv'
<1>1. request[h] = r /\ request'[h] = s /\ \A g \in Handlers \ {h} : request'[g] = request[g]
  BY DEF Move
<1>2. r.on \in Containers
  BY QuotaKinds
<1>3. QuotaInvOf(drift[r.on], row[r.on], config[r.on], device[r.on].disk, request, r.on)
  BY <1>2 DEF QuotaInv
<1>4. QuotaInvOf(drift'[r.on], row'[r.on], config'[r.on], device'[r.on].disk, request', r.on)
  BY <1>1, <1>3, QuotaStepOn
<1>5. ASSUME NEW d \in Containers, d # r.on
      PROVE  QuotaInvOf(drift'[d], row'[d], config'[d], device'[d].disk, request', d)
  <2>1. QuotaInvOf(drift[d], row[d], config[d], device[d].disk, request, d)
    BY DEF QuotaInv
  <2>2. ~Quotas(request[h], d) /\ ~Quotas(request'[h], d) /\ ~Copies(request'[h], d)
    BY <1>1, <1>5, QuotaKinds DEF Quotas, Copies
  <2>3. QuotaInvOf(drift[d], row[d], config[d], device[d].disk, request', d)
    BY <1>1, <2>1, <2>2, QuotaFrame
  <2>. QED
    BY <1>5, <2>3
<1>. QED
  BY <1>4, <1>5, QuotaNext

LEMMA QuotaByReadTraffic ==
  ASSUME Typed, QuotaInv, NEW h \in Handlers, ReadTraffic(h)
  PROVE  QuotaInv'
<1>1. PICK r, s \in QuotaRequest :
        /\ Move(h, r, s) /\ SameAsk(r, s)
        /\ r.at = "start" /\ s.at = "traffic" /\ s.before = row[r.on].traffic
  BY ReadTrafficDoes
<1>2. UNCHANGED <<row, config, device, drift>>
  BY ReadTrafficDoes DEF Stores
<1>3. Undisturbed(s, row[r.on], config[r.on], device[r.on].disk) /\ ~SetDisk(s)
  BY <1>1 DEF Undisturbed, SetDisk
<1>4. s # None /\ s.on = r.on /\ s.met = r.met /\ ~Copies(s, r.on)
  BY <1>1, QuotaKinds DEF SameAsk
<1>5. ASSUME "quota" \notin drift[r.on]
      PROVE  /\ \A g \in Handlers : Copies(request[g], r.on) => request[g].map.disk = device[r.on].disk
             /\ Follows(s, row[r.on].quota, config[r.on], device[r.on].disk)
  BY <1>1, <1>5, QuotaBefore DEF Move, Follows
<1>. QED
  BY <1>1, <1>2, <1>3, <1>4, <1>5, QuotaMoves

LEMMA QuotaBySetTraffic ==
  ASSUME Typed, QuotaInv, NEW h \in Handlers, SetTraffic(h)
  PROVE  QuotaInv'
<1>1. PICK r \in QuotaRequest, s \in QuotaRequest \cup {None} :
        /\ Move(h, r, s) /\ r.at = "traffic"
        /\ \A d \in Containers : d # r.on => row'[d] = row[d]
        /\ row'[r.on].quota = row[r.on].quota
        /\ \/ s = None /\ row'[r.on] = row[r.on]
           \/ /\ s # None /\ SameAsk(r, s) /\ s.at = "read" /\ s.done = r.done
              /\ row'[r.on].traffic = r.traffic
  BY SetTrafficDoes
<1>2. UNCHANGED <<config, device, drift>>
  BY SetTrafficDoes
<1>3. s # None => /\ Undisturbed(s, row'[r.on], config[r.on], device[r.on].disk)
                  /\ ~SetDisk(s) /\ ~Copies(s, r.on) /\ s.on = r.on /\ s.met = r.met
  BY <1>1, QuotaKinds DEF Undisturbed, SetDisk, SameAsk
<1>4. ASSUME "quota" \notin drift[r.on]
      PROVE  /\ \A g \in Handlers : Copies(request[g], r.on) => request[g].map.disk = device[r.on].disk
             /\ s # None => Follows(s, row'[r.on].quota, config[r.on], device[r.on].disk)
             /\ Enforces(config[r.on], device[r.on].disk, row'[r.on].quota)
  BY <1>1, <1>4, QuotaBefore DEF Move, Follows
<1>. QED
  BY <1>1, <1>2, <1>3, <1>4, QuotaMoves

LEMMA QuotaByReadRow ==
  ASSUME Typed, QuotaInv, NEW h \in Handlers, ReadRow(h)
  PROVE  QuotaInv'
<1>1. PICK r, s \in QuotaRequest :
        /\ Move(h, r, s) /\ SameAsk(r, s)
        /\ r.at = "read" /\ s.at \in {"set", "restore"}
        /\ s.old = row[r.on].quota /\ s.done = 0
  BY ReadRowDoes
<1>2. UNCHANGED <<row, config, device, drift>>
  BY ReadRowDoes DEF Stores
<1>3. s # None /\ s.on = r.on /\ s.met = r.met /\ ~Copies(s, r.on) /\ ~SetDisk(s)
  BY <1>1, QuotaKinds DEF SameAsk, SetDisk, Disk
<1>4. /\ row[r.on].quota \in Quota /\ config[r.on] \in ConfigType
  BY QuotaKinds DEF Typed, TypeOK, ConfigType
<1>5. ASSUME ~r.met PROVE Undisturbed(s, row[r.on], config[r.on], device[r.on].disk)
  <2>1. row[r.on].traffic = s.traffic
    BY <1>1, <1>5, QuotaBefore DEF Move, Undisturbed, SameAsk
  <2>. QED
    BY <1>1, <2>1 DEF Undisturbed, Cpu, Mem, Disk
<1>6. ASSUME "quota" \notin drift[r.on]
      PROVE  /\ \A g \in Handlers : Copies(request[g], r.on) => request[g].map.disk = device[r.on].disk
             /\ Follows(s, row[r.on].quota, config[r.on], device[r.on].disk)
  <2>1. /\ \A g \in Handlers : Copies(request[g], r.on) => request[g].map.disk = device[r.on].disk
        /\ Enforces(config[r.on], device[r.on].disk, row[r.on].quota)
    BY <1>1, <1>6, QuotaBefore DEF Move, Follows
  <2>2. Enforces(config[r.on], device[r.on].disk, HalfWay(s))
    BY <1>1, <1>4, <2>1, EnforcesParts, HalfWayParts
  <2>. QED
    BY <1>1, <2>1, <2>2 DEF Follows
<1>. QED
  BY <1>1, <1>2, <1>3, <1>5, <1>6, QuotaMoves

(* A request that turns to undoing what it has set, or fails while at it.  *)
LEMMA QuotaTurns ==
  ASSUME Typed, QuotaInv, NEW h \in Handlers, NEW r \in QuotaRequest, NEW s \in QuotaRequest,
         Move(h, r, s), SameAsk(r, s), r.at \in {"set", "patch"}, s.at = "undo",
         s.done = r.done, s.old = r.old,
         UNCHANGED <<row, config, device, drift>>
  PROVE  QuotaInv'
<1>1. request[h] = r /\ s # None /\ s.on = r.on /\ s.met = r.met /\ s.want = r.want
      /\ s.traffic = r.traffic
  BY QuotaKinds DEF Move, SameAsk
<1>2. ~SetDisk(s) /\ ~Copies(s, r.on)
  BY QuotaKinds DEF SetDisk
<1>3. ~r.met => Undisturbed(s, row[r.on], config[r.on], device[r.on].disk)
  BY <1>1, QuotaBefore DEF Undisturbed
<1>4. ASSUME "quota" \notin drift[r.on]
      PROVE  /\ \A g \in Handlers : Copies(request[g], r.on) => request[g].map.disk = device[r.on].disk
             /\ Follows(s, row[r.on].quota, config[r.on], device[r.on].disk)
  <2>1. HalfWay(s) = HalfWay(r)
    BY <1>1 DEF HalfWay
  <2>. QED
    BY <1>1, <1>4, <2>1, QuotaBefore DEF Follows
<1>. QED
  BY <1>1, <1>2, <1>3, <1>4, QuotaMoves

(* It turns to it after a call that took effect though it failed.          *)
LEMMA QuotaLost ==
  ASSUME Typed, QuotaInv, NEW h \in Handlers, NEW r \in QuotaRequest, NEW s \in QuotaRequest,
         Move(h, r, s), SameAsk(r, s), r.at \in {"set", "patch"}, s.at = "undo", s.old = r.old,
         row' = row, "quota" \in drift'[r.on],
         \A d \in Containers : d # r.on =>
           config'[d] = config[d] /\ device'[d] = device[d] /\ drift'[d] = drift[d]
  PROVE  QuotaInv'
<1>1. request[h] = r /\ s # None /\ s.on = r.on /\ s.met = r.met /\ s.want = r.want
      /\ s.traffic = r.traffic
  BY QuotaKinds DEF Move, SameAsk
<1>2. ~SetDisk(s) /\ ~Copies(s, r.on)
  BY QuotaKinds DEF SetDisk
<1>3. ~r.met => Undisturbed(s, row[r.on], config'[r.on], device'[r.on].disk)
  BY <1>1, QuotaBefore DEF Undisturbed
<1>. QED
  BY <1>1, <1>2, <1>3, QuotaMoves

LEMMA QuotaBySetLimit ==
  ASSUME Typed, QuotaInv, NEW h \in Handlers, SetLimit(h)
  PROVE  QuotaInv'
<1>1. PICK r, s \in QuotaRequest :
        /\ Move(h, r, s) /\ SameAsk(r, s)
        /\ r.at = "set" /\ s.old = r.old
        /\ \/ \E k \in {Cpu, Mem} :
                /\ s.at = "set" /\ s.done = k /\ k > r.done /\ r.want[k] > 0
                /\ \A i \in Resources : i > r.done /\ i < k => ~(r.want[i] > 0)
                /\ Wrote(r.on, k, r.want[k]) /\ drift' = drift
           \/ /\ s.at = "patch" /\ s.map = device[r.on] /\ s.done = r.done
              /\ config' = config /\ drift' = drift
           \/ s.at = "undo" /\ s.done = r.done /\ config' = config /\ drift' = drift
           \/ \E k \in {Cpu, Mem} : s.at = "undo" /\ Wrote(r.on, k, r.want[k]) /\ Noted(r.on, {"quota"})
  BY SetLimitDoes
<1>2. UNCHANGED <<row, device>> /\ Typed'
  BY SetLimitDoes
<1>3. s # None /\ s.on = r.on /\ s.met = r.met /\ r.on \in Containers /\ r.done \in 0..3
  BY <1>1, QuotaKinds DEF SameAsk
<1>4. r.old \in Quota /\ request[h] = r /\ config[r.on] \in ConfigType /\ config'[r.on] \in ConfigType
      /\ r.req = "quota" /\ s.want = r.want /\ s.traffic = r.traffic
  <2>1. request[h] = r /\ r.req = "quota"
    BY <1>1, QuotaKinds DEF Move
  <2>2. r.old \in Quota
    BY <1>1, <2>1, QuotaBefore DEF ShapeOf
  <2>. QED
    BY <1>1, <1>2, <1>3, <2>1, <2>2 DEF Typed, TypeOK, ConfigType, SameAsk
<1>5. Resources = {1, 2, 3} /\ Cpu = 1 /\ Mem = 2 /\ Disk = 3
  BY DEF Resources, Cpu, Mem, Disk
<1>6. ~r.met => Undisturbed(r, row[r.on], config[r.on], device[r.on].disk)
  BY <1>4, QuotaBefore
<1>7. ASSUME "quota" \notin drift[r.on]
      PROVE  /\ \A g \in Handlers : Copies(request[g], r.on) => request[g].map.disk = device[r.on].disk
             /\ r.old = row[r.on].quota
             /\ Enforces(config[r.on], device[r.on].disk, HalfWay(r))
  BY <1>1, <1>4, <1>7, QuotaBefore DEF Follows
<1>8. ASSUME NEW k \in {Cpu, Mem}, s.at = "set", s.done = k, k > r.done, r.want[k] > 0,
             \A i \in Resources : i > r.done /\ i < k => ~(r.want[i] > 0),
             Wrote(r.on, k, r.want[k]), drift' = drift
      PROVE  QuotaInv'
  <2>1. ~SetDisk(s) /\ ~Copies(s, r.on)
    BY <1>5, <1>8, QuotaKinds DEF SetDisk
  <2>2. ASSUME ~r.met PROVE Undisturbed(s, row[r.on], config'[r.on], device[r.on].disk)
    <3>1. /\ row[r.on].traffic = r.traffic /\ row[r.on].quota = r.old
          /\ Cpu <= r.done /\ r.want[Cpu] > 0 => config[r.on].cpu = CpuLimit(r.want[Cpu])
      BY <1>1, <1>6, <2>2 DEF Undisturbed
    <3>2. Cpu <= s.done /\ s.want[Cpu] > 0 => config'[r.on].cpu = CpuLimit(r.want[Cpu])
      BY <1>3, <1>4, <1>5, <1>8, <3>1 DEF Wrote
    <3>3. Mem <= s.done /\ s.want[Mem] > 0 => config'[r.on].mem = r.want[Mem]
      BY <1>4, <1>5, <1>8 DEF Wrote
    <3>. QED
      BY <1>1, <1>4, <1>5, <1>8, <3>1, <3>2, <3>3 DEF Undisturbed
  <2>3. ASSUME "quota" \notin drift[r.on]
        PROVE  Follows(s, row[r.on].quota, config'[r.on], device[r.on].disk)
    <3>1. /\ config[r.on].cpu = CpuLimit(HalfWay(r)[Cpu]) /\ config[r.on].mem = HalfWay(r)[Mem]
          /\ device[r.on].disk = HalfWay(r)[Disk]
      BY <1>4, <1>7, <2>3, EnforcesParts
    <3>2. /\ HalfWay(s)[Cpu] = IF s.done >= 1 /\ r.want[Cpu] > 0 THEN r.want[Cpu] ELSE r.old[Cpu]
          /\ HalfWay(s)[Mem] = IF s.done >= 2 /\ r.want[Mem] > 0 THEN r.want[Mem] ELSE r.old[Mem]
          /\ HalfWay(s)[Disk] = r.old[Disk] /\ HalfWay(r)[Disk] = r.old[Disk]
          /\ HalfWay(r)[Cpu] = IF r.done >= 1 /\ r.want[Cpu] > 0 THEN r.want[Cpu] ELSE r.old[Cpu]
          /\ HalfWay(r)[Mem] = r.old[Mem]
      <4>1. /\ s.old \in Quota /\ ~(s.done >= 3) /\ ~(r.done >= 2)
        BY <1>1, <1>3, <1>4, <1>5, <1>8
      <4>2. /\ HalfWay(s)[Cpu] = IF s.done >= 1 /\ r.want[Cpu] > 0 THEN r.want[Cpu] ELSE r.old[Cpu]
            /\ HalfWay(s)[Mem] = IF s.done >= 2 /\ r.want[Mem] > 0 THEN r.want[Mem] ELSE r.old[Mem]
            /\ HalfWay(s)[Disk] = IF s.done >= 3 /\ r.want[Disk] > 0 THEN r.want[Disk] ELSE r.old[Disk]
        <5>1. s.want = r.want /\ s.old = r.old
          BY <1>1, <1>4
        <5>. QED
          BY <4>1, <5>1, HalfWayParts
      <4>3. /\ HalfWay(r)[Cpu] = IF r.done >= 1 /\ r.want[Cpu] > 0 THEN r.want[Cpu] ELSE r.old[Cpu]
            /\ HalfWay(r)[Mem] = IF r.done >= 2 /\ r.want[Mem] > 0 THEN r.want[Mem] ELSE r.old[Mem]
            /\ HalfWay(r)[Disk] = IF r.done >= 3 /\ r.want[Disk] > 0 THEN r.want[Disk] ELSE r.old[Disk]
        BY <1>4, HalfWayParts
      <4>4. ~(r.done >= 3)
        BY <1>3, <4>1
      <4>. QED
        BY <4>1, <4>2, <4>3, <4>4
    <3>3. config'[r.on].cpu = CpuLimit(HalfWay(s)[Cpu])
      BY <1>3, <1>5, <1>8, <3>1, <3>2 DEF Wrote
    <3>4. config'[r.on].mem = HalfWay(s)[Mem]
      BY <1>3, <1>5, <1>8, <3>1, <3>2 DEF Wrote
    <3>5. Enforces(config'[r.on], device[r.on].disk, HalfWay(s))
      BY <1>4, <3>1, <3>2, <3>3, <3>4, EnforcesParts
    <3>. QED
      BY <1>1, <1>7, <1>8, <2>3, <3>5 DEF Follows
  <2>4. \A d \in Containers : d # r.on => config'[d] = config[d]
    BY <1>8 DEF Wrote
  <2>. QED
    BY <1>1, <1>2, <1>3, <1>7, <1>8, <2>1, <2>2, <2>3, <2>4, QuotaMoves
<1>9. ASSUME s.at = "patch", s.map = device[r.on], s.done = r.done, config' = config, drift' = drift
      PROVE  QuotaInv'
  <2>1. ~SetDisk(s)
    BY <1>9 DEF SetDisk
  <2>2. ~r.met => Undisturbed(s, row[r.on], config[r.on], device[r.on].disk)
    BY <1>1, <1>4, <1>6, <1>9 DEF Undisturbed
  <2>3. ASSUME "quota" \notin drift[r.on]
        PROVE  Follows(s, row[r.on].quota, config[r.on], device[r.on].disk)
    <3>1. HalfWay(s) = HalfWay(r)
      BY <1>1, <1>4, <1>9 DEF HalfWay
    <3>. QED
      BY <1>1, <1>7, <1>9, <2>3, <3>1 DEF Follows
  <2>. QED
    BY <1>1, <1>2, <1>3, <1>7, <1>9, <2>1, <2>2, <2>3, QuotaMoves
<1>10. CASE s.at = "undo" /\ s.done = r.done /\ config' = config /\ drift' = drift
  BY <1>1, <1>2, <1>10, QuotaTurns
<1>11. ASSUME NEW k \in {Cpu, Mem}, s.at = "undo", Wrote(r.on, k, r.want[k]), Noted(r.on, {"quota"})
       PROVE  QuotaInv'
  <2>1. /\ "quota" \in drift'[r.on]
        /\ \A d \in Containers : d # r.on => config'[d] = config[d] /\ drift'[d] = drift[d]
    BY <1>3, <1>11 DEF Noted, Wrote
  <2>. QED
    BY <1>1, <1>2, <1>11, <2>1, QuotaLost
<1>. QED
  BY <1>1, <1>8, <1>9, <1>10, <1>11

LEMMA QuotaByPatchDisk ==
  ASSUME Typed, QuotaInv, NEW h \in Handlers, PatchDisk(h)
  PROVE  QuotaInv'
<1>1. PICK r, s \in QuotaRequest :
        /\ Move(h, r, s)
        /\ s.on = r.on /\ s.want = r.want /\ s.traffic = r.traffic /\ s.old = r.old
        /\ r.at = "patch" /\ r.want[Disk] > 0
        /\ \A i \in Resources : i > r.done /\ i < Disk => ~(r.want[i] > 0)
        /\ \/ \E map \in Map :
                /\ s.at = "set" /\ s.done = Disk
                /\ map.disk = r.want[Disk] /\ map.limit = r.map.limit
                /\ s.met = (r.met \/ Stale(h, r.on, map) # {})
                /\ Put(r.on, map) /\ Noted(r.on, Stale(h, r.on, map))
           \/ s.at = "undo" /\ s.done = r.done /\ SameAsk(r, s) /\ UNCHANGED <<device, drift>>
           \/ \E map \in Map :
                /\ s.at = "undo" /\ s.done = r.done /\ SameAsk(r, s)
                /\ map.disk = r.want[Disk] /\ map.limit = r.map.limit
                /\ Put(r.on, map) /\ Noted(r.on, Stale(h, r.on, map) \cup {"quota"})
  BY PatchDiskDoes
<1>2. UNCHANGED <<row, config>>
  BY PatchDiskDoes
<1>3. CASE s.at = "undo" /\ s.done = r.done /\ SameAsk(r, s) /\ UNCHANGED <<device, drift>>
  BY <1>1, <1>2, <1>3, QuotaTurns
<1>4. ASSUME NEW map \in Map, s.at = "set", s.done = Disk, map.disk = r.want[Disk],
             s.met = (r.met \/ Stale(h, r.on, map) # {}),
             Put(r.on, map), Noted(r.on, Stale(h, r.on, map))
      PROVE  QuotaInv'
  <2>1. r.on \in Containers /\ s # None /\ ~Copies(s, r.on) /\ request[h] = r /\ r.req = "quota"
    BY <1>1, <1>4, QuotaKinds DEF Move
  <2>2. Resources = {1, 2, 3} /\ Cpu = 1 /\ Mem = 2 /\ Disk = 3 /\ r.done \in 0..3
    BY QuotaKinds DEF Resources, Cpu, Mem, Disk
  <2>3. r.done < Disk /\ r.old \in Quota /\ config[r.on] \in ConfigType
    BY <1>1, <2>1, QuotaBefore DEF ShapeOf, Typed, TypeOK, ConfigType
  <2>4. device'[r.on].disk = r.want[Disk]
    BY <1>4 DEF Put
  <2>5. "quota" \notin Stale(h, r.on, map) =>
          \A g \in Handlers \ {h} : Copies(request[g], r.on) => request[g].map.disk = r.want[Disk]
    BY <1>4, <2>1, StaleMeans
  <2>6. ASSUME ~s.met
        PROVE  /\ Undisturbed(s, row[r.on], config[r.on], r.want[Disk])
               /\ \A g \in Handlers \ {h} : Copies(request[g], r.on) => request[g].map.disk = r.want[Disk]
    <3>1. ~r.met /\ Stale(h, r.on, map) = {}
      BY <1>4, <2>6
    <3>2. /\ row[r.on].traffic = r.traffic /\ row[r.on].quota = r.old
          /\ Cpu <= r.done /\ r.want[Cpu] > 0 => config[r.on].cpu = CpuLimit(r.want[Cpu])
          /\ Mem <= r.done /\ r.want[Mem] > 0 => config[r.on].mem = r.want[Mem]
      BY <1>1, <2>1, <3>1, QuotaBefore DEF Undisturbed
    <3>3. /\ r.want[Cpu] > 0 => Cpu <= r.done
          /\ r.want[Mem] > 0 => Mem <= r.done
      BY <1>1, <2>2
    <3>4. Undisturbed(s, row[r.on], config[r.on], r.want[Disk])
      BY <1>1, <1>4, <3>2, <3>3 DEF Undisturbed
    <3>. QED
      BY <2>5, <3>1, <3>4
  <2>7. ASSUME "quota" \notin drift'[r.on]
        PROVE  /\ \A g \in Handlers \ {h} : Copies(request[g], r.on) => request[g].map.disk = r.want[Disk]
               /\ Follows(s, row[r.on].quota, config[r.on], r.want[Disk])
    <3>1. "quota" \notin drift[r.on] /\ "quota" \notin Stale(h, r.on, map)
      BY <1>4, <2>7 DEF Noted
    <3>2. r.old = row[r.on].quota /\ Enforces(config[r.on], device[r.on].disk, HalfWay(r))
      BY <1>1, <2>1, <3>1, QuotaBefore DEF Follows
    <3>3. config[r.on].cpu = CpuLimit(HalfWay(r)[Cpu]) /\ config[r.on].mem = HalfWay(r)[Mem]
      BY <2>3, <3>2, EnforcesParts
    <3>4. /\ HalfWay(s)[Cpu] = HalfWay(r)[Cpu] /\ HalfWay(s)[Mem] = HalfWay(r)[Mem]
          /\ HalfWay(s)[Disk] = r.want[Disk]
      <4>1. /\ r.want[1] > 0 => r.done >= 1
            /\ r.want[2] > 0 => r.done >= 2
        BY <1>1, <2>2
      <4>2. s.done = 3 /\ s.want = r.want /\ s.old = r.old /\ r.want[3] > 0
        BY <1>1, <1>4, <2>2
      <4>3. /\ HalfWay(s)[Cpu] = IF r.want[Cpu] > 0 THEN r.want[Cpu] ELSE r.old[Cpu]
            /\ HalfWay(s)[Mem] = IF r.want[Mem] > 0 THEN r.want[Mem] ELSE r.old[Mem]
            /\ HalfWay(s)[Disk] = r.want[Disk]
        BY <2>2, <2>3, <4>2, HalfWayParts
      <4>4. /\ HalfWay(r)[Cpu] = IF r.want[Cpu] > 0 THEN r.want[Cpu] ELSE r.old[Cpu]
            /\ HalfWay(r)[Mem] = IF r.want[Mem] > 0 THEN r.want[Mem] ELSE r.old[Mem]
        BY <2>2, <2>3, <4>1, HalfWayParts
      <4>. QED
        BY <4>3, <4>4
    <3>5. Enforces(config[r.on], r.want[Disk], HalfWay(s))
      BY <2>3, <3>3, <3>4, EnforcesParts
    <3>. QED
      BY <1>1, <1>4, <2>5, <3>1, <3>2, <3>5 DEF Follows
  <2>8. \A d \in Containers : d # r.on => device'[d] = device[d] /\ drift'[d] = drift[d]
    BY <1>4 DEF Put, Noted
  <2>9. "quota" \in drift[r.on] => "quota" \in drift'[r.on]
    BY <1>4 DEF Noted
  <2>10. r.met => s.met
    BY <1>4
  <2>. QED
    BY <1>1, <1>2, <2>1, <2>4, <2>6, <2>7, <2>8, <2>9, <2>10, QuotaMoves
<1>5. ASSUME NEW map \in Map, s.at = "undo", SameAsk(r, s), Put(r.on, map),
             Noted(r.on, Stale(h, r.on, map) \cup {"quota"})
      PROVE  QuotaInv'
  <2>1. /\ "quota" \in drift'[r.on]
        /\ \A d \in Containers : d # r.on => device'[d] = device[d] /\ drift'[d] = drift[d]
    BY <1>5, QuotaKinds DEF Noted, Put
  <2>. QED
    BY <1>1, <1>2, <1>5, <2>1, QuotaLost
<1>. QED
  BY <1>1, <1>3, <1>4, <1>5

LEMMA QuotaBySaveRow ==
  ASSUME Typed, QuotaInv, NEW h \in Handlers, SaveRow(h)
  PROVE  QuotaInv'
<1>1. PICK r \in QuotaRequest, s \in QuotaRequest \cup {None} :
        /\ Move(h, r, s) /\ r.at = "set"
        /\ \A i \in Resources : i > r.done => ~(r.want[i] > 0)
        /\ \A d \in Containers : d # r.on => row'[d] = row[d] /\ drift'[d] = drift[d]
        /\ \/ /\ s = None /\ row'[r.on].quota = Applied(r)
              /\ \/ "quota" \in drift[r.on] => "quota" \in drift'[r.on]
                 \/ (\A k \in Resources : r.want[k] > 0) /\ ~r.met
              /\ "quota" \in drift'[r.on] => "quota" \in drift[r.on]
           \/ /\ s # None /\ SameAsk(r, s) /\ s.at = "undo" /\ s.done = r.done /\ s.old = r.old
              /\ row' = row /\ drift' = drift
  BY SaveRowDoes
<1>2. UNCHANGED <<config, device>>
  BY SaveRowDoes
<1>3. CASE /\ s # None /\ SameAsk(r, s) /\ s.at = "undo" /\ s.done = r.done /\ s.old = r.old
           /\ row' = row /\ drift' = drift
  BY <1>1, <1>2, <1>3, QuotaTurns
<1>4. CASE /\ s = None /\ row'[r.on].quota = Applied(r)
           /\ \/ "quota" \in drift[r.on] => "quota" \in drift'[r.on]
              \/ (\A k \in Resources : r.want[k] > 0) /\ ~r.met
           /\ "quota" \in drift'[r.on] => "quota" \in drift[r.on]
  <2>1. r.on \in Containers /\ request[h] = r /\ r.req = "quota" /\ r.done \in 0..3
    BY <1>1, QuotaKinds DEF Move
  <2>2. Resources = {1, 2, 3} /\ Cpu = 1 /\ Mem = 2 /\ Disk = 3
    BY DEF Resources, Cpu, Mem, Disk
  <2>3. r.old \in Quota /\ config[r.on] \in ConfigType
    BY <1>1, <2>1, QuotaBefore DEF ShapeOf, Typed, TypeOK, ConfigType
  <2>4. ASSUME "quota" \notin drift[r.on]
        PROVE  /\ \A g \in Handlers : Copies(request[g], r.on) => request[g].map.disk = device[r.on].disk
               /\ Enforces(config[r.on], device[r.on].disk, Applied(r))
    <3>1. /\ \A g \in Handlers : Copies(request[g], r.on) => request[g].map.disk = device[r.on].disk
          /\ Enforces(config[r.on], device[r.on].disk, HalfWay(r))
      BY <1>1, <2>1, <2>4, QuotaBefore DEF Follows
    <3>2. Applied(r) = HalfWay(r)
      <4>1. \A k \in Resources : (k <= r.done /\ r.want[k] > 0) <=> r.want[k] > 0
        BY <1>1, <2>1, <2>2
      <4>. QED
        BY <4>1 DEF Applied, HalfWay
    <3>. QED
      BY <3>1, <3>2
  <2>5. ASSUME \A k \in Resources : r.want[k] > 0, ~r.met
        PROVE  /\ \A g \in Handlers : Copies(request[g], r.on) => request[g].map.disk = device[r.on].disk
               /\ Enforces(config[r.on], device[r.on].disk, Applied(r))
    <3>1. r.done = 3 /\ r.want[Cpu] > 0 /\ r.want[Mem] > 0 /\ r.want[Disk] > 0
      BY <1>1, <2>1, <2>2, <2>5
    <3>2. /\ config[r.on].cpu = CpuLimit(r.want[Cpu]) /\ config[r.on].mem = r.want[Mem]
          /\ device[r.on].disk = r.want[Disk]
          /\ SetDisk(r) => \A g \in Handlers :
               Copies(request[g], r.on) => request[g].map.disk = r.want[Disk]
      BY <1>1, <2>1, <2>2, <2>5, <3>1, QuotaBefore DEF Undisturbed
    <3>3. SetDisk(r)
      BY <1>1, <2>2, <3>1 DEF SetDisk
    <3>4. Enforces(config[r.on], device[r.on].disk, Applied(r))
      BY <2>3, <3>1, <3>2, EnforcesParts, HalfWayParts
    <3>. QED
      BY <3>2, <3>3, <3>4
  <2>6. ASSUME "quota" \notin drift'[r.on]
        PROVE  /\ \A g \in Handlers : Copies(request[g], r.on) => request[g].map.disk = device[r.on].disk
               /\ Enforces(config[r.on], device[r.on].disk, row'[r.on].quota)
    BY <1>4, <2>4, <2>5, <2>6
  <2>7. r.met /\ "quota" \in drift[r.on] => "quota" \in drift'[r.on]
    BY <1>4
  <2>. QED
    BY <1>1, <1>2, <1>4, <2>6, <2>7, QuotaMoves
<1>. QED
  BY <1>1, <1>3, <1>4

LEMMA QuotaByUndo ==
  ASSUME Typed, QuotaInv, NEW h \in Handlers, Undo(h)
  PROVE  QuotaInv'
<1>1. PICK r, s \in QuotaRequest, k \in Resources :
        /\ Move(h, r, s) /\ SameAsk(r, s)
        /\ r.at = "undo" /\ s.old = r.old
        /\ k <= r.done /\ r.want[k] > 0
        /\ \A i \in Resources : i <= r.done /\ i > k => ~(r.want[i] > 0)
        /\ \/ /\ k \in {Cpu, Mem} /\ s.at = "undo" /\ s.done = k - 1
              /\ Wrote(r.on, k, r.old[k]) /\ drift' = drift
           \/ /\ k = Disk /\ s.at = "unpatch" /\ s.done = r.done /\ s.map = device[r.on]
              /\ config' = config /\ drift' = drift
           \/ /\ s.at = "undo" /\ s.done = k - 1
              /\ config' = config /\ Noted(r.on, {"quota"})
           \/ /\ k \in {Cpu, Mem} /\ s.at = "undo" /\ s.done = k - 1
              /\ Wrote(r.on, k, r.old[k]) /\ Noted(r.on, {"quota"})
  BY UndoDoes
<1>2. UNCHANGED <<row, device>>
  BY UndoDoes
<1>3. r.on \in Containers /\ request[h] = r /\ s # None /\ s.on = r.on /\ s.met = r.met /\ ~SetDisk(s)
      /\ s.want = r.want /\ s.traffic = r.traffic /\ r.done \in 0..3
  BY <1>1, QuotaKinds DEF Move, SameAsk, SetDisk
<1>4. Resources = {1, 2, 3} /\ Cpu = 1 /\ Mem = 2 /\ Disk = 3
  BY DEF Resources, Cpu, Mem, Disk
<1>5. r.old \in Quota /\ config[r.on] \in ConfigType
  BY <1>1, <1>3, QuotaBefore DEF ShapeOf, Typed, TypeOK, ConfigType, QuotaRequest
<1>6. s.at \in {"undo", "unpatch"} => (~r.met => Undisturbed(s, row[r.on], config'[r.on], device[r.on].disk))
  BY <1>1, <1>3, QuotaBefore DEF Undisturbed
<1>7. ASSUME "quota" \notin drift[r.on]
      PROVE  /\ \A g \in Handlers : Copies(request[g], r.on) => request[g].map.disk = device[r.on].disk
             /\ r.old = row[r.on].quota
             /\ config[r.on].cpu = CpuLimit(HalfWay(r)[Cpu]) /\ config[r.on].mem = HalfWay(r)[Mem]
             /\ device[r.on].disk = HalfWay(r)[Disk]
  <2>1. /\ \A g \in Handlers : Copies(request[g], r.on) => request[g].map.disk = device[r.on].disk
        /\ r.old = row[r.on].quota /\ Enforces(config[r.on], device[r.on].disk, HalfWay(r))
    BY <1>1, <1>3, <1>7, QuotaBefore DEF Follows
  <2>. QED
    BY <1>5, <2>1, EnforcesParts
<1>8. CASE /\ k \in {Cpu, Mem} /\ s.at = "undo" /\ s.done = k - 1
           /\ Wrote(r.on, k, r.old[k]) /\ drift' = drift
  <2>1. /\ config'[r.on] \in ConfigType
        /\ k = Cpu => config'[r.on].cpu = CpuLimit(r.old[Cpu]) /\ config'[r.on].mem = config[r.on].mem
        /\ k = Mem => config'[r.on].mem = r.old[Mem] /\ config'[r.on].cpu = config[r.on].cpu
        /\ \A d \in Containers : d # r.on => config'[d] = config[d]
    <3>1. Typed'
      BY UndoDoes
    <3>2. config' \in [Containers -> ConfigType]
      BY <3>1 DEF Typed, TypeOK, ConfigType
    <3>. QED
      BY <1>3, <1>4, <1>8, <3>2 DEF Wrote
  <2>2. ASSUME "quota" \notin drift[r.on]
        PROVE  /\ \A g \in Handlers : Copies(request[g], r.on) => request[g].map.disk = device[r.on].disk
               /\ Follows(s, row[r.on].quota, config'[r.on], device[r.on].disk)
    <3>1. /\ HalfWay(r)[Cpu] = IF r.done >= 1 /\ r.want[Cpu] > 0 THEN r.want[Cpu] ELSE r.old[Cpu]
          /\ HalfWay(r)[Mem] = IF r.done >= 2 /\ r.want[Mem] > 0 THEN r.want[Mem] ELSE r.old[Mem]
          /\ HalfWay(r)[Disk] = IF r.done >= 3 /\ r.want[Disk] > 0 THEN r.want[Disk] ELSE r.old[Disk]
      BY <1>5, HalfWayParts
    <3>2. /\ HalfWay(s)[Cpu] = IF k - 1 >= 1 /\ r.want[Cpu] > 0 THEN r.want[Cpu] ELSE r.old[Cpu]
          /\ HalfWay(s)[Mem] = IF k - 1 >= 2 /\ r.want[Mem] > 0 THEN r.want[Mem] ELSE r.old[Mem]
          /\ HalfWay(s)[Disk] = IF k - 1 >= 3 /\ r.want[Disk] > 0 THEN r.want[Disk] ELSE r.old[Disk]
      BY <1>1, <1>3, <1>5, <1>8, HalfWayParts
    <3>3. HalfWay(s)[Disk] = r.old[Disk] /\ HalfWay(r)[Disk] = r.old[Disk] /\ HalfWay(s)[Mem] = r.old[Mem]
      BY <1>1, <1>3, <1>4, <1>8, <3>1, <3>2
    <3>4. CASE k = Cpu
      <4>1. HalfWay(r)[Mem] = r.old[Mem] /\ HalfWay(s)[Cpu] = r.old[Cpu]
        BY <1>1, <1>3, <1>4, <3>1, <3>2, <3>4
      <4>2. Enforces(config'[r.on], device[r.on].disk, HalfWay(s))
        BY <1>7, <2>1, <2>2, <3>3, <3>4, <4>1, EnforcesParts
      <4>. QED
        BY <1>1, <1>7, <1>8, <2>2, <4>2 DEF Follows
    <3>5. CASE k = Mem
      <4>1. HalfWay(s)[Cpu] = HalfWay(r)[Cpu]
        BY <1>1, <1>3, <1>4, <3>1, <3>2, <3>5
      <4>2. Enforces(config'[r.on], device[r.on].disk, HalfWay(s))
        BY <1>7, <2>1, <2>2, <3>3, <3>5, <4>1, EnforcesParts
      <4>. QED
        BY <1>1, <1>7, <1>8, <2>2, <4>2 DEF Follows
    <3>. QED
      BY <1>8, <3>4, <3>5
  <2>3. ~Copies(s, r.on)
    BY <1>8, QuotaKinds
  <2>. QED
    BY <1>1, <1>2, <1>3, <1>6, <1>8, <2>1, <2>2, <2>3, QuotaMoves
<1>9. CASE /\ k = Disk /\ s.at = "unpatch" /\ s.done = r.done /\ s.map = device[r.on]
           /\ config' = config /\ drift' = drift
  <2>1. ASSUME "quota" \notin drift[r.on]
        PROVE  /\ \A g \in Handlers : Copies(request[g], r.on) => request[g].map.disk = device[r.on].disk
               /\ Follows(s, row[r.on].quota, config[r.on], device[r.on].disk)
    <3>1. HalfWay(s) = HalfWay(r)
      BY <1>1, <1>3, <1>9 DEF HalfWay
    <3>2. Enforces(config[r.on], device[r.on].disk, HalfWay(s))
      BY <1>5, <1>7, <2>1, <3>1, EnforcesParts
    <3>. QED
      BY <1>1, <1>7, <1>9, <2>1, <3>2 DEF Follows
  <2>. QED
    BY <1>1, <1>2, <1>3, <1>6, <1>9, <2>1, QuotaMoves
<1>10. CASE s.at = "undo" /\ s.done = k - 1 /\ config' = config /\ Noted(r.on, {"quota"})
  <2>1. /\ "quota" \in drift'[r.on]
        /\ \A d \in Containers : d # r.on => drift'[d] = drift[d]
    BY <1>10 DEF Noted
  <2>. QED
    BY <1>1, <1>2, <1>3, <1>6, <1>10, <2>1, QuotaMoves
<1>11. CASE /\ k \in {Cpu, Mem} /\ s.at = "undo" /\ s.done = k - 1
            /\ Wrote(r.on, k, r.old[k]) /\ Noted(r.on, {"quota"})
  <2>1. /\ "quota" \in drift'[r.on] /\ ~Copies(s, r.on)
        /\ \A d \in Containers : d # r.on => config'[d] = config[d] /\ drift'[d] = drift[d]
    BY <1>3, <1>11, QuotaKinds DEF Noted, Wrote
  <2>. QED
    BY <1>1, <1>2, <1>3, <1>6, <1>11, <2>1, QuotaMoves
<1>. QED
  BY <1>1, <1>8, <1>9, <1>10, <1>11

LEMMA QuotaByUnpatchDisk ==
  ASSUME Typed, QuotaInv, NEW h \in Handlers, UnpatchDisk(h)
  PROVE  QuotaInv'
<1>1. PICK r, s \in QuotaRequest :
        /\ Move(h, r, s) /\ SameAsk(r, s)
        /\ r.at = "unpatch" /\ s.old = r.old /\ r.done = Disk
        /\ s.at = "undo" /\ s.done = Disk - 1
        /\ \/ \E map \in Map :
                /\ map.disk = r.old[Disk] /\ map.limit = r.map.limit
                /\ Put(r.on, map)
                /\ \E more \in SUBSET {"quota"} : Noted(r.on, Stale(h, r.on, map) \cup more)
           \/ device' = device /\ Noted(r.on, {"quota"})
  BY UnpatchDiskDoes
<1>2. UNCHANGED <<row, config>>
  BY UnpatchDiskDoes
<1>3. r.on \in Containers /\ request[h] = r /\ s # None /\ s.on = r.on /\ s.met = r.met /\ ~SetDisk(s)
      /\ s.want = r.want /\ s.traffic = r.traffic /\ ~Copies(s, r.on) /\ ShapeOf(r) /\ r.req = "quota"
  BY <1>1, QuotaKinds, QuotaBefore DEF Move, SameAsk, SetDisk
<1>4. Resources = {1, 2, 3} /\ Cpu = 1 /\ Mem = 2 /\ Disk = 3
  BY DEF Resources, Cpu, Mem, Disk
<1>5. r.old \in Quota /\ config[r.on] \in ConfigType
  BY <1>1, <1>3 DEF ShapeOf, Typed, TypeOK, ConfigType
<1>6. ~r.met => Undisturbed(s, row[r.on], config[r.on], device'[r.on].disk)
  BY <1>1, <1>3, QuotaBefore DEF Undisturbed
<1>7. CASE device' = device /\ Noted(r.on, {"quota"})
  <2>1. /\ "quota" \in drift'[r.on]
        /\ \A d \in Containers : d # r.on => drift'[d] = drift[d]
    BY <1>7 DEF Noted
  <2>. QED
    BY <1>1, <1>2, <1>3, <1>6, <1>7, <2>1, QuotaMoves
<1>8. ASSUME NEW map \in Map, map.disk = r.old[Disk], Put(r.on, map),
             NEW more \in SUBSET {"quota"}, Noted(r.on, Stale(h, r.on, map) \cup more)
      PROVE  QuotaInv'
  <2>1. /\ device'[r.on].disk = r.old[Disk]
        /\ \A d \in Containers : d # r.on => device'[d] = device[d] /\ drift'[d] = drift[d]
        /\ "quota" \in drift[r.on] => "quota" \in drift'[r.on]
    BY <1>8 DEF Put, Noted
  <2>2. ASSUME "quota" \notin drift'[r.on]
        PROVE  /\ \A g \in Handlers \ {h} : Copies(request[g], r.on) => request[g].map.disk = r.old[Disk]
               /\ Follows(s, row[r.on].quota, config[r.on], r.old[Disk])
    <3>1. "quota" \notin drift[r.on] /\ "quota" \notin Stale(h, r.on, map)
      BY <1>8, <2>2 DEF Noted
    <3>2. \A g \in Handlers \ {h} : Copies(request[g], r.on) => request[g].map.disk = r.old[Disk]
      BY <1>3, <1>8, <3>1, StaleMeans
    <3>3. r.old = row[r.on].quota /\ Enforces(config[r.on], device[r.on].disk, HalfWay(r))
      BY <1>1, <1>3, <3>1, QuotaBefore DEF Follows
    <3>4. /\ HalfWay(s)[Cpu] = HalfWay(r)[Cpu] /\ HalfWay(s)[Mem] = HalfWay(r)[Mem]
          /\ HalfWay(s)[Disk] = r.old[Disk]
      <4>1. /\ HalfWay(s)[Cpu] = IF r.want[Cpu] > 0 THEN r.want[Cpu] ELSE r.old[Cpu]
            /\ HalfWay(s)[Mem] = IF r.want[Mem] > 0 THEN r.want[Mem] ELSE r.old[Mem]
            /\ HalfWay(s)[Disk] = r.old[Disk]
        BY <1>1, <1>3, <1>4, <1>5, HalfWayParts
      <4>2. /\ HalfWay(r)[Cpu] = IF r.want[Cpu] > 0 THEN r.want[Cpu] ELSE r.old[Cpu]
            /\ HalfWay(r)[Mem] = IF r.want[Mem] > 0 THEN r.want[Mem] ELSE r.old[Mem]
        BY <1>1, <1>4, <1>5, HalfWayParts
      <4>. QED
        BY <4>1, <4>2
    <3>5. Enforces(config[r.on], r.old[Disk], HalfWay(s))
      BY <1>5, <3>3, <3>4, EnforcesParts
    <3>. QED
      BY <1>1, <3>2, <3>3, <3>5 DEF Follows
  <2>. QED
    BY <1>1, <1>2, <1>3, <1>6, <2>1, <2>2, QuotaMoves
<1>. QED
  BY <1>1, <1>7, <1>8

LEMMA QuotaByUndone ==
  ASSUME Typed, QuotaInv, NEW h \in Handlers, Undone(h)
  PROVE  QuotaInv'
<1>1. PICK r, s \in QuotaRequest :
        /\ Move(h, r, s) /\ SameAsk(r, s)
        /\ r.at = "undo" /\ s.at = "restore"
        /\ \A i \in Resources : i <= r.done => ~(r.want[i] > 0)
  BY UndoneDoes
<1>2. UNCHANGED <<row, config, device, drift>>
  BY UndoneDoes DEF Stores
<1>3. r.on \in Containers /\ request[h] = r /\ s # None /\ s.on = r.on /\ s.met = r.met /\ ~SetDisk(s)
      /\ s.want = r.want /\ s.traffic = r.traffic /\ ~Copies(s, r.on)
      /\ ShapeOf(r) /\ r.req = "quota" /\ r.done \in 0..3
  BY <1>1, QuotaKinds, QuotaBefore DEF Move, SameAsk, SetDisk
<1>4. Resources = {1, 2, 3} /\ Cpu = 1 /\ Mem = 2 /\ Disk = 3
  BY DEF Resources, Cpu, Mem, Disk
<1>5. r.old \in Quota /\ config[r.on] \in ConfigType
  BY <1>1, <1>3 DEF ShapeOf, Typed, TypeOK, ConfigType
<1>6. ~r.met => Undisturbed(s, row[r.on], config[r.on], device[r.on].disk)
  BY <1>1, <1>3, QuotaBefore DEF Undisturbed
<1>7. ASSUME "quota" \notin drift[r.on]
      PROVE  /\ \A g \in Handlers : Copies(request[g], r.on) => request[g].map.disk = device[r.on].disk
             /\ Follows(s, row[r.on].quota, config[r.on], device[r.on].disk)
  <2>1. /\ \A g \in Handlers : Copies(request[g], r.on) => request[g].map.disk = device[r.on].disk
        /\ r.old = row[r.on].quota /\ Enforces(config[r.on], device[r.on].disk, HalfWay(r))
    BY <1>1, <1>3, <1>7, QuotaBefore DEF Follows
  <2>2. /\ HalfWay(r)[Cpu] = r.old[Cpu] /\ HalfWay(r)[Mem] = r.old[Mem]
        /\ HalfWay(r)[Disk] = r.old[Disk]
    BY <1>1, <1>3, <1>4, <1>5, HalfWayParts
  <2>3. Enforces(config[r.on], device[r.on].disk, row[r.on].quota)
    BY <1>5, <2>1, <2>2, EnforcesParts
  <2>. QED
    BY <1>1, <2>1, <2>3 DEF Follows
<1>. QED
  BY <1>1, <1>2, <1>3, <1>6, <1>7, QuotaMoves

LEMMA QuotaByRestoreTraffic ==
  ASSUME Typed, QuotaInv, NEW h \in Handlers, RestoreTraffic(h)
  PROVE  QuotaInv'
<1>1. PICK r \in QuotaRequest :
        /\ Move(h, r, None) /\ r.at = "restore" /\ r.before \in Nat
        /\ \/ /\ row'[r.on].traffic = r.before /\ row'[r.on].quota = row[r.on].quota
              /\ \A d \in Containers : d # r.on => row'[d] = row[d]
              /\ drift' = drift
           \/ row' = row /\ Noted(r.on, {"traffic"})
  BY RestoreTrafficDoes
<1>2. UNCHANGED <<config, device>>
  BY RestoreTrafficDoes
<1>3. request[h] = r /\ r.on \in Containers
  BY <1>1, QuotaKinds DEF Move
<1>4. CASE row' = row /\ Noted(r.on, {"traffic"})
  <2>1. /\ "quota" \in drift'[r.on] <=> "quota" \in drift[r.on]
        /\ \A d \in Containers : d # r.on => drift'[d] = drift[d]
    BY <1>3, <1>4 DEF Noted
  <2>2. ASSUME "quota" \notin drift[r.on]
        PROVE  /\ \A g \in Handlers : Copies(request[g], r.on) => request[g].map.disk = device[r.on].disk
               /\ Enforces(config[r.on], device[r.on].disk, row[r.on].quota)
    BY <1>1, <1>3, <2>2, QuotaBefore DEF Follows
  <2>. QED
    BY <1>1, <1>2, <1>4, <2>1, <2>2, QuotaMoves
<1>5. CASE /\ row'[r.on].traffic = r.before /\ row'[r.on].quota = row[r.on].quota
           /\ \A d \in Containers : d # r.on => row'[d] = row[d]
           /\ drift' = drift
  <2>1. ASSUME "quota" \notin drift[r.on]
        PROVE  /\ \A g \in Handlers : Copies(request[g], r.on) => request[g].map.disk = device[r.on].disk
               /\ Enforces(config[r.on], device[r.on].disk, row'[r.on].quota)
    BY <1>1, <1>3, <1>5, <2>1, QuotaBefore DEF Follows
  <2>. QED
    BY <1>1, <1>2, <1>5, <2>1, QuotaMoves
<1>. QED
  BY <1>1, <1>4, <1>5

-----------------------------------------------------------------------------
(* Other requests, which write maps but no quota.                          *)
LEMMA QuotaPasses ==
  ASSUME QuotaInv, NEW h \in Handlers, NEW r, NEW s, Move(h, r, s),
         \A c \in Containers : ~Quotas(r, c) /\ ~Quotas(s, c),
         UNCHANGED <<row, config, device>>,
         \A c \in Containers : Copies(s, c) =>
           s.map.disk = device[c].disk \/ (Copies(r, c) /\ s.map = r.map),
         \A c \in Containers : "quota" \in drift[c] => "quota" \in drift'[c]
  PROVE  QuotaInv'
<1>1. request[h] = r /\ request'[h] = s /\ \A g \in Handlers \ {h} : request'[g] = request[g]
  BY DEF Move
<1>2. ASSUME NEW c \in Containers
      PROVE  QuotaInvOf(drift'[c], row'[c], config'[c], device'[c].disk, request', c)
  <2>1. QuotaInvOf(drift[c], row[c], config[c], device[c].disk, request, c)
    BY DEF QuotaInv
  <2>2. QuotaInvOf(drift'[c], row[c], config[c], device[c].disk, request', c)
    BY <1>1, <2>1, QuotaFrame
  <2>. QED
    BY <2>2
<1>. QED
  BY <1>2, QuotaNext

LEMMA QuotaWritten ==
  ASSUME Typed, QuotaInv, NEW h \in Handlers, NEW r \in Requests, NEW s, Move(h, r, s),
         r.req # "quota", \A c \in Containers : ~Quotas(s, c) /\ ~Copies(s, c),
         Copies(r, r.on), r.on \in Containers, NEW map, map.disk = r.map.disk, Put(r.on, map),
         UNCHANGED <<row, config>>,
         \A c \in Containers : "quota" \in drift[c] => "quota" \in drift'[c]
  PROVE  QuotaInv'
<1>1. request[h] = r /\ request'[h] = s /\ \A g \in Handlers \ {h} : request'[g] = request[g]
  BY DEF Move
<1>2. \A c \in Containers : ~Quotas(r, c) /\ (c # r.on => ~Copies(r, c))
  BY CopyKinds DEF Quotas
<1>3. \A c \in Containers : \A g \in Handlers : Quotas(request[g], c) =>
        request[g] \in QuotaRequest /\ ShapeOf(request[g])
  BY RequestKind DEF Quotas, Typed, TypeOK, Shape
<1>4. ASSUME NEW c \in Containers
      PROVE  QuotaInvOf(drift'[c], row'[c], config'[c], device'[c].disk, request', c)
  <2>1. QuotaInvOf(drift[c], row[c], config[c], device[c].disk, request, c)
    BY DEF QuotaInv
  <2>2. CASE c = r.on
    <3>1. QuotaInvOf(drift'[c], row[c], config[c], r.map.disk, request', c)
      <4>1. ~Quotas(request[h], c) /\ ~Quotas(request'[h], c) /\ ~Copies(request'[h], c)
            /\ Copies(request[h], c)
        BY <1>1, <1>2, <2>2
      <4>2. QuotaInvOf(drift'[c], row[c], config[c], request[h].map.disk, request', c)
        BY <1>1, <1>3, <2>1, <4>1, QuotaWrite
      <4>. QED
        BY <1>1, <4>2
    <3>2. device'[c].disk = r.map.disk
      BY <2>2 DEF Put
    <3>. QED
      BY <3>1, <3>2
  <2>3. CASE c # r.on
    <3>1. QuotaInvOf(drift'[c], row[c], config[c], device[c].disk, request', c)
      BY <1>1, <1>2, <2>1, QuotaFrame
    <3>2. device'[c] = device[c]
      BY <2>3 DEF Put
    <3>. QED
      BY <3>1, <3>2
  <2>. QED
    BY <2>2, <2>3
<1>. QED
  BY <1>4, QuotaNext

LEMMA QuotaByMaps ==
  ASSUME Typed, QuotaInv, NEW h \in Handlers, PatchLimit(h) \/ HardenPatch(h)
  PROVE  QuotaInv'
<1>1. \A r \in LimitRequest : /\ r \in Requests /\ r.req = "limit" /\ r.on \in Containers
                              /\ Copies(r, r.on)
  <2>1. \A r \in LimitRequest : r \in Requests /\ r.req = "limit" /\ r.on \in Containers
    BY DEF LimitRequest, Requests
  <2>. QED
    BY <2>1, CopyKinds
<1>2. \A r \in HardenRequest :
        /\ r \in Requests /\ r.req = "harden" /\ r.on \in Containers
        /\ \A c : ~Quotas(r, c) /\ (Copies(r, c) <=> r.at \in {"stop", "patch"} /\ r.on = c)
  <2>1. \A r \in HardenRequest : r \in Requests /\ r.req = "harden" /\ r.on \in Containers
    BY DEF HardenRequest, Requests
  <2>. QED
    BY <2>1, CopyKinds DEF Quotas
<1>3. \A c : ~Quotas(None, c) /\ ~Copies(None, c)
  BY DEF Quotas, Copies
<1>4. CASE PatchLimit(h)
  <2>1. PICK r \in LimitRequest :
          /\ Move(h, r, None)
          /\ \/ \E map \in Map :
                  /\ map.disk = r.map.disk /\ Put(r.on, map)
                  /\ \/ /\ drift'[r.on] = (drift[r.on] \ {"limit"}) \cup Stale(h, r.on, map)
                        /\ \A d \in Containers : d # r.on => drift'[d] = drift[d]
                     \/ Noted(r.on, Stale(h, r.on, map) \cup {"limit"})
             \/ UNCHANGED <<device, drift>>
    BY <1>4, PatchLimitDoes
  <2>2. UNCHANGED <<row, config>>
    BY <1>4, PatchLimitDoes
  <2>3. \A c \in Containers : "quota" \in drift[c] => "quota" \in drift'[c]
    BY <2>1 DEF Noted
  <2>4. CASE UNCHANGED <<device, drift>>
    BY <1>1, <1>3, <2>1, <2>2, <2>4, QuotaPasses DEF Quotas
  <2>5. CASE \E map \in Map : map.disk = r.map.disk /\ Put(r.on, map)
    BY <1>1, <1>3, <2>1, <2>2, <2>3, <2>5, QuotaWritten
  <2>. QED
    BY <2>1, <2>4, <2>5
<1>5. CASE HardenPatch(h)
  <2>1. PICK r \in HardenRequest, s \in HardenRequest \cup {None} :
          /\ Move(h, r, s) /\ r.at = "patch"
          /\ s # None => s.at = "start"
          /\ \/ \E map \in Map : \E aspects : /\ map.disk = r.map.disk
                                              /\ Put(r.on, map) /\ Noted(r.on, aspects)
             \/ device' = device /\ (drift' = drift \/ Noted(r.on, {"power"}))
    BY <1>5, HardenPatchDoes
  <2>2. UNCHANGED <<row, config>>
    BY <1>5, HardenPatchDoes
  <2>3. \A c \in Containers : "quota" \in drift[c] => "quota" \in drift'[c]
    BY <2>1 DEF Noted
  <2>4. \A c \in Containers : ~Quotas(s, c) /\ ~Copies(s, c) /\ ~Quotas(r, c)
    BY <1>2, <1>3, <2>1
  <2>5. CASE device' = device
    BY <2>1, <2>2, <2>3, <2>4, <2>5, QuotaPasses
  <2>6. CASE \E map \in Map : map.disk = r.map.disk /\ Put(r.on, map)
    BY <1>2, <2>1, <2>2, <2>3, <2>4, <2>6, QuotaWritten
  <2>. QED
    BY <2>1, <2>5, <2>6
<1>. QED
  BY <1>4, <1>5

LEMMA QuotaByOthers ==
  ASSUME Typed, QuotaInv, NEW h \in Handlers,
         \/ HardenStop(h) \/ HardenStart(h) \/ SetAutostart(h) \/ SetState(h)
         \/ DropLeases(h) \/ DhcpOff(h) \/ DhcpOn(h)
         \/ \E c \in Containers : Regenerate(h, c) \/ RepairStop(h, c) \/ RepairStart(h, c)
  PROVE  QuotaInv'
<1>1. \A r \in HardenRequest : \A c :
        ~Quotas(r, c) /\ (Copies(r, c) <=> r.at \in {"stop", "patch"} /\ r.on = c)
  <2>1. \A r \in HardenRequest : r \in Requests /\ r.req = "harden" /\ r.on \in Containers
    BY DEF HardenRequest, Requests
  <2>. QED
    BY <2>1, CopyKinds DEF Quotas
<1>2. \A r \in PowerRequest \cup RepairRequest \cup {None} : \A c : ~Copies(r, c) /\ ~Quotas(r, c)
  <2>1. \A r \in PowerRequest \cup RepairRequest : r \in Requests /\ r.req \in {"power", "repair"}
    BY DEF PowerRequest, RepairRequest, Requests
  <2>2. \A r \in PowerRequest \cup RepairRequest : \A c : ~Copies(r, c) /\ ~Quotas(r, c)
    BY <2>1, CopyKinds DEF Quotas
  <2>3. \A c : ~Copies(None, c) /\ ~Quotas(None, c)
    BY DEF Copies, Quotas
  <2>. QED
    BY <2>2, <2>3
<1>3. UNCHANGED <<row, config, device>>
  BY HardenStopDoes, HardenStartDoes, SetAutostartDoes, SetStateDoes, BridgeStepDoes, RegenerateDoes,
     RepairStopDoes, RepairStartDoes
<1>4. CASE HardenStop(h)
  <2>1. PICK r \in HardenRequest, s \in HardenRequest \cup {None} :
          /\ Move(h, r, s) /\ r.at = "stop"
          /\ s = None \/ (s # None /\ SameHarden(r, s))
          /\ drift' = drift \/ Noted(r.on, {"power"})
    BY <1>4, HardenStopDoes
  <2>2. \A c \in Containers : "quota" \in drift[c] => "quota" \in drift'[c]
    BY <2>1 DEF Noted
  <2>. QED
    BY <1>1, <1>2, <1>3, <2>1, <2>2, QuotaPasses DEF SameHarden
<1>5. CASE HardenStart(h)
  <2>1. PICK r \in HardenRequest : Move(h, r, None) /\ (drift' = drift \/ Noted(r.on, {"power"}))
    BY <1>5, HardenStartDoes
  <2>2. \A c \in Containers : "quota" \in drift[c] => "quota" \in drift'[c]
    BY <2>1 DEF Noted
  <2>. QED
    BY <1>1, <1>2, <1>3, <2>1, <2>2, QuotaPasses
<1>6. CASE SetAutostart(h)
  <2>1. PICK r \in PowerRequest, s \in PowerRequest \cup {None} :
          Move(h, r, s) /\ (drift' = drift \/ Noted(r.on, {"power"}))
    BY <1>6, SetAutostartDoes
  <2>2. \A c \in Containers : "quota" \in drift[c] => "quota" \in drift'[c]
    BY <2>1 DEF Noted
  <2>. QED
    BY <1>2, <1>3, <2>1, <2>2, QuotaPasses
<1>7. CASE SetState(h)
  <2>1. PICK r \in PowerRequest :
          /\ Move(h, r, None)
          /\ \/ /\ \A d \in Containers : d # r.on => drift'[d] = drift[d]
                /\ drift'[r.on] = drift[r.on] \/ drift'[r.on] = drift[r.on] \ {"power"}
             \/ Noted(r.on, {"power"})
    BY <1>7, SetStateDoes
  <2>2. \A c \in Containers : "quota" \in drift[c] => "quota" \in drift'[c]
    BY <2>1 DEF Noted
  <2>. QED
    BY <1>2, <1>3, <2>1, <2>2, QuotaPasses
<1>8. ASSUME \E r \in RepairRequest, s \in RepairRequest \cup {None} :
               Move(h, r, s) /\ (drift' = drift \/ NotedOn(r.affected, {"power"}))
      PROVE  QuotaInv'
  <2>1. PICK r \in RepairRequest, s \in RepairRequest \cup {None} :
          Move(h, r, s) /\ (drift' = drift \/ NotedOn(r.affected, {"power"}))
    BY <1>8
  <2>2. \A c \in Containers : "quota" \in drift[c] => "quota" \in drift'[c]
    BY <2>1 DEF NotedOn
  <2>. QED
    BY <1>2, <1>3, <2>1, <2>2, QuotaPasses
<1>9. CASE DropLeases(h) \/ DhcpOff(h) \/ DhcpOn(h)
  BY <1>8, <1>9, BridgeStepDoes
<1>10. ASSUME NEW c \in Containers, Regenerate(h, c) \/ RepairStop(h, c) \/ RepairStart(h, c)
       PROVE  QuotaInv'
  <2>1. CASE Regenerate(h, c)
    BY <1>8, <2>1, RegenerateDoes
  <2>2. CASE RepairStop(h, c)
    BY <1>8, <2>2, RepairStopDoes
  <2>3. CASE RepairStart(h, c)
    BY <1>8, <2>3, RepairStartDoes
  <2>. QED
    BY <1>10, <2>1, <2>2, <2>3
<1>. QED
  BY <1>4, <1>5, <1>6, <1>7, <1>9, <1>10

(* A request that has met another goes on with the same quotas.            *)
LEMMA MetQuotas ==
  ASSUME NEW r \in QuotaRequest
  PROVE  /\ Met(r) \in QuotaRequest /\ Met(r).met
         /\ \A c : Quotas(Met(r), c) <=> Quotas(r, c)
         /\ \A q, cf, disk : Follows(r, q, cf, disk) => Follows(Met(r), q, cf, disk)
<1>1. /\ Met(r) \in QuotaRequest /\ Met(r).met /\ Met(r).req = r.req /\ Met(r).at = r.at
      /\ Met(r).on = r.on /\ Met(r).done = r.done /\ Met(r).want = r.want /\ Met(r).old = r.old
  BY DEF QuotaRequest, Met
<1>2. \A c : Quotas(Met(r), c) <=> Quotas(r, c)
  BY <1>1, QuotaKinds
<1>3. HalfWay(Met(r)) = HalfWay(r)
  BY <1>1 DEF HalfWay
<1>. QED
  BY <1>1, <1>2, <1>3 DEF Follows

LEMMA QuotaByArrivals ==
  ASSUME Typed, QuotaInv, NEW h \in Handlers, Arrive(h)
  PROVE  QuotaInv'
<1>1. PICK r \in Requests : Begin(h, r) /\ Fresh(r)
  BY ArriveDoes
<1>2. UNCHANGED <<row, config, device>>
  BY ArriveDoes DEF Stores
<1>3. TypeOK
  BY DEF Typed
<1>4. /\ request[h] = None
      /\ request'[h] = r \/ (r.req # "limit" /\ request'[h] = Met(r))
      /\ \A g \in Handlers \ {h} :
           \/ request'[g] = request[g]
           \/ /\ request[g] # None /\ request[g].req # "limit"
              /\ request'[g] = Met(request[g])
      /\ \A g \in Handlers \ {h} :
           request[g] # None /\ Meets(r, request[g]) =>
             /\ request'[h] = Met(r) /\ request'[g] = Met(request[g])
             /\ \A c \in Reach(r) \cap Reach(request[g]) : Touches(r) \subseteq drift'[c]
      /\ \A c \in Containers : drift[c] \subseteq drift'[c]
  BY <1>1, <1>3, Begins
<1>5. \A g \in Handlers : request[g] \in Requests \cup {None}
  BY <1>3 DEF TypeOK
<1>6. ASSUME NEW c \in Containers, Copies(request'[h], c)
      PROVE  request'[h].map = device[c]
  <2>1. Copies(r, c) /\ request'[h].map = r.map
    BY <1>4, <1>6, MetCopies
  <2>. QED
    BY <1>1, <2>1, CopyKinds DEF Fresh
<1>7. ASSUME NEW c \in Containers, NEW g \in Handlers \ {h}, Copies(request'[g], c)
      PROVE  Copies(request[g], c) /\ request'[g].map = request[g].map
  BY <1>4, <1>5, <1>7, MetCopies
<1>8. ASSUME NEW c \in Containers, NEW g \in Handlers \ {h}
      PROVE  /\ Quotas(request'[g], c) <=> Quotas(request[g], c)
             /\ Quotas(request[g], c) => /\ request[g] \in QuotaRequest
                                         /\ \/ request'[g] = request[g]
                                            \/ request'[g] = Met(request[g]) /\ request'[g].met
  <2>1. Quotas(request[g], c) => request[g] \in QuotaRequest
    BY <1>5, RequestKind DEF Quotas
  <2>2. CASE request'[g] = request[g]
    BY <2>1, <2>2
  <2>3. CASE request[g] # None /\ request[g].req # "limit" /\ request'[g] = Met(request[g])
    <3>1. CASE request[g].req = "quota"
      BY <1>5, <2>3, <3>1, RequestKind, MetQuotas
    <3>2. CASE request[g].req # "quota"
      <4>1. request'[g].req = request[g].req
        BY <1>5, <2>3, MetIsSame
      <4>. QED
        BY <3>2, <4>1 DEF Quotas
    <3>. QED
      BY <3>1, <3>2
  <2>. QED
    BY <1>4, <2>2, <2>3
<1>9. ASSUME NEW c \in Containers, Quotas(request'[h], c)
      PROVE  /\ r \in QuotaRequest /\ Quotas(r, c) /\ r.at = "start" /\ r.on = c
             /\ request'[h] = r \/ (request'[h] = Met(r) /\ request'[h].met)
             /\ request'[h].at = "start"
             /\ \A g \in Handlers \ {h} : Quotas(request[g], c) =>
                  "quota" \in drift'[c] /\ request'[h].met /\ request'[g].met
  <2>1. request'[h].req = r.req /\ request'[h].at = r.at
    BY <1>4, MetIsSame
  <2>2. r.req = "quota" /\ r \in QuotaRequest
    BY <1>9, <2>1, RequestKind DEF Quotas
  <2>3. Quotas(r, c) /\ r.on = c /\ (request'[h] = r \/ (request'[h] = Met(r) /\ request'[h].met))
    BY <1>4, <1>9, <2>2, MetQuotas DEF Quotas
  <2>4. r.at = "start"
    BY <1>1, <2>2 DEF Fresh
  <2>5. ASSUME NEW g \in Handlers \ {h}, Quotas(request[g], c)
        PROVE  "quota" \in drift'[c] /\ request'[h].met /\ request'[g].met
    <3>1. /\ request[g] \in QuotaRequest /\ request[g] # None /\ request[g].req = "quota"
          /\ request[g].on = c
      BY <1>8, <2>5 DEF Quotas
    <3>2. /\ Reach(r) = {c} /\ Reach(request[g]) = {c}
          /\ Touches(r) = {"quota", "traffic"} /\ Touches(request[g]) = {"quota", "traffic"}
      BY <2>2, <2>3, <3>1 DEF Reach, Touches
    <3>3. Meets(r, request[g])
      BY <3>2 DEF Meets
    <3>4. request'[h] = Met(r) /\ request'[g] = Met(request[g]) /\ "quota" \in drift'[c]
      BY <1>4, <3>1, <3>2, <3>3
    <3>. QED
      BY <2>2, <3>1, <3>4, MetQuotas
  <2>. QED
    BY <2>1, <2>2, <2>3, <2>4, <2>5
<1>10. ASSUME NEW c \in Containers
       PROVE  QuotaInvOf(drift'[c], row[c], config[c], device[c].disk, request', c)
  <2>1. QuotaInvOf(drift[c], row[c], config[c], device[c].disk, request, c)
    BY DEF QuotaInv
  <2>2. ~Quotas(request[h], c)
    BY <1>4 DEF Quotas
  <2>3. \A g, k \in Handlers :
          g # k /\ Quotas(request'[g], c) /\ Quotas(request'[k], c) =>
            "quota" \in drift'[c] /\ request'[g].met
    <3>1. ASSUME NEW g \in Handlers \ {h}, NEW k \in Handlers \ {h}, g # k,
                 Quotas(request'[g], c), Quotas(request'[k], c)
          PROVE  "quota" \in drift'[c] /\ request'[g].met
      <4>1. "quota" \in drift[c] /\ request[g].met
        BY <1>8, <2>1, <3>1 DEF QuotaInvOf
      <4>. QED
        BY <1>4, <1>8, <3>1, <4>1
    <3>2. ASSUME NEW g \in Handlers \ {h}, Quotas(request'[g], c), Quotas(request'[h], c)
          PROVE  "quota" \in drift'[c] /\ request'[g].met /\ request'[h].met
      BY <1>8, <1>9, <3>2
    <3>. QED
      BY <3>1, <3>2
  <2>4. ASSUME NEW k \in Handlers, Quotas(request'[k], c), ~request'[k].met
        PROVE  /\ Undisturbed(request'[k], row[c], config[c], device[c].disk)
               /\ SetDisk(request'[k]) => \A g \in Handlers :
                    Copies(request'[g], c) => request'[g].map.disk = request'[k].want[Disk]
    <3>1. CASE k = h
      BY <1>9, <2>4, <3>1 DEF Undisturbed, SetDisk
    <3>2. CASE k # h
      <4>1. request'[k] = request[k] /\ Quotas(request[k], c)
        BY <1>8, <2>4, <3>2
      <4>2. /\ Undisturbed(request[k], row[c], config[c], device[c].disk)
            /\ SetDisk(request[k]) => \A g \in Handlers :
                 Copies(request[g], c) => request[g].map.disk = request[k].want[Disk]
        BY <2>1, <2>4, <4>1 DEF QuotaInvOf
      <4>3. SetDisk(request[k]) => device[c].disk = request[k].want[Disk]
        BY <4>2 DEF SetDisk, Undisturbed, Disk
      <4>. QED
        BY <1>6, <1>7, <4>1, <4>2, <4>3
    <3>. QED
      BY <3>1, <3>2
  <2>5. ASSUME "quota" \notin drift'[c]
        PROVE  /\ \A g \in Handlers : Copies(request'[g], c) => request'[g].map.disk = device[c].disk
               /\ \A k \in Handlers : Quotas(request'[k], c) =>
                    Follows(request'[k], row[c].quota, config[c], device[c].disk)
               /\ (\A k \in Handlers : ~Quotas(request'[k], c)) =>
                    Enforces(config[c], device[c].disk, row[c].quota)
    <3>1. /\ \A g \in Handlers : Copies(request[g], c) => request[g].map.disk = device[c].disk
          /\ \A k \in Handlers : Quotas(request[k], c) =>
               Follows(request[k], row[c].quota, config[c], device[c].disk)
          /\ (\A k \in Handlers : ~Quotas(request[k], c)) =>
               Enforces(config[c], device[c].disk, row[c].quota)
      BY <1>4, <2>1, <2>5 DEF QuotaInvOf
    <3>2. \A g \in Handlers : Copies(request'[g], c) => request'[g].map.disk = device[c].disk
      BY <1>6, <1>7, <3>1
    <3>3. ASSUME NEW k \in Handlers \ {h}, Quotas(request'[k], c)
          PROVE  Follows(request'[k], row[c].quota, config[c], device[c].disk)
      <4>1. Quotas(request[k], c) /\ request[k] \in QuotaRequest
        BY <1>8, <3>3
      <4>2. Follows(request[k], row[c].quota, config[c], device[c].disk)
        BY <3>1, <4>1
      <4>. QED
        BY <1>8, <4>1, <4>2, MetQuotas
    <3>4. ASSUME Quotas(request'[h], c)
          PROVE  Follows(request'[h], row[c].quota, config[c], device[c].disk)
      <4>1. \A k \in Handlers : ~Quotas(request[k], c)
        BY <1>9, <2>2, <2>5, <3>4
      <4>. QED
        BY <1>9, <3>1, <3>4, <4>1 DEF Follows
    <3>5. (\A k \in Handlers : ~Quotas(request'[k], c)) => \A k \in Handlers : ~Quotas(request[k], c)
      BY <1>8, <2>2
    <3>. QED
      BY <3>1, <3>2, <3>3, <3>4, <3>5
  <2>. QED
    BY <2>3, <2>4, <2>5 DEF QuotaInvOf
<1>. QED
  BY <1>2, <1>10, QuotaNext

LEMMA QuotaByCrash ==
  ASSUME Typed, QuotaInv, NEW h \in Handlers, Crash(h)
  PROVE  QuotaInv'
<1>1. PICK r \in Requests : Move(h, r, None) /\ NotedOn(Reach(r), Touches(r))
  BY CrashDoes
<1>2. UNCHANGED <<row, config, device>>
  BY CrashDoes
<1>3. \A c \in Containers : ~Quotas(None, c) /\ ~Copies(None, c)
  BY DEF Quotas, Copies
<1>4. \A c \in Containers : "quota" \in drift[c] => "quota" \in drift'[c]
  BY <1>1 DEF NotedOn
<1>5. CASE r.req = "quota"
  <2>1. r \in QuotaRequest /\ r.on \in Containers
    BY <1>5, RequestKind, QuotaKinds
  <2>2. Reach(r) = {r.on} /\ Touches(r) = {"quota", "traffic"}
    BY <1>5 DEF Reach, Touches
  <2>3. /\ "quota" \in drift'[r.on]
        /\ \A d \in Containers : d # r.on => drift'[d] = drift[d]
    BY <1>1, <2>1, <2>2 DEF NotedOn
  <2>. QED
    BY <1>1, <1>2, <2>1, <2>3, QuotaMoves
<1>6. CASE r.req # "quota"
  BY <1>1, <1>2, <1>3, <1>4, <1>6, QuotaPasses DEF Quotas
<1>. QED
  BY <1>5, <1>6

LEMMA QuotaByReboot ==
  ASSUME Typed, QuotaInv, Reboot
  PROVE  QuotaInv'
<1>1. /\ UNCHANGED <<row, config, device>> /\ \A h \in Handlers : request'[h] = None
      /\ \A c \in Containers : "quota" \in drift[c] => "quota" \in drift'[c]
      /\ \A c \in Containers, h \in Handlers : Quotas(request[h], c) => "quota" \in drift'[c]
  BY RebootDoes DEF Aspects
<1>2. ASSUME NEW c \in Containers
      PROVE  QuotaInvOf(drift'[c], row[c], config[c], device[c].disk, request', c)
  <2>1. QuotaInvOf(drift[c], row[c], config[c], device[c].disk, request, c)
    BY DEF QuotaInv
  <2>2. \A h \in Handlers : ~Quotas(request'[h], c) /\ ~Copies(request'[h], c)
    BY <1>1 DEF Quotas, Copies
  <2>3. "quota" \notin drift'[c] => Enforces(config[c], device[c].disk, row[c].quota)
    BY <1>1, <2>1 DEF QuotaInvOf
  <2>. QED
    BY <2>2, <2>3 DEF QuotaInvOf
<1>. QED
  BY <1>1, <1>2, QuotaNext

LEMMA QuotaStep == Typed /\ QuotaInv /\ [Next]_vars => QuotaInv'
<1>. SUFFICES ASSUME Typed, QuotaInv, [Next]_vars PROVE QuotaInv'
  OBVIOUS
<1>1. ASSUME NEW h \in Handlers, Arrive(h) PROVE QuotaInv'
  BY <1>1, QuotaByArrivals
<1>2. ASSUME NEW h \in Handlers, Continue(h) PROVE QuotaInv'
  <2>1. CASE \/ ReadTraffic(h) \/ SetTraffic(h) \/ ReadRow(h) \/ SetLimit(h) \/ PatchDisk(h)
             \/ SaveRow(h)
    BY <2>1, QuotaByReadTraffic, QuotaBySetTraffic, QuotaByReadRow, QuotaBySetLimit,
       QuotaByPatchDisk, QuotaBySaveRow
  <2>2. CASE Undo(h) \/ UnpatchDisk(h) \/ Undone(h) \/ RestoreTraffic(h)
    BY <2>2, QuotaByUndo, QuotaByUnpatchDisk, QuotaByUndone, QuotaByRestoreTraffic
  <2>3. CASE PatchLimit(h) \/ HardenPatch(h)
    BY <2>3, QuotaByMaps
  <2>4. CASE \/ HardenStop(h) \/ HardenStart(h) \/ SetAutostart(h) \/ SetState(h)
             \/ DropLeases(h) \/ DhcpOff(h) \/ DhcpOn(h)
             \/ \E c \in Containers : Regenerate(h, c) \/ RepairStop(h, c) \/ RepairStart(h, c)
    BY <2>4, QuotaByOthers
  <2>. QED
    BY <1>2, <2>1, <2>2, <2>3, <2>4 DEF Continue
<1>3. ASSUME NEW h \in Handlers, Crash(h) PROVE QuotaInv'
  BY <1>3, QuotaByCrash
<1>4. ASSUME NEW c \in Containers, GuestStops(c) PROVE QuotaInv'
  <2>1. UNCHANGED <<row, config, device, request>> /\ Noted(c, {"power"})
    BY <1>4, GuestStopsDoes
  <2>2. \A d \in Containers : "quota" \notin drift'[d] => "quota" \notin drift[d]
    BY <2>1 DEF Noted
  <2>3. ASSUME NEW d \in Containers
        PROVE  QuotaInvOf(drift'[d], row[d], config[d], device[d].disk, request, d)
    <3>1. QuotaInvOf(drift[d], row[d], config[d], device[d].disk, request, d)
      BY DEF QuotaInv
    <3>2. "quota" \in drift[d] => "quota" \in drift'[d]
      BY <2>1 DEF Noted
    <3>. QED
      BY <2>2, <3>1, <3>2 DEF QuotaInvOf
  <2>. QED
    BY <2>1, <2>3, QuotaNext
<1>5. CASE Reboot
  BY <1>5, QuotaByReboot
<1>6. CASE UNCHANGED vars
  <2>1. UNCHANGED <<row, config, device, request, drift>>
    BY <1>6 DEF vars
  <2>2. \A d \in Containers : QuotaInvOf(drift[d], row[d], config[d], device[d].disk, request, d)
    BY DEF QuotaInv
  <2>. QED
    BY <2>1, <2>2, QuotaNext
<1>. QED
  BY <1>1, <1>2, <1>3, <1>4, <1>5, <1>6 DEF Next

LEMMA QuotaInit == Init => QuotaInv
<1>. SUFFICES ASSUME Init PROVE QuotaInv
  OBVIOUS
<1>1. /\ \A h \in Handlers : request[h] = None
      /\ \A c \in Containers :
           /\ row[c].quota = FirstQuota /\ device[c].disk = FirstQuota[Disk]
           /\ config[c] = [cpu |-> CpuLimit(FirstQuota[Cpu]), mem |-> FirstQuota[Mem]]
  BY DEF Init
<1>. QED
  BY <1>1 DEF QuotaInv, QuotaInvOf, Quotas, Copies, Enforces

(* LXD enforces what the users' row says wherever nothing has come apart   *)
(* and no quota request is half-way: a request that fails at any call      *)
(* undoes the ones before it, no writer of a whole device map takes the    *)
(* disk back from under the row, and an undisturbed request that sets      *)
(* every quota mends what others have left apart.                          *)
THEOREM QuotasAgree == Spec => []QuotasFollowRow
<1>1. Init => Typed /\ QuotaInv
  BY InitTypes, QuotaInit DEF Typed
<1>2. QuotaInv => QuotasFollowRow
  <2>. SUFFICES ASSUME QuotaInv, NEW c \in Containers, "quota" \notin drift[c], ~AtWork({"quota"}, c)
                PROVE  /\ config[c] = [cpu |-> CpuLimit(row[c].quota[Cpu]), mem |-> row[c].quota[Mem]]
                       /\ device[c].disk = row[c].quota[Disk]
    BY DEF QuotasFollowRow
  <2>1. \A h \in Handlers : ~Quotas(request[h], c)
    BY DEF AtWork, Quotas, Busy, Idle, Reach
  <2>2. Enforces(config[c], device[c].disk, row[c].quota)
    BY <2>1 DEF QuotaInv, QuotaInvOf
  <2>. QED
    BY <2>2 DEF Enforces
<1>. QED
  BY <1>1, <1>2, TypedStep, QuotaStep, PTL DEF Spec

-----------------------------------------------------------------------------
(* What a request may leave in the row when it ends, and who may shrink a  *)
(* disk. First, that the row changes by nothing but quota requests.        *)
LEMMA OthersMove ==
  ASSUME Typed, NEW h \in Handlers,
         \/ PatchLimit(h) \/ HardenStop(h) \/ HardenPatch(h) \/ HardenStart(h)
         \/ SetAutostart(h) \/ SetState(h)
         \/ DropLeases(h) \/ DhcpOff(h) \/ DhcpOn(h)
         \/ \E c \in Containers : Regenerate(h, c) \/ RepairStop(h, c) \/ RepairStart(h, c)
  PROVE  /\ row' = row
         /\ \E r \in Requests : r.req # "quota" /\ \E s : Move(h, r, s)
<1>1. \A r \in LimitRequest \cup HardenRequest \cup PowerRequest \cup RepairRequest :
        r \in Requests /\ r.req # "quota"
  BY DEF LimitRequest, HardenRequest, PowerRequest, RepairRequest, Requests
<1>2. row' = row
  BY PatchLimitDoes, HardenStopDoes, HardenPatchDoes, HardenStartDoes, SetAutostartDoes,
     SetStateDoes, BridgeStepDoes, RegenerateDoes, RepairStopDoes, RepairStartDoes
<1>3. CASE PatchLimit(h)
  BY <1>1, <1>2, <1>3, PatchLimitDoes
<1>4. CASE HardenStop(h)
  BY <1>1, <1>2, <1>4, HardenStopDoes
<1>5. CASE HardenPatch(h)
  BY <1>1, <1>2, <1>5, HardenPatchDoes
<1>6. CASE HardenStart(h)
  BY <1>1, <1>2, <1>6, HardenStartDoes
<1>7. CASE SetAutostart(h) \/ SetState(h)
  BY <1>1, <1>2, <1>7, SetAutostartDoes, SetStateDoes
<1>8. CASE DropLeases(h) \/ DhcpOff(h) \/ DhcpOn(h)
  BY <1>1, <1>2, <1>8, BridgeStepDoes
<1>9. CASE \E c \in Containers : Regenerate(h, c) \/ RepairStop(h, c) \/ RepairStart(h, c)
  BY <1>1, <1>2, <1>9, RegenerateDoes, RepairStopDoes, RepairStartDoes
<1>. QED
  BY <1>3, <1>4, <1>5, <1>6, <1>7, <1>8, <1>9

LEMMA QuotaEnds ==
  ASSUME Typed, QuotaInv, [Next]_vars, NEW h \in Handlers, NEW r \in QuotaRequest, request[h] = r,
         request'[h] = None, ~r.met, "traffic" \notin drift'[r.on]
  PROVE  \/ row'[r.on].quota = Applied(r) /\ row'[r.on].traffic = r.traffic
         \/ /\ row'[r.on].quota = row[r.on].quota
            /\ r.before # None => row'[r.on].traffic = r.before
<1>1. r.on \in Containers /\ r # None /\ r \in Requests /\ r.req = "quota"
  BY QuotaKinds
<1>2. Undisturbed(r, row[r.on], config[r.on], device[r.on].disk)
  BY QuotaBefore
<1>3. ASSUME NEW g \in Handlers, NEW q, NEW s, Move(g, q, s) PROVE g = h /\ q = r /\ s = None
  BY <1>1, <1>3 DEF Move
<1>4. ~\E g \in Handlers : Arrive(g)
  <2>. SUFFICES ASSUME NEW g \in Handlers, Arrive(g) PROVE FALSE
    OBVIOUS
  <2>1. PICK q \in Requests : Begin(g, q)
    BY ArriveDoes
  <2>2. /\ request[g] = None
        /\ g # h => request'[h] = request[h] \/ request'[h] = Met(request[h])
    BY <2>1, Begins DEF Typed
  <2>3. Met(r) # None
    BY MetQuotas, QuotaKinds
  <2>. QED
    BY <1>1, <2>2, <2>3
<1>5. ASSUME NEW g \in Handlers, Continue(g)
      PROVE  SetTraffic(h) \/ SaveRow(h) \/ RestoreTraffic(h)
  <2>1. CASE SetTraffic(g) \/ SaveRow(g) \/ RestoreTraffic(g)
    BY <1>3, <2>1, SetTrafficDoes, SaveRowDoes, RestoreTrafficDoes
  <2>2. CASE \/ ReadTraffic(g) \/ ReadRow(g) \/ SetLimit(g) \/ PatchDisk(g)
             \/ Undo(g) \/ UnpatchDisk(g) \/ Undone(g)
    <3>1. \E q, s \in QuotaRequest : Move(g, q, s)
      BY <2>2, ReadTrafficDoes, ReadRowDoes, SetLimitDoes, PatchDiskDoes, UndoDoes, UnpatchDiskDoes,
         UndoneDoes
    <3>. QED
      BY <1>3, <3>1, QuotaKinds
  <2>3. CASE \/ PatchLimit(g) \/ HardenStop(g) \/ HardenPatch(g) \/ HardenStart(g)
             \/ SetAutostart(g) \/ SetState(g)
             \/ DropLeases(g) \/ DhcpOff(g) \/ DhcpOn(g)
             \/ \E c \in Containers : Regenerate(g, c) \/ RepairStop(g, c) \/ RepairStart(g, c)
    BY <1>1, <1>3, <2>3, OthersMove
  <2>. QED
    BY <1>5, <2>1, <2>2, <2>3 DEF Continue
<1>6. CASE SetTraffic(h)
  <2>1. r.at = "traffic" /\ row'[r.on] = row[r.on]
    BY <1>3, <1>6, SetTrafficDoes
  <2>. QED
    BY <1>2, <2>1 DEF Undisturbed
<1>7. CASE SaveRow(h)
  <2>1. r.at = "set" /\ row'[r.on].traffic = row[r.on].traffic /\ row'[r.on].quota = Applied(r)
    BY <1>3, <1>7, SaveRowDoes
  <2>. QED
    BY <1>2, <2>1 DEF Undisturbed
<1>8. CASE RestoreTraffic(h)
  <2>1. \/ row'[r.on].traffic = r.before /\ row'[r.on].quota = row[r.on].quota
        \/ Noted(r.on, {"traffic"})
    BY <1>3, <1>8, RestoreTrafficDoes
  <2>. QED
    BY <2>1 DEF Noted
<1>9. ASSUME NEW g \in Handlers, Crash(g) PROVE FALSE
  <2>1. NotedOn(Reach(r), Touches(r))
    BY <1>3, <1>9, CrashDoes
  <2>. QED
    BY <1>1, <2>1 DEF NotedOn, Reach, Touches
<1>10. ~Reboot
  BY <1>1, RebootDoes DEF Quotas
<1>11. ASSUME request' = request PROVE FALSE
  BY <1>1, <1>11
<1>12. ASSUME NEW c \in Containers, GuestStops(c) PROVE FALSE
  BY <1>11, <1>12, GuestStopsDoes
<1>. QED
  BY <1>4, <1>5, <1>6, <1>7, <1>8, <1>9, <1>10, <1>11, <1>12 DEF Next, vars

(* A quota request that met no other and was rolled back cleanly leaves    *)
(* the row with everything it asked for or everything it held before:      *)
(* never the traffic quota of one and the quotas of the other.             *)
THEOREM NeverHalfway == Spec => AllOrNothing
<1>1. Init => Typed /\ QuotaInv
  BY InitTypes, QuotaInit DEF Typed
<1>2. Typed /\ QuotaInv /\ [Next]_vars =>
        [\A h \in Busy :
           LET r == request[h]
           IN (r.req = "quota" /\ request'[h] = None /\ ~r.met /\ "traffic" \notin drift'[r.on]) =>
                \/ row'[r.on] = [quota |-> Applied(r), traffic |-> r.traffic]
                \/ /\ row'[r.on].quota = row[r.on].quota
                   /\ r.before # None => row'[r.on].traffic = r.before]_vars
  <2>. SUFFICES ASSUME Typed, QuotaInv, [Next]_vars, NEW h \in Busy, request[h].req = "quota",
                       request'[h] = None, ~request[h].met, "traffic" \notin drift'[request[h].on]
                PROVE  \/ row'[request[h].on] = [quota |-> Applied(request[h]),
                                                 traffic |-> request[h].traffic]
                       \/ /\ row'[request[h].on].quota = row[request[h].on].quota
                          /\ request[h].before # None =>
                               row'[request[h].on].traffic = request[h].before
    OBVIOUS
  <2>1. PICK r \in QuotaRequest : r = request[h]
    BY RequestKind DEF Typed, TypeOK, Busy, Idle
  <2>2. h \in Handlers /\ r.on \in Containers
    BY QuotaKinds DEF Busy
  <2>3. row'[r.on] \in RowType
    BY <2>2, TypedStep DEF Typed, TypeOK, RowType
  <2>4. \/ row'[r.on].quota = Applied(r) /\ row'[r.on].traffic = r.traffic
        \/ /\ row'[r.on].quota = row[r.on].quota
           /\ r.before # None => row'[r.on].traffic = r.before
    BY <2>1, <2>2, QuotaEnds
  <2>5. row'[r.on].quota = Applied(r) /\ row'[r.on].traffic = r.traffic =>
          row'[r.on] = [quota |-> Applied(r), traffic |-> r.traffic]
    BY <2>3 DEF RowType
  <2>. QED
    BY <2>1, <2>4, <2>5
<1>. QED
  BY <1>1, <1>2, TypedStep, QuotaStep, PTL DEF Spec, AllOrNothing

LEMMA DiskShrinks ==
  ASSUME Typed, QuotaInv, [Next]_vars, NEW c \in Containers,
         row'[c].quota[Disk] < row[c].quota[Disk]
  PROVE  \E h \in Handlers, r \in QuotaRequest : request[h] = r /\ r.on = c /\ r.met
<1>1. row[c].quota[Disk] \in Int /\ row'[c].quota # row[c].quota
  BY DEF Typed, TypeOK, Quota, Resources, Disk
<1>2. PICK g \in Handlers : SaveRow(g)
  <2>1. ASSUME NEW h \in Handlers, Arrive(h) PROVE FALSE
    BY <1>1, <2>1, ArriveDoes DEF Stores
  <2>2. ASSUME NEW h \in Handlers, Continue(h) PROVE SaveRow(h)
    <3>1. CASE SetTraffic(h)
      <4>1. \E r \in QuotaRequest : /\ \A d \in Containers : d # r.on => row'[d] = row[d]
                                    /\ row'[r.on].quota = row[r.on].quota
        BY <3>1, SetTrafficDoes
      <4>. QED
        BY <1>1, <4>1
    <3>2. CASE RestoreTraffic(h)
      <4>1. \E r \in QuotaRequest :
              \/ /\ \A d \in Containers : d # r.on => row'[d] = row[d]
                 /\ row'[r.on].quota = row[r.on].quota
              \/ row' = row
        BY <3>2, RestoreTrafficDoes
      <4>. QED
        BY <1>1, <4>1
    <3>3. CASE \/ ReadTraffic(h) \/ ReadRow(h) \/ SetLimit(h) \/ PatchDisk(h)
               \/ Undo(h) \/ UnpatchDisk(h) \/ Undone(h)
      BY <1>1, <3>3, ReadTrafficDoes, ReadRowDoes, SetLimitDoes, PatchDiskDoes, UndoDoes,
         UnpatchDiskDoes, UndoneDoes DEF Stores
    <3>4. CASE \/ PatchLimit(h) \/ HardenStop(h) \/ HardenPatch(h) \/ HardenStart(h)
               \/ SetAutostart(h) \/ SetState(h)
               \/ DropLeases(h) \/ DhcpOff(h) \/ DhcpOn(h)
               \/ \E d \in Containers : Regenerate(h, d) \/ RepairStop(h, d) \/ RepairStart(h, d)
      BY <1>1, <3>4, OthersMove
    <3>. QED
      BY <2>2, <3>1, <3>2, <3>3, <3>4 DEF Continue
  <2>3. ASSUME NEW h \in Handlers, Crash(h) PROVE FALSE
    BY <1>1, <2>3, CrashDoes
  <2>4. ASSUME NEW d \in Containers, GuestStops(d) PROVE FALSE
    BY <1>1, <2>4, GuestStopsDoes
  <2>5. ~Reboot /\ ~UNCHANGED vars
    BY <1>1, RebootDoes DEF vars
  <2>. QED
    BY <2>1, <2>2, <2>3, <2>4, <2>5 DEF Next
<1>3. PICK r \in QuotaRequest :
        /\ request[g] = r /\ r.at = "set"
        /\ \A d \in Containers : d # r.on => row'[d] = row[d]
        /\ row'[r.on].quota = Applied(r) \/ row' = row
  BY <1>2, SaveRowDoes DEF Move
<1>4. r.on = c /\ row'[c].quota = Applied(r)
  BY <1>1, <1>3
<1>5. ASSUME ~r.met PROVE FALSE
  <2>1. /\ ShapeOf(r) /\ r.req = "quota" /\ row[c].quota = r.old
    BY <1>3, <1>4, <1>5, QuotaBefore, QuotaKinds DEF Undisturbed
  <2>2. r.old \in Quota /\ (r.want[Disk] > 0 => r.want[Disk] >= r.old[Disk])
    BY <1>3, <2>1 DEF ShapeOf
  <2>3. Applied(r)[Disk] = IF r.want[Disk] > 0 THEN r.want[Disk] ELSE r.old[Disk]
    BY <2>2, HalfWayParts
  <2>4. r.want[Disk] \in Int /\ r.old[Disk] \in Int
    BY <2>2 DEF QuotaRequest, Quota, Resources, Disk
  <2>. QED
    BY <1>4, <2>1, <2>2, <2>3, <2>4
<1>. QED
  BY <1>3, <1>4, <1>5

(* The row's disk shrinks only by a request that met another on the same   *)
(* row: one alone compares with the row it then writes.                    *)
THEOREM DisksGrow == Spec => DiskOnlyGrows
<1>1. Init => Typed /\ QuotaInv
  BY InitTypes, QuotaInit DEF Typed
<1>2. Typed /\ QuotaInv /\ [Next]_vars =>
        [\A c \in Containers :
           row'[c].quota[Disk] < row[c].quota[Disk] =>
             \E h \in Busy : request[h].req = "quota" /\ request[h].on = c /\ request[h].met]_vars
  <2>. SUFFICES ASSUME Typed, QuotaInv, [Next]_vars, NEW c \in Containers,
                       row'[c].quota[Disk] < row[c].quota[Disk]
                PROVE  \E h \in Busy : request[h].req = "quota" /\ request[h].on = c /\ request[h].met
    OBVIOUS
  <2>1. PICK h \in Handlers, r \in QuotaRequest : request[h] = r /\ r.on = c /\ r.met
    BY DiskShrinks
  <2>. QED
    BY <2>1, QuotaKinds DEF Busy, Idle
<1>. QED
  BY <1>1, <1>2, TypedStep, QuotaStep, PTL DEF Spec, DiskOnlyGrows

-----------------------------------------------------------------------------
(* Power: what runs, what comes back after a reboot, and what was asked.   *)

LEMMA PowerNext ==
  (\A c \in Containers : PowerInvOf(drift'[c], power'[c], request', c)) => PowerInv'
BY DEF PowerInv, PowerInvOf, Switching, Stage, Reach

LEMMA SwitchKinds ==
  /\ ~\E c : Switching(None, c)
  /\ \A r \in HardenRequest \cup PowerRequest :
       /\ r \in Requests /\ r # None /\ r.on \in Containers /\ r.req \in {"harden", "power"}
       /\ \A c : Switching(r, c) <=> c = r.on
  /\ \A r \in HardenRequest : r.req = "harden" /\ r.wasRunning \in BOOLEAN
  /\ \A r \in PowerRequest : r.req = "power"
  /\ \A r \in RepairRequest :
       /\ r \in Requests /\ r # None /\ r.affected \subseteq Containers /\ r.req = "repair"
       /\ \A c : Switching(r, c) <=> c \in r.affected
  /\ \A r \in QuotaRequest \cup LimitRequest : \A c : ~Switching(r, c)
<1>1. /\ \A r \in HardenRequest \cup PowerRequest :
           r \in Requests /\ r.on \in Containers /\ r.req \in {"harden", "power"}
      /\ \A r \in HardenRequest : r.req = "harden" /\ r.wasRunning \in BOOLEAN
      /\ \A r \in PowerRequest : r.req = "power"
      /\ \A r \in RepairRequest : r \in Requests /\ r.affected \subseteq Containers /\ r.req = "repair"
      /\ \A r \in QuotaRequest \cup LimitRequest : r.req \in {"quota", "limit"}
  BY DEF HardenRequest, PowerRequest, RepairRequest, QuotaRequest, LimitRequest, Requests
<1>. QED
  BY <1>1, RequestKind DEF Switching, Reach

(* A step of a handler that switches nothing on the container.             *)
LEMMA PowerFrame ==
  ASSUME NEW noted, NEW p, NEW requests, NEW c, PowerInvOf(noted, p, requests, c),
         NEW h \in Handlers, NEW after, NEW later,
         \A g \in Handlers \ {h} : after[g] = requests[g],
         ~Switching(requests[h], c), ~Switching(after[h], c),
         "power" \in noted => "power" \in later
  PROVE  PowerInvOf(later, p, after, c)
<1>1. \A g \in Handlers : Switching(after[g], c) <=> Switching(requests[g], c)
  OBVIOUS
<1>2. \A g \in Handlers : Switching(after[g], c) => after[g] = requests[g]
  OBVIOUS
<1>3. \A g, k \in Handlers :
        g # k /\ Switching(after[g], c) /\ Switching(after[k], c) => "power" \in later /\ after[g].met
  BY <1>1, <1>2 DEF PowerInvOf
<1>4. \A k \in Handlers :
        Switching(after[k], c) /\ ~after[k].met /\ after[k].req = "power" /\ after[k].at = "state" =>
          p.autostart = (after[k].action # "stop")
  BY <1>1, <1>2 DEF PowerInvOf
<1>5. "power" \notin later =>
        /\ \A k \in Handlers : Switching(after[k], c) => Stage(after[k], c, p)
        /\ (\A k \in Handlers : ~Switching(after[k], c)) => p.running = p.asked /\ p.autostart = p.asked
  BY <1>1, <1>2 DEF PowerInvOf
<1>. QED
  BY <1>3, <1>4, <1>5 DEF PowerInvOf

(* A step of a request that switches the container: as for quotas, another *)
(* at work on it has met this one.                                         *)
LEMMA PowerStepOn ==
  ASSUME NEW noted, NEW p, NEW requests, NEW c, PowerInvOf(noted, p, requests, c),
         NEW h \in Handlers, NEW after, NEW later, NEW p2,
         \A g \in Handlers \ {h} : after[g] = requests[g],
         NEW r, requests[h] = r, Switching(r, c),
         NEW s, after[h] = s, s # None => Switching(s, c),
         s # None /\ r.met => s.met,
         r.met /\ "power" \in noted => "power" \in later,
         s # None /\ ~s.met /\ s.req = "power" /\ s.at = "state" =>
           p2.autostart = (s.action # "stop"),
         "power" \notin later =>
           /\ s # None => Stage(s, c, p2)
           /\ s = None => p2.running = p2.asked /\ p2.autostart = p2.asked
  PROVE  PowerInvOf(later, p2, after, c)
<1>1. ~Switching(None, c)
  BY SwitchKinds
<1>2. CASE \E g \in Handlers \ {h} : Switching(requests[g], c)
  <2>1. PICK other \in Handlers \ {h} : Switching(requests[other], c)
    BY <1>2
  <2>2. "power" \in noted /\ r.met
    BY <2>1 DEF PowerInvOf
  <2>3. \A g \in Handlers : Switching(after[g], c) => after[g].met
    <3>1. ASSUME NEW g \in Handlers \ {h}, Switching(after[g], c) PROVE after[g].met
      BY <3>1 DEF PowerInvOf
    <3>2. Switching(after[h], c) => after[h].met
      BY <1>1, <2>2
    <3>. QED
      BY <3>1, <3>2
  <2>. QED
    BY <2>2, <2>3 DEF PowerInvOf
<1>3. CASE \A g \in Handlers \ {h} : ~Switching(requests[g], c)
  <2>1. \A g \in Handlers : Switching(after[g], c) => g = h /\ s # None
    BY <1>1, <1>3
  <2>2. ASSUME NEW k \in Handlers, Switching(after[k], c), ~after[k].met, after[k].req = "power",
               after[k].at = "state"
        PROVE  p2.autostart = (after[k].action # "stop")
    BY <2>1, <2>2
  <2>3. ASSUME "power" \notin later
        PROVE  /\ \A k \in Handlers : Switching(after[k], c) => Stage(after[k], c, p2)
               /\ (\A k \in Handlers : ~Switching(after[k], c)) =>
                    p2.running = p2.asked /\ p2.autostart = p2.asked
    BY <2>1, <2>3
  <2>. QED
    BY <2>1, <2>2, <2>3 DEF PowerInvOf
<1>. QED
  BY <1>2, <1>3

LEMMA PowerBefore ==
  ASSUME Typed, PowerInv, NEW h \in Handlers, NEW r \in Requests, request[h] = r,
         NEW c \in Containers, Switching(r, c)
  PROVE  /\ ShapeOf(r)
         /\ ~r.met /\ r.req = "power" /\ r.at = "state" => power[c].autostart = (r.action # "stop")
         /\ "power" \notin drift[c] => Stage(r, c, power[c])
<1>1. PowerInvOf(drift[c], power[c], request, c) /\ r # None
  BY RequestKind DEF PowerInv
<1>. QED
  BY <1>1 DEF PowerInvOf, Typed, Shape

(* The same for every container, by a request on one of them.              *)
LEMMA PowerMoves ==
  ASSUME Typed, PowerInv, NEW h \in Handlers,
         NEW r \in HardenRequest \cup PowerRequest,
         NEW s \in HardenRequest \cup PowerRequest \cup {None}, Move(h, r, s),
         s # None => s.on = r.on,
         \A d \in Containers : d # r.on => power'[d] = power[d] /\ drift'[d] = drift[d],
         s # None /\ r.met => s.met,
         r.met /\ "power" \in drift[r.on] => "power" \in drift'[r.on],
         s # None /\ ~s.met /\ s.req = "power" /\ s.at = "state" =>
           power'[r.on].autostart = (s.action # "stop"),
         "power" \notin drift'[r.on] =>
           /\ s # None => Stage(s, r.on, power'[r.on])
           /\ s = None => /\ power'[r.on].running = power'[r.on].asked
                          /\ power'[r.on].autostart = power'[r.on].asked
  PROVE  PowerInv'
<1>1. request[h] = r /\ request'[h] = s /\ \A g \in Handlers \ {h} : request'[g] = request[g]
  BY DEF Move
<1>2. /\ r.on \in Containers /\ \A c : Switching(r, c) <=> c = r.on
      /\ \A c : Switching(s, c) => c = r.on
      /\ s # None => Switching(s, r.on)
  BY SwitchKinds
<1>3. ASSUME NEW c \in Containers
      PROVE  PowerInvOf(drift'[c], power'[c], request', c)
  <2>1. PowerInvOf(drift[c], power[c], request, c)
    BY DEF PowerInv
  <2>2. CASE c = r.on
    BY <1>1, <1>2, <2>1, <2>2, PowerStepOn
  <2>3. CASE c # r.on
    <3>1. PowerInvOf(drift[c], power[c], request', c)
      BY <1>1, <1>2, <2>1, <2>3, PowerFrame
    <3>. QED
      BY <2>3, <3>1
  <2>. QED
    BY <2>2, <2>3
<1>. QED
  BY <1>3, PowerNext

(* It fails, and what it last asked for may have been done or not.         *)
LEMMA PowerLost ==
  ASSUME Typed, PowerInv, NEW h \in Handlers, NEW r \in HardenRequest \cup PowerRequest,
         Move(h, r, None), Noted(r.on, {"power"}),
         \A d \in Containers : d # r.on => power'[d] = power[d]
  PROVE  PowerInv'
<1>1. "power" \in drift'[r.on] /\ \A d \in Containers : d # r.on => drift'[d] = drift[d]
  BY SwitchKinds DEF Noted
<1>. QED
  BY <1>1, PowerMoves

(* And by a repair, on all those it affects.                               *)
LEMMA PowerRepairs ==
  ASSUME Typed, PowerInv, NEW h \in Handlers,
         NEW r \in RepairRequest, NEW s \in RepairRequest \cup {None}, Move(h, r, s),
         s # None => s.affected = r.affected /\ s.met = r.met,
         \A d \in Containers : d \notin r.affected => power'[d] = power[d] /\ drift'[d] = drift[d],
         \A d \in Containers : "power" \in drift[d] => "power" \in drift'[d],
         \A d \in r.affected : "power" \notin drift'[d] =>
           /\ s # None => Stage(s, d, power'[d])
           /\ s = None => power'[d].running = power'[d].asked /\ power'[d].autostart = power'[d].asked
  PROVE  PowerInv'
<1>1. request[h] = r /\ request'[h] = s /\ \A g \in Handlers \ {h} : request'[g] = request[g]
  BY DEF Move
<1>2. /\ \A c : Switching(r, c) <=> c \in r.affected
      /\ \A c : Switching(s, c) => c \in r.affected
      /\ s # None => (\A c \in r.affected : Switching(s, c)) /\ s.req = "repair"
  BY SwitchKinds
<1>3. ASSUME NEW c \in Containers
      PROVE  PowerInvOf(drift'[c], power'[c], request', c)
  <2>1. PowerInvOf(drift[c], power[c], request, c)
    BY DEF PowerInv
  <2>2. CASE c \in r.affected
    <3>1. s # None => Switching(s, c) /\ ~(s.req = "power")
      BY <1>2, <2>2
    <3>. QED
      BY <1>1, <1>2, <2>1, <2>2, <3>1, PowerStepOn
  <2>3. CASE c \notin r.affected
    <3>1. PowerInvOf(drift[c], power[c], request', c)
      BY <1>1, <1>2, <2>1, <2>3, PowerFrame
    <3>. QED
      BY <2>3, <3>1
  <2>. QED
    BY <2>2, <2>3
<1>. QED
  BY <1>3, PowerNext

LEMMA PowerByHardening ==
  ASSUME Typed, PowerInv, NEW h \in Handlers, HardenStop(h) \/ HardenPatch(h) \/ HardenStart(h)
  PROVE  PowerInv'
<1>1. \A r \in HardenRequest : /\ r \in Requests /\ r # None /\ r.on \in Containers
                               /\ r.req = "harden" /\ Switching(r, r.on)
  BY SwitchKinds
<1>2. \A r \in HardenRequest : request[h] = r /\ "power" \notin drift[r.on] =>
        /\ power[r.on].autostart = power[r.on].asked
        /\ IF r.wasRunning THEN power[r.on].asked /\ power[r.on].running = (r.at = "stop")
           ELSE power[r.on].running = power[r.on].asked
  <2>. SUFFICES ASSUME NEW r \in HardenRequest, request[h] = r, "power" \notin drift[r.on]
                PROVE  /\ power[r.on].autostart = power[r.on].asked
                       /\ IF r.wasRunning
                          THEN power[r.on].asked /\ power[r.on].running = (r.at = "stop")
                          ELSE power[r.on].running = power[r.on].asked
    OBVIOUS
  <2>1. r.req = "harden" /\ Stage(r, r.on, power[r.on])
    BY <1>1, PowerBefore
  <2>. QED
    BY <2>1 DEF Stage
<1>3. CASE HardenStop(h)
  <2>1. PICK r \in HardenRequest, s \in HardenRequest \cup {None} :
          /\ Move(h, r, s) /\ r.at = "stop" /\ r.wasRunning
          /\ \/ /\ s # None /\ s.at = "patch" /\ SameHarden(r, s) /\ drift' = drift
                /\ \E p \in PowerType :
                     /\ ~p.running /\ p.autostart = power[r.on].autostart
                     /\ p.asked = power[r.on].asked /\ Powered(r.on, p)
             \/ s = None /\ power' = power /\ drift' = drift
             \/ /\ s = None /\ Noted(r.on, {"power"})
                /\ \A d \in Containers : d # r.on => power'[d] = power[d]
    BY <1>3, HardenStopDoes
  <2>2. CASE s = None /\ Noted(r.on, {"power"}) /\ \A d \in Containers : d # r.on => power'[d] = power[d]
    BY <2>1, <2>2, PowerLost
  <2>3. request[h] = r
    BY <2>1 DEF Move
  <2>4. CASE s = None /\ power' = power /\ drift' = drift
    <3>1. "power" \notin drift'[r.on] =>
            power'[r.on].running = power'[r.on].asked /\ power'[r.on].autostart = power'[r.on].asked
      BY <1>2, <2>1, <2>3, <2>4
    <3>. QED
      BY <2>1, <2>4, <3>1, PowerMoves
  <2>5. ASSUME s # None, s.at = "patch", SameHarden(r, s), drift' = drift, NEW p \in PowerType, ~p.running,
               p.autostart = power[r.on].autostart, p.asked = power[r.on].asked, Powered(r.on, p)
        PROVE  PowerInv'
    <3>1. power'[r.on] = p /\ \A d \in Containers : d # r.on => power'[d] = power[d]
      BY <2>5 DEF Powered
    <3>2. s.req = "harden" /\ s.on = r.on /\ s.met = r.met /\ s.wasRunning /\ p.running = FALSE
      BY <1>1, <2>1, <2>5 DEF SameHarden, PowerType
    <3>3. "power" \notin drift'[r.on] => Stage(s, r.on, power'[r.on])
      BY <1>2, <2>1, <2>3, <2>5, <3>1, <3>2 DEF Stage
    <3>. QED
      BY <2>1, <2>5, <3>1, <3>2, <3>3, PowerMoves
  <2>. QED
    BY <2>1, <2>2, <2>4, <2>5
<1>4. CASE HardenPatch(h)
  <2>1. PICK r \in HardenRequest, s \in HardenRequest \cup {None} :
          /\ Move(h, r, s) /\ r.at = "patch"
          /\ \/ /\ IF r.wasRunning THEN s # None /\ s.at = "start" /\ SameHarden(r, s)
                   ELSE s = None
                /\ \E map : Noted(r.on, Stale(h, r.on, map))
             \/ /\ s = None
                /\ IF r.wasRunning THEN Noted(r.on, {"power"}) ELSE drift' = drift
             \/ /\ s = None
                /\ \E map : \E more \in SUBSET {"power"} :
                     /\ r.wasRunning => more = {"power"}
                     /\ Noted(r.on, Stale(h, r.on, map) \cup more)
    BY <1>4, HardenPatchDoes
  <2>2. power' = power
    BY <1>4, HardenPatchDoes
  <2>3. request[h] = r
    BY <2>1 DEF Move
  <2>4. \A d \in Containers : /\ d # r.on => drift'[d] = drift[d]
                              /\ "power" \in drift[d] => "power" \in drift'[d]
    BY <2>1 DEF Noted
  <2>5. ASSUME s # None
        PROVE  /\ s.req = "harden" /\ s.on = r.on /\ s.met = r.met
               /\ "power" \notin drift'[r.on] => Stage(s, r.on, power'[r.on])
    <3>1. s.at = "start" /\ s.wasRunning = r.wasRunning /\ r.wasRunning /\ s.req = "harden"
          /\ s.on = r.on /\ s.met = r.met
      BY <1>1, <2>1, <2>5 DEF SameHarden
    <3>2. "power" \notin drift'[r.on] => Stage(s, r.on, power'[r.on])
      BY <1>1, <1>2, <2>1, <2>2, <2>3, <2>4, <3>1 DEF Stage
    <3>. QED
      BY <3>1, <3>2
  <2>6. ASSUME s = None, "power" \notin drift'[r.on]
        PROVE  power'[r.on].running = power'[r.on].asked /\ power'[r.on].autostart = power'[r.on].asked
    <3>1. ~r.wasRunning /\ "power" \notin drift[r.on]
      BY <1>1, <2>1, <2>4, <2>6 DEF Noted
    <3>. QED
      BY <1>2, <2>2, <2>3, <3>1
  <2>. QED
    BY <1>1, <2>1, <2>2, <2>4, <2>5, <2>6, PowerMoves
<1>5. CASE HardenStart(h)
  <2>1. PICK r \in HardenRequest :
          /\ Move(h, r, None) /\ r.wasRunning
          /\ \/ /\ drift' = drift
                /\ \E p \in PowerType :
                     /\ p.running /\ p.autostart = power[r.on].autostart
                     /\ p.asked = power[r.on].asked /\ Powered(r.on, p)
             \/ /\ Noted(r.on, {"power"})
                /\ \A d \in Containers : d # r.on => power'[d] = power[d]
    BY <1>5, HardenStartDoes
  <2>2. request[h] = r
    BY <2>1 DEF Move
  <2>3. CASE Noted(r.on, {"power"}) /\ \A d \in Containers : d # r.on => power'[d] = power[d]
    BY <2>1, <2>3, PowerLost
  <2>4. ASSUME drift' = drift, NEW p \in PowerType, p.running, p.autostart = power[r.on].autostart,
               p.asked = power[r.on].asked, Powered(r.on, p)
        PROVE  PowerInv'
    <3>1. power'[r.on] = p /\ \A d \in Containers : d # r.on => power'[d] = power[d]
      BY <2>4 DEF Powered
    <3>2. p.asked \in BOOLEAN /\ p.running \in BOOLEAN
      BY DEF PowerType
    <3>3. "power" \notin drift[r.on] => p.running = p.asked /\ p.autostart = p.asked
      BY <1>2, <2>1, <2>2, <2>4, <3>2
    <3>. QED
      BY <2>1, <2>4, <3>1, <3>3, PowerMoves
  <2>. QED
    BY <2>1, <2>3, <2>4
<1>. QED
  BY <1>3, <1>4, <1>5

LEMMA PowerByRequests ==
  ASSUME Typed, PowerInv, NEW h \in Handlers, SetAutostart(h) \/ SetState(h)
  PROVE  PowerInv'
<1>1. \A r \in PowerRequest : /\ r \in Requests /\ r # None /\ r.on \in Containers
                              /\ r.req = "power" /\ Switching(r, r.on)
  BY SwitchKinds
<1>2. \A r \in PowerRequest : request[h] = r =>
        /\ ~r.met /\ r.at = "state" => power[r.on].autostart = (r.action # "stop")
        /\ "power" \notin drift[r.on] =>
             /\ power[r.on].autostart = IF r.at = "state" THEN r.action # "stop"
                                        ELSE power[r.on].asked
             /\ power[r.on].running = power[r.on].asked
  <2>. TAKE r \in PowerRequest
  <2>. HAVE request[h] = r
  <2>1. r \in Requests /\ r.on \in Containers /\ r.req = "power" /\ Switching(r, r.on)
    BY <1>1
  <2>2. /\ ~r.met /\ r.at = "state" => power[r.on].autostart = (r.action # "stop")
        /\ "power" \notin drift[r.on] => Stage(r, r.on, power[r.on])
    BY <2>1, PowerBefore
  <2>. QED
    BY <2>1, <2>2 DEF Stage
<1>3. CASE SetAutostart(h)
  <2>1. PICK r \in PowerRequest, s \in PowerRequest \cup {None} :
          /\ Move(h, r, s) /\ r.at = "autostart"
          /\ \/ /\ s # None /\ s.at = "state" /\ s.on = r.on /\ s.action = r.action /\ s.met = r.met
                /\ drift' = drift
                /\ \E p \in PowerType :
                     /\ p.running = power[r.on].running /\ p.autostart = (r.action # "stop")
                     /\ p.asked = power[r.on].asked /\ Powered(r.on, p)
             \/ s = None /\ power' = power /\ drift' = drift
             \/ /\ s = None /\ Noted(r.on, {"power"})
                /\ \A d \in Containers : d # r.on => power'[d] = power[d]
    BY <1>3, SetAutostartDoes
  <2>2. CASE s = None /\ Noted(r.on, {"power"}) /\ \A d \in Containers : d # r.on => power'[d] = power[d]
    BY <2>1, <2>2, PowerLost
  <2>3. request[h] = r
    BY <2>1 DEF Move
  <2>4. CASE s = None /\ power' = power /\ drift' = drift
    <3>1. "power" \notin drift'[r.on] =>
            power'[r.on].running = power'[r.on].asked /\ power'[r.on].autostart = power'[r.on].asked
      BY <1>2, <2>1, <2>3, <2>4
    <3>. QED
      BY <2>1, <2>4, <3>1, PowerMoves
  <2>5. ASSUME s # None, s.at = "state", s.on = r.on, s.action = r.action, s.met = r.met,
               drift' = drift,
               NEW p \in PowerType, p.running = power[r.on].running,
               p.autostart = (r.action # "stop"), p.asked = power[r.on].asked, Powered(r.on, p)
        PROVE  PowerInv'
    <3>1. power'[r.on] = p /\ \A d \in Containers : d # r.on => power'[d] = power[d]
      BY <2>5 DEF Powered
    <3>2. s.req = "power"
      BY <1>1, <2>5
    <3>3. "power" \notin drift[r.on] => Stage(s, r.on, p)
      BY <1>2, <2>1, <2>3, <2>5, <3>2 DEF Stage
    <3>. QED
      BY <2>1, <2>5, <3>1, <3>2, <3>3, PowerMoves
  <2>. QED
    BY <2>1, <2>2, <2>4, <2>5
<1>4. CASE SetState(h)
  <2>1. PICK r \in PowerRequest :
          /\ Move(h, r, None) /\ r.at = "state"
          /\ \/ /\ \E p \in PowerType :
                     /\ p.running = (r.action # "stop") /\ p.asked = (r.action # "stop")
                     /\ p.autostart = power[r.on].autostart /\ Powered(r.on, p)
                /\ \A d \in Containers : d # r.on => drift'[d] = drift[d]
                /\ drift'[r.on] = drift[r.on]
                     \/ (~r.met /\ drift'[r.on] = drift[r.on] \ {"power"})
             \/ /\ Noted(r.on, {"power"})
                /\ \A d \in Containers : d # r.on => power'[d] = power[d]
    BY <1>4, SetStateDoes
  <2>2. request[h] = r
    BY <2>1 DEF Move
  <2>3. CASE Noted(r.on, {"power"}) /\ \A d \in Containers : d # r.on => power'[d] = power[d]
    BY <2>1, <2>3, PowerLost
  <2>4. ASSUME NEW p \in PowerType, p.running = (r.action # "stop"), p.asked = (r.action # "stop"),
               p.autostart = power[r.on].autostart, Powered(r.on, p),
               \A d \in Containers : d # r.on => drift'[d] = drift[d],
               drift'[r.on] = drift[r.on] \/ (~r.met /\ drift'[r.on] = drift[r.on] \ {"power"})
        PROVE  PowerInv'
    <3>1. power'[r.on] = p /\ \A d \in Containers : d # r.on => power'[d] = power[d]
      BY <2>4 DEF Powered
    <3>2. "power" \notin drift'[r.on] => p.running = p.asked /\ p.autostart = p.asked
      BY <1>2, <2>1, <2>2, <2>4
    <3>3. r.met /\ "power" \in drift[r.on] => "power" \in drift'[r.on]
      BY <2>4
    <3>. QED
      BY <2>1, <2>4, <3>1, <3>2, <3>3, PowerMoves
  <2>. QED
    BY <2>1, <2>3, <2>4
<1>. QED
  BY <1>3, <1>4

LEMMA PowerByRepairs ==
  ASSUME Typed, PowerInv, NEW h \in Handlers,
         \/ DropLeases(h) \/ DhcpOff(h) \/ DhcpOn(h)
         \/ \E c \in Containers : Regenerate(h, c) \/ RepairStop(h, c) \/ RepairStart(h, c)
  PROVE  PowerInv'
<1>1. \A r \in RepairRequest :
        /\ r \in Requests /\ r # None /\ r.req = "repair" /\ r.affected \subseteq Containers
        /\ \A c \in r.affected : Switching(r, c)
  BY SwitchKinds
<1>2. \A r \in RepairRequest : request[h] = r =>
        /\ ShapeOf(r)
        /\ \A c \in r.affected : "power" \notin drift[c] =>
             /\ power[c].autostart = power[c].asked /\ power[c].asked
             /\ power[c].running = \/ r.at = "regenerate"
                                   \/ r.at = "stop" /\ c \in r.todo
                                   \/ r.at = "start" /\ c \notin r.todo
  <2>. SUFFICES ASSUME NEW r \in RepairRequest, request[h] = r
                PROVE  /\ ShapeOf(r)
                       /\ \A c \in r.affected : "power" \notin drift[c] =>
                            /\ power[c].autostart = power[c].asked /\ power[c].asked
                            /\ power[c].running = \/ r.at = "regenerate"
                                                  \/ r.at = "stop" /\ c \in r.todo
                                                  \/ r.at = "start" /\ c \notin r.todo
    OBVIOUS
  <2>1. ShapeOf(r)
    BY <1>1 DEF Typed, Shape
  <2>2. \A c \in r.affected : "power" \notin drift[c] => Stage(r, c, power[c])
    BY <1>1, PowerBefore
  <2>. QED
    BY <1>1, <2>1, <2>2 DEF Stage
<1>3. ASSUME NEW r \in RepairRequest, Move(h, r, None), NotedOn(r.affected, {"power"}),
             \A d \in Containers : d \notin r.affected => power'[d] = power[d]
      PROVE  PowerInv'
  <2>1. /\ \A d \in r.affected : "power" \in drift'[d]
        /\ \A d \in Containers : /\ d \notin r.affected => drift'[d] = drift[d]
                                 /\ "power" \in drift[d] => "power" \in drift'[d]
    BY <1>1, <1>3 DEF NotedOn
  <2>. QED
    BY <1>3, <2>1, PowerRepairs
<1>4. CASE DropLeases(h) \/ DhcpOff(h) \/ DhcpOn(h)
  <2>1. power' = power
    BY <1>4, BridgeStepDoes
  <2>2. PICK r \in RepairRequest, s \in RepairRequest \cup {None} :
          /\ Move(h, r, s)
          /\ \/ /\ s # None /\ s.todo = r.todo /\ s.affected = r.affected /\ s.met = r.met
                /\ drift' = drift
                /\ r.at \in {"leases", "off", "on"} /\ s.at \in {"off", "on", "start"}
             \/ s = None /\ NotedOn(r.affected, {"power"})
    BY <1>4, BridgeStepDoes
  <2>3. CASE /\ s # None /\ s.todo = r.todo /\ s.affected = r.affected /\ s.met = r.met
             /\ drift' = drift
             /\ r.at \in {"leases", "off", "on"} /\ s.at \in {"off", "on", "start"}
    <3>1. r.todo = r.affected /\ s.req = "repair" /\ request[h] = r
      BY <1>1, <1>2, <2>2, <2>3 DEF Move, ShapeOf
    <3>2. ASSUME NEW d \in r.affected, "power" \notin drift[d] PROVE Stage(s, d, power[d])
      BY <1>2, <2>3, <3>1, <3>2 DEF Stage
    <3>. QED
      BY <2>1, <2>2, <2>3, <3>2, PowerRepairs
  <2>. QED
    BY <1>3, <2>1, <2>2, <2>3
<1>5. ASSUME NEW c \in Containers, Regenerate(h, c) PROVE PowerInv'
  <2>1. UNCHANGED <<power, drift>>
    BY <1>5, RegenerateDoes
  <2>2. PICK r \in RepairRequest, s \in RepairRequest \cup {None} :
          /\ Move(h, r, s) /\ r.at = "regenerate"
          /\ Round(r, s, c, "stop") \/ s = None
    BY <1>5, RegenerateDoes
  <2>3. s # None => /\ s.affected = r.affected /\ s.met = r.met /\ s.req = "repair"
                    /\ s.at = "regenerate" \/ (s.at = "stop" /\ s.todo = r.affected)
    BY <1>1, <2>2 DEF Round
  <2>4. ASSUME NEW d \in r.affected, "power" \notin drift[d]
        PROVE  /\ s # None => Stage(s, d, power[d])
               /\ s = None => power[d].running = power[d].asked /\ power[d].autostart = power[d].asked
    <3>1. /\ power[d].autostart = power[d].asked /\ power[d].asked /\ power[d].running
          /\ power[d] \in PowerType
      BY <1>1, <1>2, <2>2, <2>4 DEF Move, Typed, TypeOK, PowerType
    <3>2. power[d].running = power[d].asked
      BY <3>1 DEF PowerType
    <3>. QED
      BY <2>3, <3>1, <3>2 DEF Stage
  <2>. QED
    BY <2>1, <2>2, <2>3, <2>4, PowerRepairs
<1>6. ASSUME NEW c \in Containers, RepairStop(h, c) PROVE PowerInv'
  <2>1. PICK r \in RepairRequest, s \in RepairRequest \cup {None} :
          /\ Move(h, r, s) /\ r.at = "stop"
          /\ \/ /\ Round(r, s, c, "leases") /\ c \in r.todo
                /\ drift' = drift
                /\ \E p \in PowerType :
                     /\ ~p.running /\ p.autostart = power[c].autostart
                     /\ p.asked = power[c].asked /\ Powered(c, p)
             \/ /\ s = None /\ NotedOn(r.affected, {"power"})
                /\ \A d \in Containers : d \notin r.affected => power'[d] = power[d]
    BY <1>6, RepairStopDoes
  <2>2. ASSUME Round(r, s, c, "leases"), c \in r.todo, drift' = drift, NEW p \in PowerType,
               ~p.running, p.autostart = power[c].autostart, p.asked = power[c].asked, Powered(c, p)
        PROVE  PowerInv'
    <3>1. request[h] = r /\ c \in r.affected
      BY <1>2, <2>1, <2>2, <1>1 DEF Move, ShapeOf
    <3>2. /\ s # None /\ s.affected = r.affected /\ s.met = r.met /\ s.req = "repair"
          /\ \/ r.todo # {c} /\ s.at = "stop" /\ s.todo = r.todo \ {c}
             \/ r.todo = {c} /\ s.at = "leases"
      BY <1>1, <2>1, <2>2, NothingAssumption DEF Round
    <3>3. power'[c] = p /\ \A d \in Containers : d # c => power'[d] = power[d]
      BY <2>2 DEF Powered
    <3>4. ASSUME "power" \notin drift[c] PROVE Stage(s, c, p)
      <4>1. p.running = FALSE /\ p.autostart = p.asked /\ p.asked
        BY <1>2, <2>2, <3>1, <3>4 DEF PowerType
      <4>. QED
        BY <2>2, <3>2, <4>1 DEF Stage
    <3>5. ASSUME NEW d \in r.affected, d # c, "power" \notin drift[d] PROVE Stage(s, d, power[d])
      BY <1>2, <2>1, <3>1, <3>2, <3>5 DEF Stage
    <3>6. \A d \in r.affected : "power" \notin drift'[d] => Stage(s, d, power'[d])
      BY <1>1, <2>2, <3>3, <3>4, <3>5
    <3>7. \A d \in Containers : d \notin r.affected => power'[d] = power[d]
      BY <3>1, <3>3
    <3>. QED
      BY <2>1, <2>2, <3>2, <3>6, <3>7, PowerRepairs
  <2>. QED
    BY <1>3, <2>1, <2>2
<1>7. ASSUME NEW c \in Containers, RepairStart(h, c) PROVE PowerInv'
  <2>1. PICK r \in RepairRequest, s \in RepairRequest \cup {None} :
          /\ Move(h, r, s) /\ r.at = "start"
          /\ \/ /\ Round(r, s, c, None) /\ c \in r.todo
                /\ drift' = drift
                /\ \E p \in PowerType :
                     /\ p.running /\ p.autostart = power[c].autostart
                     /\ p.asked = power[c].asked /\ Powered(c, p)
             \/ /\ s = None /\ NotedOn(r.affected, {"power"})
                /\ \A d \in Containers : d \notin r.affected => power'[d] = power[d]
    BY <1>7, RepairStartDoes
  <2>2. ASSUME Round(r, s, c, None), c \in r.todo, drift' = drift, NEW p \in PowerType,
               p.running, p.autostart = power[c].autostart, p.asked = power[c].asked, Powered(c, p)
        PROVE  PowerInv'
    <3>1. request[h] = r /\ c \in r.affected
      BY <1>2, <2>1, <2>2, <1>1 DEF Move, ShapeOf
    <3>2. /\ s # None => /\ s.affected = r.affected /\ s.met = r.met /\ s.req = "repair"
                         /\ s.at = "start" /\ s.todo = r.todo \ {c}
          /\ s = None => r.todo = {c}
      BY <1>1, <2>1, <2>2 DEF Round
    <3>3. power'[c] = p /\ \A d \in Containers : d # c => power'[d] = power[d]
      BY <2>2 DEF Powered
    <3>4. ASSUME "power" \notin drift[c]
          PROVE  /\ s # None => Stage(s, c, p)
                 /\ s = None => p.running = p.asked /\ p.autostart = p.asked
      <4>1. p.autostart = p.asked /\ p.asked /\ p.running = p.asked
        BY <1>2, <2>2, <3>1, <3>4 DEF PowerType
      <4>. QED
        BY <2>2, <3>2, <4>1 DEF Stage
    <3>5. ASSUME NEW d \in r.affected, d # c, "power" \notin drift[d]
          PROVE  /\ s # None => Stage(s, d, power[d])
                 /\ s = None => power[d].running = power[d].asked /\ power[d].autostart = power[d].asked
      <4>1. /\ power[d].autostart = power[d].asked /\ power[d].asked
            /\ power[d].running = (d \notin r.todo) /\ power[d] \in PowerType
        BY <1>1, <1>2, <2>1, <3>1, <3>5 DEF Typed, TypeOK, PowerType
      <4>2. s = None => power[d].running = power[d].asked
        BY <3>2, <3>5, <4>1 DEF PowerType
      <4>. QED
        BY <3>2, <3>5, <4>1, <4>2 DEF Stage
    <3>6. \A d \in r.affected : "power" \notin drift'[d] =>
            /\ s # None => Stage(s, d, power'[d])
            /\ s = None => power'[d].running = power'[d].asked /\ power'[d].autostart = power'[d].asked
      BY <1>1, <2>2, <3>3, <3>4, <3>5
    <3>7. \A d \in Containers : d \notin r.affected => power'[d] = power[d]
      BY <3>1, <3>3
    <3>. QED
      BY <2>1, <2>2, <3>2, <3>6, <3>7, PowerRepairs
  <2>. QED
    BY <1>3, <2>1, <2>2
<1>. QED
  BY <1>4, <1>5, <1>6, <1>7

(* Requests that switch nothing.                                           *)
LEMMA PowerPasses ==
  ASSUME PowerInv, NEW h \in Handlers,
         NEW r \in QuotaRequest \cup LimitRequest, NEW s \in QuotaRequest \cup LimitRequest \cup {None},
         Move(h, r, s), power' = power,
         \A c \in Containers : "power" \in drift[c] => "power" \in drift'[c]
  PROVE  PowerInv'
<1>1. request[h] = r /\ request'[h] = s /\ \A g \in Handlers \ {h} : request'[g] = request[g]
  BY DEF Move
<1>2. \A c : ~Switching(r, c) /\ ~Switching(s, c)
  BY SwitchKinds
<1>3. ASSUME NEW c \in Containers
      PROVE  PowerInvOf(drift'[c], power'[c], request', c)
  <2>1. PowerInvOf(drift[c], power[c], request, c)
    BY DEF PowerInv
  <2>2. PowerInvOf(drift'[c], power[c], request', c)
    BY <1>1, <1>2, <2>1, PowerFrame
  <2>. QED
    BY <2>2
<1>. QED
  BY <1>3, PowerNext

LEMMA PowerByQuotas ==
  ASSUME Typed, PowerInv, NEW h \in Handlers,
         \/ ReadTraffic(h) \/ SetTraffic(h) \/ ReadRow(h) \/ SetLimit(h) \/ PatchDisk(h)
         \/ SaveRow(h) \/ Undo(h) \/ UnpatchDisk(h) \/ Undone(h) \/ RestoreTraffic(h)
         \/ PatchLimit(h)
  PROVE  PowerInv'
<1>1. power' = power
  BY ReadTrafficDoes, SetTrafficDoes, ReadRowDoes, SetLimitDoes, PatchDiskDoes, SaveRowDoes, UndoDoes,
     UnpatchDiskDoes, UndoneDoes, RestoreTrafficDoes, PatchLimitDoes DEF Stores
<1>2. CASE ReadTraffic(h) \/ SetTraffic(h) \/ ReadRow(h) \/ Undone(h)
  <2>1. drift' = drift
    BY <1>2, ReadTrafficDoes, SetTrafficDoes, ReadRowDoes, UndoneDoes
  <2>2. \E r \in QuotaRequest, s \in QuotaRequest \cup {None} : Move(h, r, s)
    BY <1>2, ReadTrafficDoes, SetTrafficDoes, ReadRowDoes, UndoneDoes
  <2>. QED
    BY <1>1, <2>1, <2>2, PowerPasses
<1>3. CASE SetLimit(h) \/ PatchDisk(h)
  <2>1. PICK r, s \in QuotaRequest :
          Move(h, r, s) /\ ((\E aspects : Noted(r.on, aspects)) \/ drift' = drift)
    <3>1. CASE SetLimit(h)
      BY <3>1, SetLimitDoes
    <3>2. CASE PatchDisk(h)
      BY <3>2, PatchDiskDoes
    <3>. QED
      BY <1>3, <3>1, <3>2
  <2>2. \A c \in Containers : "power" \in drift[c] => "power" \in drift'[c]
    BY <2>1 DEF Noted
  <2>. QED
    BY <1>1, <2>1, <2>2, PowerPasses
<1>4. CASE SaveRow(h)
  <2>1. PICK r \in QuotaRequest, s \in QuotaRequest \cup {None} :
          /\ Move(h, r, s)
          /\ \A d \in Containers : d # r.on => drift'[d] = drift[d]
          /\ \A aspect \in drift[r.on] : aspect \in drift'[r.on] \/ aspect \in {"quota", "traffic"}
    BY <1>4, SaveRowDoes
  <2>2. \A c \in Containers : "power" \in drift[c] => "power" \in drift'[c]
    BY <2>1
  <2>. QED
    BY <1>1, <2>1, <2>2, PowerPasses
<1>5. CASE Undo(h) \/ UnpatchDisk(h)
  <2>1. PICK r, s \in QuotaRequest :
          Move(h, r, s) /\ ((\E aspects : Noted(r.on, aspects)) \/ drift' = drift)
    <3>1. CASE Undo(h)
      BY <3>1, UndoDoes
    <3>2. CASE UnpatchDisk(h)
      BY <3>2, UnpatchDiskDoes
    <3>. QED
      BY <1>5, <3>1, <3>2
  <2>2. \A c \in Containers : "power" \in drift[c] => "power" \in drift'[c]
    BY <2>1 DEF Noted
  <2>. QED
    BY <1>1, <2>1, <2>2, PowerPasses
<1>6. CASE RestoreTraffic(h)
  <2>1. PICK r \in QuotaRequest : Move(h, r, None) /\ (Noted(r.on, {"traffic"}) \/ drift' = drift)
    BY <1>6, RestoreTrafficDoes
  <2>2. \A c \in Containers : "power" \in drift[c] => "power" \in drift'[c]
    BY <2>1 DEF Noted
  <2>. QED
    BY <1>1, <2>1, <2>2, PowerPasses
<1>7. CASE PatchLimit(h)
  <2>1. PICK r \in LimitRequest :
          /\ Move(h, r, None)
          /\ \/ /\ \E map : drift'[r.on] = (drift[r.on] \ {"limit"}) \cup Stale(h, r.on, map)
                /\ \A d \in Containers : d # r.on => drift'[d] = drift[d]
             \/ drift' = drift
             \/ \E aspects : Noted(r.on, aspects)
    BY <1>7, PatchLimitDoes
  <2>2. \A c \in Containers : "power" \in drift[c] => "power" \in drift'[c]
    BY <2>1 DEF Noted
  <2>. QED
    BY <1>1, <2>1, <2>2, PowerPasses
<1>. QED
  BY <1>2, <1>3, <1>4, <1>5, <1>6, <1>7

(* A request that has met another is at the same stage.                    *)
LEMMA MetSwitches ==
  ASSUME NEW r \in Requests, r.req # "limit", NEW c
  PROVE  /\ Switching(Met(r), c) <=> Switching(r, c)
         /\ \A p : Switching(r, c) => (Stage(Met(r), c, p) <=> Stage(r, c, p))
<1>1. /\ Met(r) \in Requests /\ Met(r).req = r.req /\ Met(r).at = r.at /\ Reach(Met(r)) = Reach(r)
  BY MetIsSame
<1>2. Switching(Met(r), c) <=> Switching(r, c)
  BY <1>1, RequestKind DEF Switching
<1>3. /\ r.req = "power" => Met(r).action = r.action
      /\ r.req = "harden" => Met(r).wasRunning = r.wasRunning
      /\ r.req = "repair" => Met(r).todo = r.todo
  BY RequestKind DEF Met, PowerRequest, HardenRequest, RepairRequest
<1>. QED
  BY <1>1, <1>2, <1>3 DEF Stage

LEMMA PowerByArrivals ==
  ASSUME Typed, PowerInv, NEW h \in Handlers, Arrive(h)
  PROVE  PowerInv'
<1>1. PICK r \in Requests : Begin(h, r) /\ Fresh(r)
  BY ArriveDoes
<1>2. power' = power
  BY ArriveDoes DEF Stores
<1>3. TypeOK
  BY DEF Typed
<1>4. /\ request[h] = None
      /\ request'[h] = r \/ (r.req # "limit" /\ request'[h] = Met(r))
      /\ \A g \in Handlers \ {h} :
           \/ request'[g] = request[g]
           \/ /\ request[g] # None /\ request[g].req # "limit"
              /\ request'[g] = Met(request[g])
      /\ \A g \in Handlers \ {h} :
           request[g] # None /\ Meets(r, request[g]) =>
             /\ request'[h] = Met(r) /\ request'[g] = Met(request[g])
             /\ \A c \in Reach(r) \cap Reach(request[g]) : Touches(r) \subseteq drift'[c]
      /\ \A c \in Containers : drift[c] \subseteq drift'[c]
  BY <1>1, <1>3, Begins
<1>5. \A g \in Handlers : request[g] \in Requests \cup {None}
  BY <1>3 DEF TypeOK
<1>6. ASSUME NEW c \in Containers, NEW g \in Handlers \ {h}
      PROVE  /\ Switching(request'[g], c) <=> Switching(request[g], c)
             /\ Switching(request[g], c) =>
                  /\ request'[g] = request[g] \/ request'[g].met
                  /\ \A p : Stage(request[g], c, p) => Stage(request'[g], c, p)
  <2>1. CASE request'[g] = request[g]
    BY <2>1
  <2>2. CASE request[g] # None /\ request[g].req # "limit" /\ request'[g] = Met(request[g])
    BY <1>5, <2>2, MetSwitches, MetIsSame
  <2>. QED
    BY <1>4, <2>1, <2>2
<1>7. ASSUME NEW c \in Containers, Switching(request'[h], c)
      PROVE  /\ Switching(r, c) /\ r.req \in {"power", "harden", "repair"} /\ c \in Reach(r)
             /\ request'[h].at = r.at /\ request'[h].req = r.req
             /\ \A p : Stage(r, c, p) => Stage(request'[h], c, p)
             /\ \A g \in Handlers \ {h} : Switching(request[g], c) =>
                  "power" \in drift'[c] /\ request'[h].met /\ request'[g].met
  <2>1. /\ Switching(r, c) /\ request'[h].at = r.at /\ request'[h].req = r.req
        /\ \A p : Stage(r, c, p) => Stage(request'[h], c, p)
    BY <1>4, <1>7, MetSwitches, MetIsSame
  <2>2. r.req \in {"power", "harden", "repair"} /\ c \in Reach(r) /\ Touches(r) = {"power"}
    BY <2>1, Reached DEF Switching
  <2>3. ASSUME NEW g \in Handlers \ {h}, Switching(request[g], c)
        PROVE  "power" \in drift'[c] /\ request'[h].met /\ request'[g].met
    <3>1. /\ request[g] \in Requests /\ request[g] # None /\ request[g].req # "limit"
          /\ c \in Reach(request[g]) /\ Touches(request[g]) = {"power"}
      BY <1>5, <2>3, Reached DEF Switching
    <3>2. Meets(r, request[g])
      BY <2>2, <3>1 DEF Meets
    <3>3. request'[h] = Met(r) /\ request'[g] = Met(request[g]) /\ "power" \in drift'[c]
      BY <1>4, <2>2, <3>1, <3>2
    <3>. QED
      BY <2>2, <3>1, <3>3, MetIsSame
  <2>. QED
    BY <2>1, <2>2, <2>3
<1>8. ASSUME NEW c \in Containers, Switching(r, c), power[c].running = power[c].asked,
             power[c].autostart = power[c].asked
      PROVE  Stage(r, c, power[c])
  <2>1. power[c] \in PowerType
    BY <1>3 DEF TypeOK, PowerType
  <2>2. CASE r.req = "power"
    BY <1>1, <1>8, <2>2 DEF Stage, Fresh
  <2>3. CASE r.req = "harden"
    <3>1. r.on = c /\ r.wasRunning \in BOOLEAN
      BY <1>8, <2>3, RequestKind, SwitchKinds
    <3>2. r.wasRunning = power[c].running /\ r.at = IF r.wasRunning THEN "stop" ELSE "patch"
      BY <1>1, <2>3, <3>1 DEF Fresh
    <3>. QED
      BY <1>8, <2>1, <2>3, <3>1, <3>2 DEF Stage, PowerType
  <2>4. CASE r.req = "repair"
    <3>1. c \in Sharing /\ r.at = "regenerate"
      BY <1>1, <1>8, <2>4 DEF Fresh, Switching, Reach
    <3>2. power[c].running = TRUE
      BY <2>1, <3>1 DEF Sharing, PowerType
    <3>. QED
      BY <1>8, <2>1, <2>4, <3>1, <3>2 DEF Stage, PowerType
  <2>. QED
    BY <1>8, <2>2, <2>3, <2>4 DEF Switching
<1>9. ASSUME NEW c \in Containers
      PROVE  PowerInvOf(drift'[c], power[c], request', c)
  <2>1. PowerInvOf(drift[c], power[c], request, c)
    BY DEF PowerInv
  <2>2. ~Switching(request[h], c)
    BY <1>4, SwitchKinds
  <2>3. \A g, k \in Handlers :
          g # k /\ Switching(request'[g], c) /\ Switching(request'[k], c) =>
            "power" \in drift'[c] /\ request'[g].met
    <3>1. ASSUME NEW g \in Handlers \ {h}, NEW k \in Handlers \ {h}, g # k,
                 Switching(request'[g], c), Switching(request'[k], c)
          PROVE  "power" \in drift'[c] /\ request'[g].met
      <4>1. "power" \in drift[c] /\ request[g].met
        BY <1>6, <2>1, <3>1 DEF PowerInvOf
      <4>. QED
        BY <1>4, <1>6, <3>1, <4>1
    <3>2. ASSUME NEW g \in Handlers \ {h}, Switching(request'[g], c), Switching(request'[h], c)
          PROVE  "power" \in drift'[c] /\ request'[g].met /\ request'[h].met
      BY <1>6, <1>7, <3>2
    <3>. QED
      BY <3>1, <3>2
  <2>4. ASSUME NEW k \in Handlers, Switching(request'[k], c), ~request'[k].met,
               request'[k].req = "power", request'[k].at = "state"
        PROVE  power[c].autostart = (request'[k].action # "stop")
    <3>1. k # h
      BY <1>1, <1>7, <2>4 DEF Fresh
    <3>2. request'[k] = request[k] /\ Switching(request[k], c)
      BY <1>6, <2>4, <3>1
    <3>. QED
      BY <2>1, <2>4, <3>2 DEF PowerInvOf
  <2>5. ASSUME "power" \notin drift'[c]
        PROVE  /\ \A k \in Handlers : Switching(request'[k], c) => Stage(request'[k], c, power[c])
               /\ (\A k \in Handlers : ~Switching(request'[k], c)) =>
                    power[c].running = power[c].asked /\ power[c].autostart = power[c].asked
    <3>1. /\ \A k \in Handlers : Switching(request[k], c) => Stage(request[k], c, power[c])
          /\ (\A k \in Handlers : ~Switching(request[k], c)) =>
               power[c].running = power[c].asked /\ power[c].autostart = power[c].asked
      BY <1>4, <2>1, <2>5 DEF PowerInvOf
    <3>2. ASSUME NEW k \in Handlers \ {h}, Switching(request'[k], c)
          PROVE  Stage(request'[k], c, power[c])
      BY <1>6, <3>1, <3>2
    <3>3. ASSUME Switching(request'[h], c) PROVE Stage(request'[h], c, power[c])
      <4>1. \A k \in Handlers : ~Switching(request[k], c)
        BY <1>7, <2>2, <2>5, <3>3
      <4>. QED
        BY <1>7, <1>8, <3>1, <3>3, <4>1
    <3>4. (\A k \in Handlers : ~Switching(request'[k], c)) =>
            \A k \in Handlers : ~Switching(request[k], c)
      BY <1>6, <2>2
    <3>. QED
      BY <3>1, <3>2, <3>3, <3>4
  <2>. QED
    BY <2>3, <2>4, <2>5 DEF PowerInvOf
<1>. QED
  BY <1>2, <1>9, PowerNext

LEMMA PowerByCrash ==
  ASSUME Typed, PowerInv, NEW h \in Handlers, Crash(h)
  PROVE  PowerInv'
<1>1. PICK r \in Requests : Move(h, r, None) /\ NotedOn(Reach(r), Touches(r))
  BY CrashDoes
<1>2. power' = power
  BY CrashDoes
<1>3. \A c \in Containers : "power" \in drift[c] => "power" \in drift'[c]
  BY <1>1 DEF NotedOn
<1>4. CASE r \in QuotaRequest \cup LimitRequest
  BY <1>1, <1>2, <1>3, <1>4, PowerPasses
<1>5. CASE r \in HardenRequest \cup PowerRequest
  <2>1. Touches(r) = {"power"} /\ Reach(r) = {r.on} /\ r.on \in Containers
    BY <1>5, SwitchKinds, Reached DEF Reach
  <2>2. /\ "power" \in drift'[r.on]
        /\ \A d \in Containers : d # r.on => drift'[d] = drift[d]
    BY <1>1, <2>1 DEF NotedOn
  <2>. QED
    BY <1>1, <1>2, <1>5, <2>2, PowerMoves
<1>6. CASE r \in RepairRequest
  <2>1. Touches(r) = {"power"} /\ Reach(r) = r.affected /\ r.affected \subseteq Containers
    BY <1>6, SwitchKinds, Reached DEF Reach
  <2>2. /\ \A d \in r.affected : "power" \in drift'[d]
        /\ \A d \in Containers : d \notin r.affected => drift'[d] = drift[d]
    BY <1>1, <2>1 DEF NotedOn
  <2>. QED
    BY <1>1, <1>2, <1>3, <1>6, <2>2, PowerRepairs
<1>. QED
  BY <1>4, <1>5, <1>6, RequestKind

LEMMA PowerByGuests ==
  ASSUME Typed, PowerInv, NEW c \in Containers, GuestStops(c)
  PROVE  PowerInv'
<1>1. /\ request' = request /\ Noted(c, {"power"})
      /\ \A d \in Containers : /\ d # c => power'[d] = power[d]
                               /\ power'[d].autostart = power[d].autostart
  BY GuestStopsDoes
<1>2. ASSUME NEW d \in Containers
      PROVE  PowerInvOf(drift'[d], power'[d], request, d)
  <2>1. PowerInvOf(drift[d], power[d], request, d)
    BY DEF PowerInv
  <2>2. CASE d = c
    <3>1. "power" \in drift'[d]
      BY <1>1, <2>2 DEF Noted
    <3>2. \A g, k \in Handlers :
            g # k /\ Switching(request[g], d) /\ Switching(request[k], d) => request[g].met
      BY <2>1 DEF PowerInvOf
    <3>3. \A k \in Handlers :
            Switching(request[k], d) /\ ~request[k].met /\ request[k].req = "power"
              /\ request[k].at = "state" => power'[d].autostart = (request[k].action # "stop")
      BY <1>1, <2>1 DEF PowerInvOf
    <3>. QED
      BY <3>1, <3>2, <3>3 DEF PowerInvOf
  <2>3. CASE d # c
    BY <1>1, <2>1, <2>3 DEF Noted
  <2>. QED
    BY <2>2, <2>3
<1>. QED
  BY <1>1, <1>2, PowerNext

LEMMA PowerByReboot ==
  ASSUME Typed, PowerInv, Reboot
  PROVE  PowerInv'
<1>1. /\ \A h \in Handlers : request'[h] = None
      /\ \A c \in Containers : /\ power'[c].running = power[c].autostart
                               /\ power'[c].autostart = power[c].autostart
                               /\ power'[c].asked = power[c].asked
      /\ \A c \in Containers : "power" \in drift[c] => "power" \in drift'[c]
      /\ \A c \in Containers, h \in Handlers :
           request[h] # None /\ request[h].req = "power" /\ request[h].on = c => "power" \in drift'[c]
  BY RebootDoes DEF Aspects
<1>2. ASSUME NEW c \in Containers
      PROVE  PowerInvOf(drift'[c], power'[c], request', c)
  <2>1. PowerInvOf(drift[c], power[c], request, c)
    BY DEF PowerInv
  <2>2. \A h \in Handlers : ~Switching(request'[h], c)
    BY <1>1, SwitchKinds
  <2>3. ASSUME "power" \notin drift'[c] PROVE power[c].autostart = power[c].asked
    <3>1. CASE \A h \in Handlers : ~Switching(request[h], c)
      BY <1>1, <2>1, <2>3, <3>1 DEF PowerInvOf
    <3>2. ASSUME NEW h \in Handlers, Switching(request[h], c) PROVE power[c].autostart = power[c].asked
      <4>1. Stage(request[h], c, power[c])
        BY <1>1, <2>1, <2>3, <3>2 DEF PowerInvOf
      <4>2. request[h].req # "power"
        BY <1>1, <2>3, <3>2 DEF Switching, Reach
      <4>. QED
        BY <4>1, <4>2 DEF Stage
    <3>. QED
      BY <3>1, <3>2
  <2>. QED
    BY <1>1, <2>2, <2>3 DEF PowerInvOf
<1>. QED
  BY <1>2, PowerNext

LEMMA PowerStep == Typed /\ PowerInv /\ [Next]_vars => PowerInv'
<1>. SUFFICES ASSUME Typed, PowerInv, [Next]_vars PROVE PowerInv'
  OBVIOUS
<1>1. ASSUME NEW h \in Handlers, Arrive(h) PROVE PowerInv'
  BY <1>1, PowerByArrivals
<1>2. ASSUME NEW h \in Handlers, Continue(h) PROVE PowerInv'
  <2>1. CASE \/ ReadTraffic(h) \/ SetTraffic(h) \/ ReadRow(h) \/ SetLimit(h) \/ PatchDisk(h)
             \/ SaveRow(h) \/ Undo(h) \/ UnpatchDisk(h) \/ Undone(h) \/ RestoreTraffic(h)
             \/ PatchLimit(h)
    BY <2>1, PowerByQuotas
  <2>2. CASE HardenStop(h) \/ HardenPatch(h) \/ HardenStart(h)
    BY <2>2, PowerByHardening
  <2>3. CASE SetAutostart(h) \/ SetState(h)
    BY <2>3, PowerByRequests
  <2>4. CASE \/ DropLeases(h) \/ DhcpOff(h) \/ DhcpOn(h)
             \/ \E c \in Containers : Regenerate(h, c) \/ RepairStop(h, c) \/ RepairStart(h, c)
    BY <2>4, PowerByRepairs
  <2>. QED
    BY <1>2, <2>1, <2>2, <2>3, <2>4 DEF Continue
<1>3. ASSUME NEW h \in Handlers, Crash(h) PROVE PowerInv'
  BY <1>3, PowerByCrash
<1>4. ASSUME NEW c \in Containers, GuestStops(c) PROVE PowerInv'
  BY <1>4, PowerByGuests
<1>5. CASE Reboot
  BY <1>5, PowerByReboot
<1>6. CASE UNCHANGED vars
  <2>1. UNCHANGED <<power, request, drift>>
    BY <1>6 DEF vars
  <2>2. \A c \in Containers : PowerInvOf(drift[c], power[c], request, c)
    BY DEF PowerInv
  <2>. QED
    BY <2>1, <2>2, PowerNext
<1>. QED
  BY <1>1, <1>2, <1>3, <1>4, <1>5, <1>6 DEF Next

LEMMA PowerInit == Init => PowerInv
<1>. SUFFICES ASSUME Init PROVE PowerInv
  OBVIOUS
<1>1. /\ \A h \in Handlers : request[h] = None
      /\ \A c \in Containers : power[c].running /\ power[c].autostart /\ power[c].asked
      /\ \A c \in Containers : power[c] \in PowerType
  BY DEF Init, PowerType
<1>2. \A c \in Containers : power[c].running = power[c].asked /\ power[c].autostart = power[c].asked
  BY <1>1 DEF PowerType
<1>. QED
  BY <1>1, <1>2, SwitchKinds DEF PowerInv, PowerInvOf

(* A container runs, and comes back after a reboot, exactly if the last    *)
(* request that succeeded asked for it, wherever nothing has come apart    *)
(* and no request or repair is half-way: hardening and the repair of       *)
(* machine-ids start every container they stopped, and an undisturbed      *)
(* power request mends what others have left apart.                        *)
THEOREM PowerFollows == Spec => []PowerAsAsked
<1>1. Init => Typed /\ PowerInv
  BY InitTypes, PowerInit DEF Typed
<1>2. PowerInv => PowerAsAsked
  <2>. SUFFICES ASSUME PowerInv, NEW c \in Containers, "power" \notin drift[c],
                       ~AtWork({"power", "harden", "repair"}, c)
                PROVE  power[c].running = power[c].asked /\ power[c].autostart = power[c].asked
    BY DEF PowerAsAsked
  <2>1. \A h \in Handlers : ~Switching(request[h], c)
    BY DEF AtWork, Switching, Busy, Idle
  <2>. QED
    BY <2>1 DEF PowerInv, PowerInvOf
<1>. QED
  BY <1>1, <1>2, TypedStep, PowerStep, PTL DEF Spec

-----------------------------------------------------------------------------
(* The repair of machine-ids, and the bridge it restarts.                  *)

LEMMA RepairNext ==
  /\ \A g, h \in Handlers :
       g # h /\ Repairs(request'[g]) /\ Repairs(request'[h]) => request'[g].met
  /\ \A h \in Handlers : Repairs(request'[h]) => Repaired(request'[h], machine', bridge')
  => RepairInv'
BY DEF RepairInv, Repairs, Repaired

LEMMA RepairKinds ==
  /\ ~Repairs(None)
  /\ \A r \in RepairRequest : /\ Repairs(r) /\ r # None /\ r.req = "repair" /\ r \in Requests
                              /\ r.affected \subseteq Containers
  /\ \A r \in Requests : Repairs(r) => r \in RepairRequest
  /\ \A r \in QuotaRequest \cup LimitRequest \cup HardenRequest \cup PowerRequest : ~Repairs(r)
<1>1. \A r \in RepairRequest : r.req = "repair" /\ r \in Requests /\ r.affected \subseteq Containers
  BY DEF RepairRequest, Requests
<1>2. \A r \in QuotaRequest \cup LimitRequest \cup HardenRequest \cup PowerRequest : r.req # "repair"
  BY DEF QuotaRequest, LimitRequest, HardenRequest, PowerRequest
<1>. QED
  BY <1>1, <1>2, RequestKind DEF Repairs

LEMMA RepairPasses ==
  ASSUME RepairInv, NEW h \in Handlers, NEW r, NEW s, Move(h, r, s), ~Repairs(r), ~Repairs(s),
         UNCHANGED <<machine, bridge>>
  PROVE  RepairInv'
<1>1. \A g \in Handlers : Repairs(request'[g]) => Repairs(request[g]) /\ request'[g] = request[g]
  BY DEF Move
<1>2. \A g, k \in Handlers :
        g # k /\ Repairs(request'[g]) /\ Repairs(request'[k]) => request'[g].met
  BY <1>1 DEF RepairInv
<1>3. \A k \in Handlers : Repairs(request'[k]) => Repaired(request'[k], machine, bridge)
  BY <1>1 DEF RepairInv
<1>. QED
  BY <1>2, <1>3, RepairNext

(* A repair's own step: another one at work has met it, and relies on      *)
(* nothing but the machine-ids.                                            *)
LEMMA RepairMoves ==
  ASSUME RepairInv, NEW h \in Handlers, NEW r \in RepairRequest,
         NEW s \in RepairRequest \cup {None}, Move(h, r, s), s # None => s.met = r.met,
         \A r2 \in RepairRequest : \A c \in r2.affected :
           machine[c] = "own" => machine'[c] = "own",
         s # None => Repaired(s, machine', bridge'),
         TypeOK
  PROVE  RepairInv'
<1>1. request[h] = r /\ request'[h] = s /\ \A g \in Handlers \ {h} : request'[g] = request[g]
  BY DEF Move
<1>2. Repairs(request[h]) /\ (Repairs(request'[h]) => s # None)
  BY <1>1, RepairKinds
<1>3. \A g, k \in Handlers :
        g # k /\ Repairs(request'[g]) /\ Repairs(request'[k]) => request'[g].met
  BY <1>1, <1>2 DEF RepairInv
<1>4. ASSUME NEW k \in Handlers \ {h}, Repairs(request'[k])
      PROVE  Repaired(request'[k], machine', bridge')
  <2>1. request'[k] = request[k] /\ request[k].met /\ Repaired(request[k], machine, bridge)
    BY <1>1, <1>2, <1>4 DEF RepairInv
  <2>2. request[k] \in RepairRequest
    BY <1>4, <2>1, RepairKinds DEF TypeOK
  <2>. QED
    BY <2>1, <2>2 DEF Repaired
<1>5. Repairs(request'[h]) => Repaired(request'[h], machine', bridge')
  BY <1>1, <1>2
<1>. QED
  BY <1>3, <1>4, <1>5, RepairNext

LEMMA RepairBySteps ==
  ASSUME Typed, RepairInv, NEW h \in Handlers,
         \/ DropLeases(h) \/ DhcpOff(h) \/ DhcpOn(h)
         \/ \E c \in Containers : Regenerate(h, c) \/ RepairStop(h, c) \/ RepairStart(h, c)
  PROVE  RepairInv'
<1>1. TypeOK /\ \A r \in RepairRequest : r.affected \subseteq Containers /\ Repairs(r)
  BY RepairKinds DEF Typed
<1>2. ASSUME NEW r \in RepairRequest, request[h] = r
      PROVE  Repaired(r, machine, bridge) /\ ShapeOf(r) /\ r.req = "repair"
  BY <1>1, <1>2, RepairKinds DEF RepairInv, Typed, Shape
<1>3. CASE DropLeases(h) \/ DhcpOff(h) \/ DhcpOn(h)
  <2>1. machine' = machine
    BY <1>3, BridgeStepDoes
  <2>2. PICK r \in RepairRequest, s \in RepairRequest \cup {None} :
          /\ Move(h, r, s)
          /\ \/ /\ s # None /\ s.todo = r.todo /\ s.affected = r.affected /\ s.met = r.met
                /\ \/ /\ r.at = "leases" /\ s.at = "off"
                      /\ ~bridge'.stale
                   \/ /\ r.at = "off" /\ s.at = "on"
                      /\ bridge'.stale = bridge.stale
                   \/ /\ r.at = "on" /\ s.at = "start"
                      /\ bridge'.dhcp /\ bridge'.stale = bridge.stale
             \/ s = None
    BY <1>3, BridgeStepDoes
  <2>3. s # None => Repaired(s, machine, bridge') /\ s.met = r.met
    BY <1>2, <2>2 DEF Move, Repaired
  <2>. QED
    BY <1>1, <2>1, <2>2, <2>3, RepairMoves
<1>4. ASSUME NEW c \in Containers, Regenerate(h, c) PROVE RepairInv'
  <2>1. bridge' = bridge
    BY <1>4, RegenerateDoes
  <2>2. PICK r \in RepairRequest, s \in RepairRequest \cup {None} :
          /\ Move(h, r, s) /\ r.at = "regenerate"
          /\ \/ /\ Round(r, s, c, "stop") /\ c \in r.todo
                /\ machine'[c] = "own"
                /\ \A d \in Containers : d # c => machine'[d] = machine[d]
             \/ s = None /\ \A d \in Containers : machine'[d] \in {machine[d], "own"}
    BY <1>4, RegenerateDoes
  <2>3. \A d \in Containers : machine[d] = "own" => machine'[d] = "own"
    BY <2>2
  <2>4. ASSUME s # None PROVE Repaired(s, machine', bridge') /\ s.met = r.met
    <3>1. /\ s.affected = r.affected /\ s.met = r.met /\ machine'[c] = "own"
          /\ \/ s.at = "regenerate" /\ s.todo = r.todo \ {c}
             \/ s.at = "stop" /\ r.todo = {c}
      BY <2>2, <2>4 DEF Round
    <3>2. \A d \in r.affected : d \notin r.todo => machine[d] = "own"
      BY <1>2, <2>2 DEF Move, Repaired
    <3>3. \A d \in r.affected : d \notin r.todo \ {c} => machine'[d] = "own"
      BY <1>1, <2>3, <3>1, <3>2
    <3>. QED
      BY <3>1, <3>3 DEF Repaired
  <2>. QED
    BY <1>1, <2>2, <2>3, <2>4, RepairMoves
<1>5. ASSUME NEW c \in Containers, RepairStop(h, c) PROVE RepairInv'
  <2>1. UNCHANGED <<machine, bridge>>
    BY <1>5, RepairStopDoes
  <2>2. PICK r \in RepairRequest, s \in RepairRequest \cup {None} :
          Move(h, r, s) /\ r.at = "stop" /\ (Round(r, s, c, "leases") \/ s = None)
    BY <1>5, RepairStopDoes
  <2>3. ASSUME s # None PROVE Repaired(s, machine, bridge) /\ s.met = r.met
    <3>1. s.affected = r.affected /\ s.met = r.met /\ s.at \in {"stop", "leases"}
      BY <2>2, <2>3 DEF Round
    <3>. QED
      BY <1>2, <2>2, <3>1 DEF Move, Repaired
  <2>. QED
    BY <1>1, <2>1, <2>2, <2>3, RepairMoves
<1>6. ASSUME NEW c \in Containers, RepairStart(h, c) PROVE RepairInv'
  <2>1. UNCHANGED <<machine, bridge>>
    BY <1>6, RepairStartDoes
  <2>2. PICK r \in RepairRequest, s \in RepairRequest \cup {None} :
          Move(h, r, s) /\ r.at = "start" /\ (Round(r, s, c, None) \/ s = None)
    BY <1>6, RepairStartDoes
  <2>3. ASSUME s # None PROVE Repaired(s, machine, bridge) /\ s.met = r.met
    <3>1. s.affected = r.affected /\ s.met = r.met /\ s.at = "start"
      BY <2>2, <2>3 DEF Round
    <3>. QED
      BY <1>2, <2>2, <3>1 DEF Move, Repaired
  <2>. QED
    BY <1>1, <2>1, <2>2, <2>3, RepairMoves
<1>. QED
  BY <1>3, <1>4, <1>5, <1>6

LEMMA RepairByOthers ==
  ASSUME Typed, RepairInv, NEW h \in Handlers,
         \/ ReadTraffic(h) \/ SetTraffic(h) \/ ReadRow(h) \/ SetLimit(h) \/ PatchDisk(h)
         \/ SaveRow(h) \/ Undo(h) \/ UnpatchDisk(h) \/ Undone(h) \/ RestoreTraffic(h)
         \/ PatchLimit(h) \/ HardenStop(h) \/ HardenPatch(h) \/ HardenStart(h)
         \/ SetAutostart(h) \/ SetState(h)
  PROVE  RepairInv'
<1>1. UNCHANGED <<machine, bridge>>
  BY ReadTrafficDoes, SetTrafficDoes, ReadRowDoes, SetLimitDoes, PatchDiskDoes, SaveRowDoes, UndoDoes,
     UnpatchDiskDoes, UndoneDoes, RestoreTrafficDoes, PatchLimitDoes, HardenStopDoes,
     HardenPatchDoes, HardenStartDoes, SetAutostartDoes, SetStateDoes DEF Stores
<1>. DEFINE Rest == QuotaRequest \cup LimitRequest \cup HardenRequest \cup PowerRequest
<1>2. \E r \in Rest, s \in Rest \cup {None} : Move(h, r, s)
  <2>1. CASE \/ ReadTraffic(h) \/ SetTraffic(h) \/ ReadRow(h) \/ SetLimit(h) \/ PatchDisk(h)
             \/ SaveRow(h)
    BY <2>1, ReadTrafficDoes, SetTrafficDoes, ReadRowDoes, SetLimitDoes, PatchDiskDoes, SaveRowDoes
  <2>2. CASE \/ Undo(h) \/ UnpatchDisk(h) \/ Undone(h) \/ RestoreTraffic(h) \/ PatchLimit(h)
    BY <2>2, UndoDoes, UnpatchDiskDoes, UndoneDoes, RestoreTrafficDoes, PatchLimitDoes
  <2>3. CASE \/ HardenStop(h) \/ HardenPatch(h) \/ HardenStart(h) \/ SetAutostart(h) \/ SetState(h)
    BY <2>3, HardenStopDoes, HardenPatchDoes, HardenStartDoes, SetAutostartDoes, SetStateDoes
  <2>. QED
    BY <2>1, <2>2, <2>3
<1>3. \A r \in Rest \cup {None} : ~Repairs(r)
  BY RepairKinds
<1>. QED
  BY <1>1, <1>2, <1>3, RepairPasses

LEMMA RepairByArrivals ==
  ASSUME Typed, RepairInv, NEW h \in Handlers, Arrive(h)
  PROVE  RepairInv'
<1>1. PICK r \in Requests : Begin(h, r) /\ Fresh(r)
  BY ArriveDoes
<1>2. UNCHANGED <<machine, bridge>>
  BY ArriveDoes DEF Stores
<1>3. TypeOK
  BY DEF Typed
<1>4. /\ request[h] = None
      /\ request'[h] = r \/ (r.req # "limit" /\ request'[h] = Met(r))
      /\ \A g \in Handlers \ {h} :
           \/ request'[g] = request[g]
           \/ /\ request[g] # None /\ request[g].req # "limit"
              /\ request'[g] = Met(request[g])
      /\ \A g \in Handlers \ {h} :
           request[g] # None /\ Meets(r, request[g]) =>
             request'[h] = Met(r) /\ request'[g] = Met(request[g])
  BY <1>1, <1>3, Begins
<1>5. \A g \in Handlers : request[g] \in Requests \cup {None}
  BY <1>3 DEF TypeOK
<1>6. \A q \in Requests : q.req # "limit" =>
        /\ Repairs(Met(q)) <=> Repairs(q)
        /\ Repairs(q) => /\ Met(q).met /\ Met(q).at = q.at /\ Met(q).todo = q.todo
                         /\ Met(q).affected = q.affected
  <2>. SUFFICES ASSUME NEW q \in Requests, q.req # "limit"
                PROVE  /\ Repairs(Met(q)) <=> Repairs(q)
                       /\ Repairs(q) => /\ Met(q).met /\ Met(q).at = q.at /\ Met(q).todo = q.todo
                                        /\ Met(q).affected = q.affected
    OBVIOUS
  <2>1. Met(q) # None /\ q # None /\ Met(q).req = q.req /\ Met(q).met /\ Met(q).at = q.at
    BY MetIsSame, RequestKind
  <2>2. q \in RepairRequest => Met(q).todo = q.todo /\ Met(q).affected = q.affected
    BY DEF Met, RepairRequest
  <2>. QED
    BY <2>1, <2>2, RepairKinds DEF Repairs
<1>7. ASSUME NEW g \in Handlers \ {h}, Repairs(request'[g])
      PROVE  /\ Repairs(request[g])
             /\ request[g].met => request'[g].met
             /\ Repaired(request'[g], machine, bridge)
  <2>1. Repairs(request[g])
    BY <1>4, <1>5, <1>6, <1>7
  <2>2. Repaired(request[g], machine, bridge)
    BY <2>1 DEF RepairInv
  <2>3. CASE request'[g] = request[g]
    BY <2>1, <2>2, <2>3
  <2>4. CASE request[g] # None /\ request[g].req # "limit" /\ request'[g] = Met(request[g])
    BY <1>5, <1>6, <2>1, <2>2, <2>4 DEF Repaired
  <2>. QED
    BY <1>4, <2>3, <2>4
<1>8. ASSUME Repairs(request'[h])
      PROVE  /\ Repaired(request'[h], machine, bridge)
             /\ \A g \in Handlers \ {h} : Repairs(request[g]) => request'[h].met /\ request'[g].met
  <2>1. Repairs(r) /\ r.req = "repair" /\ r.req # "limit"
    BY <1>4, <1>6, <1>8 DEF Repairs
  <2>2. r.at = "regenerate" /\ r.todo = r.affected
    BY <1>1, <2>1 DEF Fresh
  <2>3. request'[h].at = "regenerate" /\ request'[h].todo = request'[h].affected
    BY <1>4, <1>6, <2>1, <2>2
  <2>4. Repaired(request'[h], machine, bridge)
    BY <2>3 DEF Repaired
  <2>5. ASSUME NEW g \in Handlers \ {h}, Repairs(request[g])
        PROVE  request'[h].met /\ request'[g].met
    <3>1. request[g] # None /\ request[g].req = "repair" /\ Meets(r, request[g])
      BY <2>1, <2>5 DEF Repairs, Meets
    <3>. QED
      BY <1>4, <1>5, <1>6, <2>1, <2>5, <3>1
  <2>. QED
    BY <2>4, <2>5
<1>9. \A g, k \in Handlers :
        g # k /\ Repairs(request'[g]) /\ Repairs(request'[k]) => request'[g].met
  <2>1. ASSUME NEW g \in Handlers \ {h}, NEW k \in Handlers \ {h}, g # k,
               Repairs(request'[g]), Repairs(request'[k])
        PROVE  request'[g].met
    BY <1>7, <2>1 DEF RepairInv
  <2>2. ASSUME NEW g \in Handlers \ {h}, Repairs(request'[g]), Repairs(request'[h])
        PROVE  request'[g].met /\ request'[h].met
    BY <1>7, <1>8, <2>2
  <2>. QED
    BY <2>1, <2>2
<1>10. \A k \in Handlers : Repairs(request'[k]) => Repaired(request'[k], machine', bridge')
  BY <1>2, <1>7, <1>8
<1>. QED
  BY <1>9, <1>10, RepairNext

LEMMA RepairProgress == Typed /\ RepairInv /\ [Next]_vars => RepairInv'
<1>. SUFFICES ASSUME Typed, RepairInv, [Next]_vars PROVE RepairInv'
  OBVIOUS
<1>1. ASSUME NEW h \in Handlers, Arrive(h) PROVE RepairInv'
  BY <1>1, RepairByArrivals
<1>2. ASSUME NEW h \in Handlers, Continue(h) PROVE RepairInv'
  <2>1. CASE \/ DropLeases(h) \/ DhcpOff(h) \/ DhcpOn(h)
             \/ \E c \in Containers : Regenerate(h, c) \/ RepairStop(h, c) \/ RepairStart(h, c)
    BY <2>1, RepairBySteps
  <2>2. CASE \/ ReadTraffic(h) \/ SetTraffic(h) \/ ReadRow(h) \/ SetLimit(h) \/ PatchDisk(h)
             \/ SaveRow(h) \/ Undo(h) \/ UnpatchDisk(h) \/ Undone(h) \/ RestoreTraffic(h)
             \/ PatchLimit(h) \/ HardenStop(h) \/ HardenPatch(h) \/ HardenStart(h)
             \/ SetAutostart(h) \/ SetState(h)
    BY <2>2, RepairByOthers
  <2>. QED
    BY <1>2, <2>1, <2>2 DEF Continue
<1>3. ASSUME NEW h \in Handlers, Crash(h) PROVE RepairInv'
  <2>1. PICK r \in Requests : Move(h, r, None)
    BY <1>3, CrashDoes
  <2>2. UNCHANGED <<machine, bridge>>
    BY <1>3, CrashDoes
  <2>3. CASE r \in RepairRequest
    BY <2>1, <2>2, <2>3, RepairMoves DEF Typed
  <2>4. CASE r \notin RepairRequest
    BY <2>1, <2>2, <2>4, RepairKinds, RepairPasses
  <2>. QED
    BY <2>3, <2>4
<1>4. ASSUME UNCHANGED <<request, machine, bridge>> PROVE RepairInv'
  BY <1>4, RepairNext DEF RepairInv
<1>5. ASSUME NEW c \in Containers, GuestStops(c) PROVE RepairInv'
  BY <1>4, <1>5, GuestStopsDoes
<1>6. CASE Reboot
  <2>1. \A h \in Handlers : ~Repairs(request'[h])
    BY <1>6, RebootDoes, RepairKinds
  <2>. QED
    BY <2>1, RepairNext
<1>7. CASE UNCHANGED vars
  BY <1>4, <1>7 DEF vars
<1>. QED
  BY <1>1, <1>2, <1>3, <1>5, <1>6, <1>7 DEF Next

LEMMA RepairInit == Init => RepairInv
BY RepairKinds DEF Init, RepairInv

(* Every request but a repair moves by a step of its own.                  *)
LEMMA RestMoves ==
  ASSUME Typed, NEW h \in Handlers,
         \/ ReadTraffic(h) \/ SetTraffic(h) \/ ReadRow(h) \/ SetLimit(h) \/ PatchDisk(h)
         \/ SaveRow(h) \/ Undo(h) \/ UnpatchDisk(h) \/ Undone(h) \/ RestoreTraffic(h)
         \/ PatchLimit(h) \/ HardenStop(h) \/ HardenPatch(h) \/ HardenStart(h)
         \/ SetAutostart(h) \/ SetState(h)
  PROVE  \E q \in Requests : q \notin RepairRequest /\ \E s : Move(h, q, s)
<1>1. \A q \in QuotaRequest \cup LimitRequest \cup HardenRequest \cup PowerRequest :
        q \in Requests /\ q \notin RepairRequest
  BY RepairKinds DEF Requests
<1>2. CASE \/ ReadTraffic(h) \/ SetTraffic(h) \/ ReadRow(h) \/ SetLimit(h) \/ PatchDisk(h)
           \/ SaveRow(h)
  BY <1>1, <1>2, ReadTrafficDoes, SetTrafficDoes, ReadRowDoes, SetLimitDoes, PatchDiskDoes, SaveRowDoes
<1>3. CASE \/ Undo(h) \/ UnpatchDisk(h) \/ Undone(h) \/ RestoreTraffic(h) \/ PatchLimit(h)
  BY <1>1, <1>3, UndoDoes, UnpatchDiskDoes, UndoneDoes, RestoreTrafficDoes, PatchLimitDoes
<1>4. CASE \/ HardenStop(h) \/ HardenPatch(h) \/ HardenStart(h) \/ SetAutostart(h) \/ SetState(h)
  BY <1>1, <1>4, HardenStopDoes, HardenPatchDoes, HardenStartDoes, SetAutostartDoes, SetStateDoes
<1>. QED
  BY <1>2, <1>3, <1>4

(* The step in which a repair that has come to its starts ends: the last   *)
(* container's start, or a reboot, which starts all of them.               *)
LEMMA RepairEnds ==
  ASSUME Typed, PowerInv, RepairInv, [Next]_vars, NEW h \in Handlers, NEW r \in RepairRequest,
         request[h] = r, r.at = "start", request'[h] = None, ~r.met,
         \A c \in r.affected : "power" \notin drift'[c]
  PROVE  /\ bridge' = bridge /\ machine' = machine
         /\ \A c \in r.affected : power'[c].running
<1>1. /\ r \in Requests /\ r # None /\ r.req = "repair" /\ r.affected \subseteq Containers
      /\ \A c \in r.affected : Switching(r, c)
  BY SwitchKinds
<1>2. ShapeOf(r) /\ r.todo # {} /\ r.todo \subseteq r.affected
  BY <1>1 DEF Typed, Shape, ShapeOf
<1>3. ASSUME NEW c \in r.affected, "power" \notin drift[c]
      PROVE  power[c].asked /\ power[c].autostart /\ (c \notin r.todo => power[c].running)
  <2>1. Stage(r, c, power[c]) /\ power[c] \in PowerType
    BY <1>1, <1>3, PowerBefore DEF Typed, TypeOK, PowerType
  <2>2. power[c].asked /\ power[c].autostart = power[c].asked /\ (c \notin r.todo => power[c].running)
    BY <1>1, <2>1 DEF Stage
  <2>. QED
    BY <2>1, <2>2 DEF PowerType
<1>4. ASSUME NEW g \in Handlers, NEW q, NEW s, Move(g, q, s) PROVE g = h /\ q = r /\ s = None
  BY <1>1, <1>4 DEF Move
<1>5. ~NotedOn(r.affected, {"power"})
  BY <1>1, <1>2 DEF NotedOn
<1>6. ASSUME NEW g \in Handlers, Arrive(g) PROVE FALSE
  <2>1. PICK q \in Requests : Begin(g, q)
    BY <1>6, ArriveDoes
  <2>2. /\ request[g] = None
        /\ g # h => request'[h] = request[h] \/ request'[h] = Met(request[h])
    BY <2>1, Begins DEF Typed
  <2>3. Met(r) # None
    BY <1>1, MetIsSame, RequestKind
  <2>. QED
    BY <1>1, <2>2, <2>3
<1>7. ASSUME NEW g \in Handlers, NEW c \in Containers, RepairStart(g, c)
      PROVE  /\ bridge' = bridge /\ machine' = machine
             /\ \A d \in r.affected : power'[d].running
  <2>1. /\ bridge' = bridge /\ machine' = machine
        /\ Round(r, None, c, None) /\ drift' = drift
        /\ \E p \in PowerType : p.running /\ Powered(c, p)
    <3>1. UNCHANGED <<machine, bridge>>
      BY <1>7, RepairStartDoes
    <3>2. \E q \in RepairRequest, s \in RepairRequest \cup {None} :
            /\ Move(g, q, s)
            /\ \/ /\ Round(q, s, c, None) /\ drift' = drift
                  /\ \E p \in PowerType : p.running /\ Powered(c, p)
               \/ NotedOn(q.affected, {"power"})
      BY <1>7, RepairStartDoes
    <3>. QED
      BY <1>4, <1>5, <3>1, <3>2
  <2>2. r.todo = {c}
    BY <2>1 DEF Round
  <2>. QED
    BY <1>1, <1>3, <2>1, <2>2 DEF Powered
<1>8. ASSUME NEW g \in Handlers, Continue(g) PROVE \E c \in Containers : RepairStart(g, c)
  <2>1. CASE \/ ReadTraffic(g) \/ SetTraffic(g) \/ ReadRow(g) \/ SetLimit(g) \/ PatchDisk(g)
             \/ SaveRow(g) \/ Undo(g) \/ UnpatchDisk(g) \/ Undone(g) \/ RestoreTraffic(g)
             \/ PatchLimit(g) \/ HardenStop(g) \/ HardenPatch(g) \/ HardenStart(g)
             \/ SetAutostart(g) \/ SetState(g)
    BY <1>4, <2>1, RestMoves
  <2>2. CASE DropLeases(g) \/ DhcpOff(g) \/ DhcpOn(g)
    <3>1. \E q, s : /\ Move(g, q, s)
                    /\ s # None \/ q.at \in {"leases", "off", "on"}
      BY <2>2, BridgeStepDoes
    <3>. QED
      BY <1>4, <3>1
  <2>3. ~\E c \in Containers : Regenerate(g, c)
    <3>. SUFFICES ASSUME NEW c \in Containers, Regenerate(g, c) PROVE FALSE
      OBVIOUS
    <3>1. \E q, s : Move(g, q, s) /\ q.at = "regenerate"
      BY RegenerateDoes
    <3>. QED
      BY <1>4, <3>1
  <2>4. ~\E c \in Containers : RepairStop(g, c)
    <3>. SUFFICES ASSUME NEW c \in Containers, RepairStop(g, c) PROVE FALSE
      OBVIOUS
    <3>1. \E q, s : Move(g, q, s) /\ q.at = "stop"
      BY RepairStopDoes
    <3>. QED
      BY <1>4, <3>1
  <2>. QED
    BY <1>8, <2>1, <2>2, <2>3, <2>4 DEF Continue
<1>9. ASSUME NEW g \in Handlers, Crash(g) PROVE FALSE
  <2>1. NotedOn(Reach(r), Touches(r))
    BY <1>4, <1>9, CrashDoes
  <2>2. Reach(r) = r.affected /\ Touches(r) = {"power"}
    BY <1>1 DEF Reach, Touches
  <2>. QED
    BY <1>5, <2>1, <2>2
<1>10. CASE Reboot
  <2>1. /\ bridge' = bridge /\ machine' = machine
        /\ \A c \in Containers : power'[c].running = power[c].autostart
        /\ \A c \in Containers : "power" \in drift[c] => "power" \in drift'[c]
    BY <1>10, RebootDoes DEF Aspects
  <2>2. ASSUME NEW c \in r.affected PROVE power'[c].running
    <3>1. c \in Containers /\ "power" \notin drift[c]
      BY <1>1, <2>1
    <3>2. power[c].autostart
      BY <1>3, <3>1
    <3>. QED
      BY <2>1, <3>1, <3>2
  <2>. QED
    BY <2>1, <2>2
<1>11. ASSUME request' = request PROVE FALSE
  BY <1>1, <1>11
<1>12. ASSUME NEW c \in Containers, GuestStops(c) PROVE FALSE
  BY <1>11, <1>12, GuestStopsDoes
<1>. QED
  BY <1>6, <1>7, <1>8, <1>9, <1>10, <1>11, <1>12 DEF Next, vars

(* A repair of machine-ids that met no other and lost no call ends with    *)
(* the bridge serving DHCPv6 again, no stale lease left to answer from,    *)
(* and every container it stopped running with an id of its own.           *)
THEOREM RepairsServe == Spec => RepairEndsServing
<1>1. Init => Typed /\ PowerInv /\ RepairInv
  BY InitTypes, PowerInit, RepairInit DEF Typed
<1>2. Typed /\ PowerInv /\ RepairInv /\ [Next]_vars =>
        [\A h \in Busy :
           LET r == request[h]
           IN (/\ r.req = "repair" /\ r.at = "start" /\ request'[h] = None /\ ~r.met
               /\ \A c \in r.affected : "power" \notin drift'[c]) =>
                 /\ bridge' = [dhcp |-> TRUE, stale |-> FALSE]
                 /\ \A c \in r.affected : machine'[c] = "own" /\ power'[c].running]_vars
  <2>. SUFFICES ASSUME Typed, PowerInv, RepairInv, [Next]_vars, NEW h \in Busy,
                       request[h].req = "repair", request[h].at = "start", request'[h] = None,
                       ~request[h].met, \A c \in request[h].affected : "power" \notin drift'[c]
                PROVE  /\ bridge' = [dhcp |-> TRUE, stale |-> FALSE]
                       /\ \A c \in request[h].affected : machine'[c] = "own" /\ power'[c].running
    OBVIOUS
  <2>1. PICK r \in RepairRequest : r = request[h]
    BY RepairKinds DEF Typed, TypeOK, Busy, Idle, Repairs
  <2>2. /\ bridge' = bridge /\ machine' = machine
        /\ \A c \in r.affected : power'[c].running
    BY <2>1, RepairEnds DEF Busy
  <2>3. Repaired(r, machine, bridge) /\ r.at = "start" /\ ~r.met
    BY <2>1, RepairKinds DEF RepairInv, Busy
  <2>4. bridge \in [dhcp : BOOLEAN, stale : BOOLEAN] /\ bridge.dhcp /\ ~bridge.stale
    BY <2>3 DEF Repaired, Typed, TypeOK
  <2>5. bridge = [dhcp |-> TRUE, stale |-> FALSE]
    BY <2>4
  <2>6. \A c \in r.affected : machine[c] = "own"
    BY <2>3 DEF Repaired
  <2>. QED
    BY <2>1, <2>2, <2>5, <2>6
<1>. QED
  BY <1>1, <1>2, TypedStep, PowerStep, RepairProgress, PTL DEF Spec, RepairEndsServing
=============================================================================
