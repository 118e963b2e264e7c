----------------------------- MODULE Instances -----------------------------
(***************************************************************************)
(* Instances: what happens to the containers of existing users besides     *)
(* being made and removed. Quota updates of the admin panel and of the CLI *)
(* (Manager.UpdateQuotasAndTraffic, UpdateQuotas), power requests          *)
(* (Manager.Power), the limiter's rate limit, and the repairs of           *)
(* `vps install` (HardenAll, EnsureBlockRoutes, EnsureUniqueMachineID),    *)
(* over the users table and the LXD API.                                   *)
(*                                                                         *)
(* No lock covers them: opMu is taken by Add, Del and Reinstall only. An   *)
(* instance's device map can only be replaced as a whole, so every change  *)
(* of a device is a read and a later write of all of them.                 *)
(***************************************************************************)
EXTENDS Units, Sequences, FiniteSets

CONSTANTS
  Handlers,    \* goroutines, CLI commands and the installer
  Containers,  \* one per user
  Options,     \* NIC options the installer ensures: isolation, and routes with IPv6
  Kinds,       \* requests that arise, out of RequestKinds
  FirstQuota,  \* every user's quotas at first
  Forms,       \* what operators ask for: of each quota a text, or nothing
  None,        \* no request, nothing given
  Faults       \* calls that may fail, out of FaultKinds

RequestKinds == {"panel", "cli", "limit", "harden", "repair", "power", "guest"}
(* "reply": a call to LXD is reported as failed - timed out, its answer    *)
(* lost - though it took effect, all of it or, of a restart, a part.       *)
FaultKinds == {"lxd", "reply", "db", "dns", "crash"}
Actions == {"start", "stop", "restart"}

ASSUME KindsAssumption == Kinds \subseteq RequestKinds /\ Faults \subseteq FaultKinds
ASSUME NothingAssumption == None \notin Int \cup {"stop", "leases"}
ASSUME FirstQuotaAssumption == FirstQuota \in [1..3 -> Nat \ {0}]
ASSUME FormsAssumption ==
  \A form \in Forms : form \in [{"cpu", "mem", "disk", "traffic"} -> Text \cup {None}]

(* The three quotas, in the order UpdateQuotas applies them.               *)
Cpu == 1
Mem == 2
Disk == 3
Resources == {Cpu, Mem, Disk}

VARIABLES
  row,       \* users: quota of each resource, and the monthly traffic quota
  config,    \* LXD configuration: CPU keys, memory limit
  device,    \* LXD device map: root size, NIC rate limit, NIC options
  power,     \* running or not, boot.autostart, and what was last asked for
  machine,   \* "baked": the machine-id of the old image; "own"
  bridge,    \* the bridge's DHCPv6 is on; its lease file has stale leases
  throttled, \* the limiter's memory: containers it has limited
  request,   \* per handler: the request it serves, at its next call
  drift      \* history: per container, what may have come apart

vars == <<row, config, device, power, machine, bridge, throttled, request, drift>>

Aspects == {"quota", "traffic", "limit", "options", "power"}
Quota == [Resources -> Int]
Map == [disk : Int, limit : BOOLEAN, options : SUBSET Options]

(* want: values to set, not positive for those to leave; before: the       *)
(* traffic quota to restore; old: the row as UpdateQuotas read it; done:   *)
(* the last resource set; met: another request came between.               *)
QuotaRequest == [req : {"quota"}, on : Containers, met : BOOLEAN, want : Quota, traffic : Nat,
                 at : {"start", "traffic", "read", "set", "patch", "save", "undo", "unpatch",
                       "restore"},
                 before : Nat \cup {None}, old : Quota \cup {None},
                 done : 0..3, map : Map \cup {None}]
LimitRequest == [req : {"limit"}, on : Containers, at : {"patch"}, map : Map]
HardenRequest == [req : {"harden"}, on : Containers, met : BOOLEAN, option : Options,
                  at : {"stop", "patch", "start"}, map : Map, wasRunning : BOOLEAN]
PowerRequest == [req : {"power"}, on : Containers, met : BOOLEAN, action : Actions,
                 at : {"autostart", "state"}]
RepairRequest == [req : {"repair"}, met : BOOLEAN,
                  at : {"regenerate", "stop", "leases", "off", "on", "start"},
                  affected : SUBSET Containers, todo : SUBSET Containers]
Requests == QuotaRequest \cup LimitRequest \cup HardenRequest \cup PowerRequest \cup RepairRequest

ASSUME RequestAssumption == None \notin Requests

TypeOK ==
  /\ row \in [Containers -> [quota : Quota, traffic : Nat]]
  /\ config \in [Containers -> [cpu : [cores : Int, slice : Int], mem : Int]]
  /\ device \in [Containers -> Map]
  /\ power \in [Containers -> [running : BOOLEAN, autostart : BOOLEAN, asked : BOOLEAN]]
  /\ machine \in [Containers -> {"baked", "own"}]
  /\ bridge \in [dhcp : BOOLEAN, stale : BOOLEAN]
  /\ throttled \subseteq Containers
  /\ request \in [Handlers -> Requests \cup {None}]
  /\ drift \in [Containers -> SUBSET Aspects]

(* A host set up by this version, or by an older one that an install       *)
(* upgrades.                                                               *)
Init ==
  /\ row = [c \in Containers |-> [quota |-> FirstQuota, traffic |-> 0]]
  /\ config = [c \in Containers |-> [cpu |-> CpuLimit(FirstQuota[Cpu]), mem |-> FirstQuota[Mem]]]
  /\ \E old \in {FALSE, Kinds \cap {"harden", "repair"} # {}} :
       /\ device = [c \in Containers |-> [disk |-> FirstQuota[Disk], limit |-> FALSE,
                                         options |-> IF old THEN {} ELSE Options]]
       /\ machine = [c \in Containers |-> IF old THEN "baked" ELSE "own"]
       /\ bridge = [dhcp |-> TRUE, stale |-> old]
  /\ power = [i \in Containers |-> [running |-> TRUE, autostart |-> TRUE, asked |-> TRUE]]
  /\ throttled = {}
  /\ request = [h \in Handlers |-> None]
  /\ drift = [i \in Containers |-> {}]

-----------------------------------------------------------------------------
(* Requests begin, move on and end.                                        *)

Idle(h) == request[h] = None
Busy == {h \in Handlers : ~Idle(h)}
Serves(h, req, at) == h \in Busy /\ request[h].req = req /\ request[h].at = at
Reach(r) == IF r.req = "repair" THEN r.affected ELSE {r.on}

(* What a request that dies half-way leaves apart.                         *)
Touches(r) == CASE r.req = "quota" -> {"quota", "traffic"}
                [] r.req = "limit" -> {}
                [] OTHER -> {"power"}
Meets(r, q) ==
  \/ Reach(r) \cap Reach(q) # {} /\ Touches(r) \cap Touches(q) # {}
  \/ r.req = "repair" /\ q.req = "repair"
Met(r) == [r EXCEPT !.met = TRUE]

(* Nothing keeps two requests apart: the history notes that they met, on a *)
(* container or, two repairs, at the bridge.                               *)
Begin(h, r) ==
  LET others == {g \in Busy : Meets(r, request[g])}
  IN /\ Idle(h)
     /\ request' = [g \in Handlers |->
                      IF g = h THEN IF others = {} THEN r ELSE Met(r)
                      ELSE IF g \in others THEN Met(request[g]) ELSE request[g]]
     /\ drift' = [c \in Containers |->
                    IF \E g \in others : c \in Reach(r) \cap Reach(request[g])
                    THEN drift[c] \cup Touches(r) ELSE drift[c]]

Proceed(h, r) == request' = [request EXCEPT ![h] = r]
Goto(h, step) == Proceed(h, [request[h] EXCEPT !.at = step]) /\ UNCHANGED drift
Finish(h) == Proceed(h, None) /\ UNCHANGED drift
Apart(cs, aspects) ==
  drift' = [c \in Containers |-> IF c \in cs THEN drift[c] \cup aspects ELSE drift[c]]
GiveUp(h) == Proceed(h, None) /\ Apart(Reach(request[h]), Touches(request[h]))
Together(h, c, aspects) ==
  drift' = [drift EXCEPT ![c] = IF request[h].met THEN @ ELSE @ \ aspects]

(* Between its read of a device map and its write of all of it, a request  *)
(* holds a copy that goes stale when another writes.                       *)
Holds(g, c) ==
  /\ g \in Busy
  /\ \/ request[g].at \in {"patch", "unpatch"}
     \/ request[g].req = "harden" /\ request[g].at = "stop"
  /\ request[g].on = c
Stale(h, c, map) ==
  LET copies == {request[g].map : g \in {g \in Handlers \ {h} : Holds(g, c)}}
  IN (IF \E m \in copies : m.disk # map.disk THEN {"quota"} ELSE {})
     \cup (IF \E m \in copies : m.limit # map.limit THEN {"limit"} ELSE {})
     \cup (IF \E m \in copies : m.options # map.options THEN {"options"} ELSE {})

-----------------------------------------------------------------------------
(* A quota request from the admin panel's form, which has every field, and *)
(* from the CLI, which fills the fields not given from a row it read       *)
(* before it asked, and goes on only with a change.                        *)
Given(text, Parse(_), now) == IF text = None THEN now ELSE Parse(text)

QuotaRequestOn(c, want, traffic) ==
  [req |-> "quota", on |-> c, met |-> FALSE, want |-> want, traffic |-> traffic, at |-> "start",
   before |-> None, old |-> None, done |-> 0, map |-> None]

AdminQuota(h, c) ==
  /\ "panel" \in Kinds /\ Idle(h)
  /\ \E form \in Forms :
       LET want == <<ParseCPU(form.cpu), ParseMem(form.mem), ParseDisk(form.disk)>>
           traffic == ParseTrafficGB(form.traffic)
       IN /\ None \notin {form.cpu, form.mem, form.disk, form.traffic}
          /\ Refused \notin {want[Cpu], want[Mem], want[Disk], traffic}
          /\ Begin(h, QuotaRequestOn(c, want, traffic))
  /\ UNCHANGED <<row, config, device, power, machine, bridge, throttled>>

CliQuota(h, c) ==
  /\ "cli" \in Kinds /\ Idle(h)
  /\ \E form \in Forms :
       LET now == row[c].quota
           want == <<Given(form.cpu, ParseCPU, now[Cpu]), Given(form.mem, ParseMemStrict, now[Mem]),
                     Given(form.disk, ParseDiskStrict, now[Disk])>>
           traffic == Given(form.traffic, ParseTrafficGB, row[c].traffic)
       IN /\ Refused \notin {want[Cpu], want[Mem], want[Disk], traffic}
          /\ want # now \/ form.traffic # None
          /\ want[Disk] >= now[Disk]
          /\ Begin(h, QuotaRequestOn(c, want, traffic))
  /\ UNCHANGED <<row, config, device, power, machine, bridge, throttled>>

(* UpdateQuotasAndTraffic reads the row it would restore, and writes the   *)
(* traffic quota.                                                          *)
ReadTraffic(h) ==
  /\ Serves(h, "quota", "start")
  /\ Proceed(h, [request[h] EXCEPT !.at = "traffic", !.before = row[request[h].on].traffic])
  /\ UNCHANGED <<row, config, device, power, machine, bridge, throttled, drift>>

SetTraffic(h) ==
  /\ Serves(h, "quota", "traffic")
  /\ LET r == request[h]
     IN \/ row' = [row EXCEPT ![r.on].traffic = r.traffic] /\ Goto(h, "read")
        \/ "db" \in Faults /\ Finish(h) /\ UNCHANGED row
  /\ UNCHANGED <<config, device, power, machine, bridge, throttled>>

(* UpdateQuotas reads the row again and refuses before it touches LXD.     *)
Accepts(want, now) ==
  /\ want[Cpu] > 0 => ValidCPU(want[Cpu])
  /\ want[Disk] > 0 => want[Disk] >= now[Disk]

(* Mutant: the disk's size is not compared.                                *)
ReadRowAnySize(h) ==
  /\ Serves(h, "quota", "read")
  /\ Proceed(h, [request[h] EXCEPT !.at = "set", !.old = row[request[h].on].quota])
  /\ UNCHANGED <<row, config, device, power, machine, bridge, throttled, drift>>

ReadRow(h) ==
  /\ Serves(h, "quota", "read")
  /\ LET r == request[h]
         now == row[r.on].quota
     IN Proceed(h, [r EXCEPT !.at = IF Accepts(r.want, now) THEN "set" ELSE "restore", !.old = now])
  /\ UNCHANGED <<row, config, device, power, machine, bridge, throttled, drift>>

Least(S) == CHOOSE k \in S : \A i \in S : k <= i
Greatest(S) == CHOOSE k \in S : \A i \in S : k >= i
ToSet(r) == {k \in Resources : k > r.done /\ r.want[k] > 0}
ToUndo(r) == {k \in Resources : k <= r.done /\ r.want[k] > 0}

(* SetCPU, SetMem.                                                         *)
PatchConfig(c, k, v) ==
  config' = [config EXCEPT ![c] = IF k = Cpu THEN [@ EXCEPT !.cpu = CpuLimit(v)]
                                  ELSE [@ EXCEPT !.mem = v]]

(* The roll back has an entry for a value only once its call succeeded.    *)
SetLimit(h) ==
  /\ Serves(h, "quota", "set") /\ ToSet(request[h]) # {}
  /\ LET r == request[h]
         k == Least(ToSet(r))
     IN \/ /\ k # Disk
           /\ PatchConfig(r.on, k, r.want[k])
           /\ Proceed(h, [r EXCEPT !.done = k])
           /\ UNCHANGED drift
        \/ /\ k = Disk
           /\ Proceed(h, [r EXCEPT !.at = "patch", !.map = device[r.on]])
           /\ UNCHANGED <<config, drift>>
        \/ "lxd" \in Faults /\ Goto(h, "undo") /\ UNCHANGED config
        \/ /\ "reply" \in Faults /\ k # Disk
           /\ PatchConfig(r.on, k, r.want[k])
           /\ Proceed(h, [r EXCEPT !.at = "undo"])
           /\ Apart({r.on}, {"quota"})
  /\ UNCHANGED <<row, device, power, machine, bridge, throttled>>

(* SetDisk's PATCH. A device it writes under a reader is noted.            *)
PatchDisk(h) ==
  /\ Serves(h, "quota", "patch")
  /\ LET r == request[h]
         map == [r.map EXCEPT !.disk = r.want[Disk]]
         stale == Stale(h, r.on, map)
     IN \/ /\ device' = [device EXCEPT ![r.on] = map]
           /\ Proceed(h, [r EXCEPT !.at = "set", !.done = Disk, !.map = None, !.met = @ \/ stale # {}])
           /\ Apart({r.on}, stale)
        \/ /\ "lxd" \in Faults
           /\ Proceed(h, [r EXCEPT !.at = "undo", !.map = None])
           /\ UNCHANGED <<device, drift>>
        \/ /\ "reply" \in Faults
           /\ device' = [device EXCEPT ![r.on] = map]
           /\ Proceed(h, [r EXCEPT !.at = "undo", !.map = None])
           /\ Apart({r.on}, stale \cup {"quota"})
  /\ UNCHANGED <<row, config, power, machine, bridge, throttled>>

(* The row is written last, every column of it.                            *)
Applied(r) == [k \in Resources |-> IF r.want[k] > 0 THEN r.want[k] ELSE r.old[k]]
SaveRow(h) ==
  /\ Serves(h, "quota", "set") /\ ToSet(request[h]) = {}
  /\ LET r == request[h]
     IN \/ /\ row' = [row EXCEPT ![r.on].quota = Applied(r)]
           /\ Proceed(h, None)
           /\ Together(h, r.on, IF \A k \in Resources : r.want[k] > 0 THEN Touches(r)
                                ELSE {"traffic"})
        \/ "db" \in Faults /\ Goto(h, "undo") /\ UNCHANGED row
  /\ UNCHANGED <<config, device, power, machine, bridge, throttled>>

(* Mutant: the roll back stops at the first value it restores.             *)
UndoOne(h) ==
  /\ Serves(h, "quota", "undo") /\ ToUndo(request[h]) # {}
  /\ LET r == request[h]
         k == Greatest(ToUndo(r))
     IN /\ k # Disk
        /\ PatchConfig(r.on, k, r.old[k])
        /\ Proceed(h, [r EXCEPT !.done = 0])
  /\ UNCHANGED <<row, device, power, machine, bridge, throttled, drift>>

(* Mutant: the roll back steps over every other value.                     *)
UndoOther(h) ==
  /\ Serves(h, "quota", "undo") /\ ToUndo(request[h]) # {}
  /\ LET r == request[h]
         k == Greatest(ToUndo(r))
     IN /\ k # Disk
        /\ PatchConfig(r.on, k, r.old[k])
        /\ Proceed(h, [r EXCEPT !.done = k - 2])
  /\ UNCHANGED <<row, device, power, machine, bridge, throttled, drift>>

(* The roll back goes on after an error of its own.                        *)
Undo(h) ==
  /\ Serves(h, "quota", "undo") /\ ToUndo(request[h]) # {}
  /\ LET r == request[h]
         k == Greatest(ToUndo(r))
     IN \/ /\ k # Disk
           /\ PatchConfig(r.on, k, r.old[k])
           /\ Proceed(h, [r EXCEPT !.done = k - 1])
           /\ UNCHANGED drift
        \/ /\ k = Disk
           /\ Proceed(h, [r EXCEPT !.at = "unpatch", !.map = device[r.on]])
           /\ UNCHANGED <<config, drift>>
        \/ /\ "lxd" \in Faults
           /\ Proceed(h, [r EXCEPT !.done = k - 1])
           /\ Apart({r.on}, {"quota"})
           /\ UNCHANGED config
        \/ /\ "reply" \in Faults /\ k # Disk
           /\ PatchConfig(r.on, k, r.old[k])
           /\ Proceed(h, [r EXCEPT !.done = k - 1])
           /\ Apart({r.on}, {"quota"})
  /\ UNCHANGED <<row, device, power, machine, bridge, throttled>>

UnpatchDisk(h) ==
  /\ Serves(h, "quota", "unpatch")
  /\ LET r == request[h]
         map == [r.map EXCEPT !.disk = r.old[Disk]]
         next == [r EXCEPT !.at = "undo", !.done = Disk - 1, !.map = None]
     IN /\ Proceed(h, next)
        /\ \/ /\ device' = [device EXCEPT ![r.on] = map]
              /\ Apart({r.on}, Stale(h, r.on, map))
           \/ "lxd" \in Faults /\ Apart({r.on}, {"quota"}) /\ UNCHANGED device
           \/ /\ "reply" \in Faults
              /\ device' = [device EXCEPT ![r.on] = map]
              /\ Apart({r.on}, Stale(h, r.on, map) \cup {"quota"})
  /\ UNCHANGED <<row, config, power, machine, bridge, throttled>>

Undone(h) ==
  /\ Serves(h, "quota", "undo") /\ ToUndo(request[h]) = {}
  /\ Goto(h, "restore")
  /\ UNCHANGED <<row, config, device, power, machine, bridge, throttled>>

(* Mutant: the traffic quota stays as the failed request left it.          *)
RestoreNothing(h) ==
  /\ Serves(h, "quota", "restore")
  /\ Finish(h)
  /\ UNCHANGED <<row, config, device, power, machine, bridge, throttled>>

RestoreTraffic(h) ==
  /\ Serves(h, "quota", "restore")
  /\ LET r == request[h]
     IN \/ row' = [row EXCEPT ![r.on].traffic = r.before] /\ Finish(h)
        \/ /\ "db" \in Faults
           /\ Proceed(h, None)
           /\ Apart({r.on}, {"traffic"})
           /\ UNCHANGED row
  /\ UNCHANGED <<config, device, power, machine, bridge, throttled>>

-----------------------------------------------------------------------------
(* The limiter: one pass at a time (limitMu). Usage crosses the quota      *)
(* either way; the memory changes only with the container.                 *)
Limit(h, c) ==
  /\ "limit" \in Kinds /\ Idle(h)
  /\ \A g \in Busy : request[g].req # "limit"
  /\ Begin(h, [req |-> "limit", on |-> c, at |-> "patch", map |-> device[c]])
  /\ UNCHANGED <<row, config, device, power, machine, bridge, throttled>>

(* Mutant: the memory is set before the call that may fail.                *)
PatchLimitFirst(h) ==
  /\ Serves(h, "limit", "patch")
  /\ LET c == request[h].on
         on == c \notin throttled
         map == [request[h].map EXCEPT !.limit = on]
     IN /\ throttled' = IF on THEN throttled \cup {c} ELSE throttled \ {c}
        /\ \/ device' = [device EXCEPT ![c] = map] /\ Apart({c}, Stale(h, c, map))
           \/ "lxd" \in Faults /\ UNCHANGED <<device, drift>>
  /\ Proceed(h, None)
  /\ UNCHANGED <<row, config, power, machine, bridge>>

PatchLimit(h) ==
  /\ Serves(h, "limit", "patch")
  /\ LET c == request[h].on
         on == c \notin throttled
         map == [request[h].map EXCEPT !.limit = on]
     IN \/ /\ device' = [device EXCEPT ![c] = map]
           /\ throttled' = IF on THEN throttled \cup {c} ELSE throttled \ {c}
           /\ drift' = [drift EXCEPT ![c] = (@ \ {"limit"}) \cup Stale(h, c, map)]
        \/ "lxd" \in Faults /\ UNCHANGED <<device, throttled, drift>>
        \/ /\ "reply" \in Faults
           /\ device' = [device EXCEPT ![c] = map]
           /\ Apart({c}, Stale(h, c, map) \cup {"limit"})
           /\ UNCHANGED throttled
  /\ Proceed(h, None)
  /\ UNCHANGED <<row, config, power, machine, bridge>>

-----------------------------------------------------------------------------
(* EnsureEth0Options, of one container in the passes of HardenAll and of   *)
(* EnsureBlockRoutes: a running container is stopped around the write.     *)
Harden(h, c, option) ==
  /\ "harden" \in Kinds /\ Idle(h)
  /\ option \notin device[c].options
  /\ Begin(h, [req |-> "harden", on |-> c, met |-> FALSE, option |-> option, map |-> device[c],
               wasRunning |-> power[c].running,
               at |-> IF power[c].running THEN "stop" ELSE "patch"])
  /\ UNCHANGED <<row, config, device, power, machine, bridge, throttled>>

HardenStop(h) ==
  /\ Serves(h, "harden", "stop")
  /\ LET c == request[h].on
         stopped == [power EXCEPT ![c].running = FALSE]
     IN \/ power[c].running /\ power' = stopped /\ Goto(h, "patch")
        \/ (~power[c].running \/ "lxd" \in Faults) /\ Finish(h) /\ UNCHANGED power
        \/ "reply" \in Faults /\ power' = stopped /\ GiveUp(h)
  /\ UNCHANGED <<row, config, device, machine, bridge, throttled>>

(* An error leaves a container it stopped where it is.                     *)
HardenPatch(h) ==
  /\ Serves(h, "harden", "patch")
  /\ LET r == request[h]
         map == [r.map EXCEPT !.options = @ \cup {r.option}]
     IN \/ /\ device' = [device EXCEPT ![r.on] = map]
           /\ Proceed(h, IF r.wasRunning THEN [r EXCEPT !.at = "start"] ELSE None)
           /\ Apart({r.on}, Stale(h, r.on, map))
        \/ /\ "lxd" \in Faults
           /\ IF r.wasRunning THEN GiveUp(h) ELSE Finish(h)
           /\ UNCHANGED device
        \/ /\ "reply" \in Faults
           /\ device' = [device EXCEPT ![r.on] = map]
           /\ Proceed(h, None)
           /\ Apart({r.on}, Stale(h, r.on, map) \cup IF r.wasRunning THEN {"power"} ELSE {})
  /\ UNCHANGED <<row, config, power, machine, bridge, throttled>>

(* Mutant: the container is left stopped.                                  *)
HardenNoStart(h) ==
  /\ Serves(h, "harden", "start")
  /\ Finish(h)
  /\ UNCHANGED <<row, config, device, power, machine, bridge, throttled>>

HardenStart(h) ==
  /\ Serves(h, "harden", "start")
  /\ LET c == request[h].on
         started == [power EXCEPT ![c].running = TRUE]
     IN \/ ~power[c].running /\ power' = started /\ Finish(h)
        \/ (power[c].running \/ "lxd" \in Faults) /\ GiveUp(h) /\ UNCHANGED power
        \/ "reply" \in Faults /\ GiveUp(h) /\ power' = started
  /\ UNCHANGED <<row, config, device, machine, bridge, throttled>>

-----------------------------------------------------------------------------
(* Manager.Power: boot.autostart first, then the state.                    *)
Power(h, c, action) ==
  /\ "power" \in Kinds /\ Idle(h)
  /\ Begin(h, [req |-> "power", on |-> c, met |-> FALSE, action |-> action, at |-> "autostart"])
  /\ UNCHANGED <<row, config, device, power, machine, bridge, throttled>>

SetAutostart(h) ==
  /\ Serves(h, "power", "autostart")
  /\ LET r == request[h]
         set == [power EXCEPT ![r.on].autostart = (r.action # "stop")]
     IN \/ power' = set /\ Goto(h, "state")
        \/ "lxd" \in Faults /\ Finish(h) /\ UNCHANGED power
        \/ "reply" \in Faults /\ GiveUp(h) /\ power' = set
  /\ UNCHANGED <<row, config, device, machine, bridge, throttled>>

(* Start, Stop, Restart: LXD refuses to start what runs and to stop or     *)
(* restart what does not.                                                  *)
SetState(h) ==
  /\ Serves(h, "power", "state")
  /\ LET r == request[h]
         on == r.action # "stop"
         asked == [power EXCEPT ![r.on].asked = on]
     IN \/ /\ power[r.on].running = (r.action # "start")
           /\ power' = [asked EXCEPT ![r.on].running = on]
           /\ Proceed(h, None)
           /\ Together(h, r.on, {"power"})
        \/ power[r.on].running = on /\ r.action # "restart" /\ Finish(h) /\ power' = asked
        \/ /\ "lxd" \in Faults \/ (r.action = "restart" /\ ~power[r.on].running)
           /\ GiveUp(h)
           /\ UNCHANGED power
        \/ /\ "reply" \in Faults
           /\ power[r.on].running = (r.action # "start")
           /\ \E running \in IF r.action = "restart" THEN BOOLEAN ELSE {on} :
                power' = [power EXCEPT ![r.on].running = running]
           /\ GiveUp(h)
  /\ UNCHANGED <<row, config, device, machine, bridge, throttled>>

-----------------------------------------------------------------------------
(* EnsureUniqueMachineID: the containers that answer and share an id.      *)
Sharing == {c \in Containers : machine[c] = "baked" /\ power[c].running}

Repair(h) ==
  /\ "repair" \in Kinds /\ Idle(h)
  /\ Cardinality(Sharing) > 1
  /\ Begin(h, [req |-> "repair", met |-> FALSE, at |-> "regenerate", affected |-> Sharing,
               todo |-> Sharing])
  /\ UNCHANGED <<row, config, device, power, machine, bridge, throttled>>

(* The next container of a loop; the last one leads on to the next step.   *)
Looped(h, c, step, next) ==
  /\ Serves(h, "repair", step) /\ c \in request[h].todo
  /\ Proceed(h, IF request[h].todo # {c} THEN [request[h] EXCEPT !.todo = @ \ {c}]
              ELSE IF next = None THEN None
              ELSE [request[h] EXCEPT !.at = next, !.todo = request[h].affected])

(* The first error ends the repair: before any stop nothing is lost.       *)
Regenerate(h, c) ==
  /\ \/ /\ Looped(h, c, "regenerate", "stop")
        /\ power[c].running
        /\ machine' = [machine EXCEPT ![c] = "own"]
        /\ UNCHANGED drift
     \/ /\ Serves(h, "repair", "regenerate") /\ c \in request[h].todo
        /\ \/ (~power[c].running \/ "lxd" \in Faults) /\ UNCHANGED machine
           \/ "reply" \in Faults /\ machine' = [machine EXCEPT ![c] = "own"]
        /\ Finish(h)
  /\ UNCHANGED <<row, config, device, power, bridge, throttled>>

RepairStop(h, c) ==
  /\ \/ /\ Looped(h, c, "stop", "leases")
        /\ power[c].running
        /\ power' = [power EXCEPT ![c].running = FALSE]
        /\ UNCHANGED drift
     \/ /\ Serves(h, "repair", "stop") /\ c \in request[h].todo
        /\ \/ (~power[c].running \/ "lxd" \in Faults) /\ UNCHANGED power
           \/ "reply" \in Faults /\ power' = [power EXCEPT ![c].running = FALSE]
        /\ GiveUp(h)
  /\ UNCHANGED <<row, config, device, machine, bridge, throttled>>

(* dropDHCPv6Leases, then restartBridgeDNS in two calls.                   *)
BridgeStep(h, step, next, b) ==
  /\ Serves(h, "repair", step)
  /\ \/ bridge' = b /\ Goto(h, next)
     \/ "dns" \in Faults /\ GiveUp(h) /\ bridge' \in {bridge, b}
  /\ UNCHANGED <<row, config, device, power, machine, throttled>>

DropLeases(h) == BridgeStep(h, "leases", "off", [bridge EXCEPT !.stale = FALSE])
DhcpOff(h) == BridgeStep(h, "off", "on", [bridge EXCEPT !.dhcp = FALSE])
DhcpOn(h) == BridgeStep(h, "on", "start", [bridge EXCEPT !.dhcp = TRUE])

(* Mutant: the first container's start ends the loop.                      *)
RepairStartOne(h, c) ==
  /\ Serves(h, "repair", "start") /\ c \in request[h].todo
  /\ power' = [power EXCEPT ![c].running = TRUE]
  /\ Finish(h)
  /\ UNCHANGED <<row, config, device, machine, bridge, throttled>>

RepairStart(h, c) ==
  /\ \/ /\ Looped(h, c, "start", None)
        /\ ~power[c].running
        /\ power' = [power EXCEPT ![c].running = TRUE]
        /\ UNCHANGED drift
     \/ /\ Serves(h, "repair", "start") /\ c \in request[h].todo
        /\ \/ (power[c].running \/ "lxd" \in Faults) /\ UNCHANGED power
           \/ "reply" \in Faults /\ power' = [power EXCEPT ![c].running = TRUE]
        /\ GiveUp(h)
  /\ UNCHANGED <<row, config, device, machine, bridge, throttled>>

-----------------------------------------------------------------------------
(* The user shuts the container down from inside; so ends, later than it   *)
(* was reported, a stop that timed out.                                    *)
GuestStops(c) ==
  /\ "guest" \in Kinds
  /\ power[c].running
  /\ power' = [power EXCEPT ![c].running = FALSE]
  /\ Apart({c}, {"power"})
  /\ UNCHANGED <<row, config, device, machine, bridge, throttled, request>>

(* A process dies between two calls of a request; the panel's limiter      *)
(* reads the limits back from the containers.                              *)
Crash(h) ==
  /\ "crash" \in Faults /\ h \in Busy
  /\ throttled' = IF request[h].req = "limit" THEN {c \in Containers : device[c].limit}
                  ELSE throttled
  /\ GiveUp(h)
  /\ UNCHANGED <<row, config, device, power, machine, bridge>>

(* The host restarts: LXD starts what boot.autostart says. A container     *)
(* that a repair had stopped comes back.                                   *)
Reboot ==
  /\ "crash" \in Faults
  /\ power' = [c \in Containers |-> [power[c] EXCEPT !.running = power[c].autostart]]
  /\ throttled' = {c \in Containers : device[c].limit}
  /\ request' = [h \in Handlers |-> None]
  /\ drift' = [c \in Containers |->
                 (drift[c] \ {"limit"})
                 \cup UNION {Touches(request[h]) : h \in
                               {g \in Busy : /\ request[g].req \in {"quota", "power"}
                                             /\ request[g].on = c}}]
  /\ UNCHANGED <<row, config, device, machine, bridge>>

Arrive(h) ==
  \/ Repair(h)
  \/ \E c \in Containers :
       \/ AdminQuota(h, c) \/ CliQuota(h, c) \/ Limit(h, c)
       \/ \E option \in Options : Harden(h, c, option)
       \/ \E action \in Actions : Power(h, c, action)

Continue(h) ==
  \/ ReadTraffic(h) \/ SetTraffic(h) \/ ReadRow(h) \/ SetLimit(h) \/ PatchDisk(h) \/ SaveRow(h)
  \/ Undo(h) \/ UnpatchDisk(h) \/ Undone(h) \/ RestoreTraffic(h)
  \/ PatchLimit(h) \/ HardenStop(h) \/ HardenPatch(h) \/ HardenStart(h)
  \/ SetAutostart(h) \/ SetState(h)
  \/ DropLeases(h) \/ DhcpOff(h) \/ DhcpOn(h)
  \/ \E c \in Containers : Regenerate(h, c) \/ RepairStop(h, c) \/ RepairStart(h, c)

Next ==
  \/ \E h \in Handlers : Arrive(h) \/ Continue(h) \/ Crash(h)
  \/ \E c \in Containers : GuestStops(c)
  \/ Reboot

Spec == Init /\ [][Next]_vars

-----------------------------------------------------------------------------
AtWork(kinds, c) == \E h \in Busy : request[h].req \in kinds /\ c \in Reach(request[h])

(* "the live config and the database cannot disagree" (mgr.go:665-668):    *)
(* with no quota request at work on a container, LXD enforces what the row *)
(* says, whichever call of a request failed -- unless LXD had applied the  *)
(* call, a roll back failed or a process died, two quota requests met, or  *)
(* a stale device map was written back, and no undisturbed request has set *)
(* every quota since.                                                      *)
QuotasFollowRow ==
  \A c \in Containers :
    ("quota" \notin drift[c] /\ ~AtWork({"quota"}, c)) =>
      /\ config[c] = [cpu |-> CpuLimit(row[c].quota[Cpu]), mem |-> row[c].quota[Mem]]
      /\ device[c].disk = row[c].quota[Disk]

(* "cannot succeed halfway" (mgr.go:730-734): when a quota request ends,   *)
(* the row holds everything it asked for or everything it held before --   *)
(* unless its restoring write failed, its process died, or it met another. *)
AllOrNothing ==
  [][\A h \in Busy :
       LET r == request[h]
       IN (r.req = "quota" /\ request'[h] = None /\ ~r.met /\ "traffic" \notin drift'[r.on]) =>
            \/ row'[r.on] = [quota |-> Applied(r), traffic |-> r.traffic]
            \/ /\ row'[r.on].quota = row[r.on].quota
               /\ r.before # None => row'[r.on].traffic = r.before]_vars

(* "disk can only grow" (mgr.go:681-683): the row's disk is never smaller  *)
(* than it was, but by a request that met another on the same row.         *)
DiskOnlyGrows ==
  [][\A c \in Containers :
       row'[c].quota[Disk] < row[c].quota[Disk] =>
         \E h \in Busy : request[h].req = "quota" /\ request[h].on = c /\ request[h].met]_vars

(* The limiter's memory says what the container's NIC carries (traffic.go: *)
(* 102-106): no other writer of the device map loses or brings back the    *)
(* limit, unless it held a copy from before the limiter's write; and the   *)
(* limiter's own call, if it fails, was not applied.                       *)
LimitKept ==
  \A c \in Containers : "limit" \notin drift[c] => (device[c].limit <=> c \in throttled)

(* "boot.autostart mirrors the desired state" (mgr.go:756-759) and the     *)
(* repairs preserve it (lx.go:452-456, machineid.go:20-23): with no power  *)
(* request or repair at work, a container runs, and comes back after a     *)
(* reboot, exactly if the last request that succeeded asked for it --      *)
(* unless such requests met, failed half-way, or the guest shut down, and  *)
(* no undisturbed request has succeeded since.                             *)
PowerAsAsked ==
  \A c \in Containers :
    ("power" \notin drift[c] /\ ~AtWork({"power", "harden", "repair"}, c)) =>
      /\ power[c].running = power[c].asked
      /\ power[c].autostart = power[c].asked

(* The bridge serves DHCPv6 again once a repair ends, no stale lease is    *)
(* left to the containers it restarts, and all of them run, with ids of    *)
(* their own (machineid.go:16-23) -- unless a call failed, the repair met  *)
(* another one, or another request on one of them, or a guest shut down.   *)
RepairEndsServing ==
  [][\A h \in Busy :
       LET r == request[h]
       IN (/\ r.req = "repair" /\ r.at = "start" /\ request'[h] = None /\ ~r.met
           /\ \A c \in r.affected : "power" \notin drift'[c]) =>
             /\ bridge' = [dhcp |-> TRUE, stale |-> FALSE]
             /\ \A c \in r.affected : machine'[c] = "own" /\ power'[c].running]_vars
=============================================================================
