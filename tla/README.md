# vpsmgr: specification and verification

vpsmgr (`src/src`, Go) sells small LXD containers: one Linux user per
container, an admin panel, a user panel and a `vps` command, all over one
SQLite database, one LXD daemon and a handful of generated host files. This
directory holds TLA+ models of the parts of it that keep several stores in
step, the TLC runs that check them on small instances, and TLAPS proofs of the
properties that matter most.

There is no transaction that spans the stores. The database, LXD, nftables,
ndppd and traefik are written one call after the other, by the panel process
(many goroutines, one `Manager`) and by any number of short `vps` processes.
The interesting questions are therefore all of one form: *which call of which
other request, which failure, or which crash can come between these two calls,
and what do the stores look like then?*

    tlc -config Lifecycle_panel.cfg MCLifecycle      # a run
    tlapm Lifecycle_proofs.tla                       # a proof

## 1. The system

Paths in this section are relative to `src/src`.

| Component | State it keeps | Operations | Talks to |
|---|---|---|---|
| User life cycle, `internal/mgr/mgr.go` `Add` / `Del` / `Reinstall` | `users` table, LXD instances, `user-<name>.nft`, the loaded nft table, `ndppd.conf` | create with roll back, delete, recreate | db, lx, fw, ndppd |
| Traffic accounting, `mgr/traffic.go`, `db/traffic.go`, `lx.Snapshot` | `traffic` table (month, totals, baselines) | sample; upsert with reset and rollover | lx, db |
| Traffic limits, `mgr/traffic.go` `EnforceTrafficLimits` | in-memory throttle marks, NIC limits in LXD | prime, throttle, release | lx, db |
| Domains, `mgr.go` `AddDomain` ... `SyncAllDomains`, `db/domain.go`, `tfx/` | `domains` table, one YAML per domain | bind, unbind, set PROXY, sync, user deletion | db, traefik's directory |
| Quotas, power, hardening, `mgr.go` `UpdateQuotas`, `UpdateQuotasAndTraffic`, `Power`, `HardenAll` | quota columns, LXD limits, device map, autostart | live update with roll back, start and stop, stop-patch-start | db, lx |
| Machine-id repair, `mgr/machineid.go` | machine-ids, DHCPv6 leases of the bridge | stop, drop leases, restart DHCP, start | lx, host |
| IPv4 policy, `ApplyV4State` and `V4ForwardLive` | `net.v4_forward` in the file and in each process | switch all rules and traefik on or off | cfg, fw, tfx |
| Addresses, `mgr/ipv6.go`, `cfg.go`, `mgr.go` | none (pure) | index to IPv4, ports, /112 block | |
| Panel sessions and passwords, `panel/`, `db/session.go`, `admin/sessions.go` | session tables, password hashes | log in, change password, expire | db |
| Login limiter, `panel/panel.go`, `admin/admin.go` | attempts per client address, in memory | count, prune at a cap | |
| Audit log, `db/audit.go` | `audit` table | insert, prune at a cap | db |
| Flash messages, CSRF | in-memory map; none | take once; MAC | |
| Configuration and snapshot, `cfg/`, `ver/`, `main.go` | YAML file, immutable snapshot, host wiring | load, save, adopt, set a key, verify, wire again at boot | db, host |
| Schema and migrations, `db/db.go` | schema version | migrate at start | |
| Host set-up, `routed_ipv6.go`, scripts | sysctl, ndppd, netplan | install | |

Two locks matter: `opMu` serialises Add, Del and Reinstall **of one process**,
`sampleMu` serialises samples **of one process**. Nothing serialises the panel
with a `vps` command except SQLite's per-statement atomicity and the UNIQUE
columns of the schema.

What is hard about it, component by component:

- *Life cycle.* Minutes pass between the checks of `Add` and its INSERT; every
  call after `Launch` can fail and the roll back's own errors are dropped; a
  crash leaves instances the table does not know; a time-out reports a failure
  LXD may have completed. Correct means: an address, a port, a /112 or a rule
  is never in the hands of two users, and a user whose creation was reported
  keeps what it was given.
- *Traffic.* Counters are read long before the statement that uses them, and
  reset when a container restarts. Correct means: no byte is counted twice,
  the month never goes back, and failures are made up for.
- *Domains.* No lock at all; a table row and a file that are written one after
  the other, with a roll back that may itself fail, and a repair command that
  runs beside everything else. Correct means: the file agrees with the row.
- *Limits, quotas, power.* Read-modify-write of one device map by four kinds of
  request without a lock, caches primed once per process, roll backs to values
  that were read before somebody else wrote, repairs that stop containers and
  may fail before they start them again. Correct means: LXD enforces what the
  row says, and a container runs if it was last asked to.
- *Sessions.* A password is compared with a hash read earlier, a user looked up
  again by name, sessions closed in a later statement. Correct means: no
  session outlives its account, nor a change of password.
- *Configuration.* Commands of several processes read and rewrite one file,
  without a lock and not atomically, and go on to the database and the host.
  Correct means: data of an unknown release are never adopted by an install or
  a panel, the host is generated as its snapshot says, the administrator's password survives.
- *Bounded stores.* Correct means: a bound that is reached removes the right
  entries, also when several writers reach it at once.

`PROJECT.json` lists the hazards at their lines, with the properties that
cover them.

## 2. Plan

All modules of the plan are written:

| Module | Models | Abstract statement | Theorems |
|---|---|---|---|
| Lifecycle | Add, Del, Reinstall over four stores | | types, addresses, rule files, loaded rules, blocks, created users; rolled-back creations across processes |
| Traffic | sampling and the upsert | a ledger that moves carried bytes into totals once (`Ledger`) | types, no double count, months |
| Domains | table and files | `Ownership`, refined by every step | types and constraints, the refinement, the files |
| Throttle | the limiter and its map | | types, the map tells the truth |
| Instances, Units | quotas, power, hardening, machine-id repair | | types and all its properties |
| Sessions | log in, change of password, both stores | | types and all its properties |
| Stores | login limiter, audit log | | types and all its properties |
| Config | file, snapshot, policy, admin password, migration | | types and all its properties |
| Addresses | what an index, a port and a name stand for | | distinct and disjoint, for every index and hash |

The modules do not share variables: each takes from the others what it needs as
a level or a constant (Throttle the month's total, Lifecycle the policy and the
blocks, whose distinctness Addresses proves). Instances extends Units, Domains
instantiates Ownership.

Every safety property of a passing run is also a theorem; what is left to TLC
is liveness (6). Next: creations beside deletions of other processes, for which
only the case of creations alone has a theorem (`CreatorsSettle`); the other
keys of the registry, if one gets a cross-process effect.

Bounds: two or three names, two indices, one or two processes; the smallest
instance on which two actors can collide on one object and a third can be
affected. Proofs lift the bounds where an inductive invariant exists.

## 3. The modules

### Lifecycle (`internal/mgr/mgr.go`, `lx/`, `fw/`, `mgr/ipv6.go`)

| Variable | In the code |
|---|---|
| `users` | rows of `users`: id, name, idx, SSH port |
| `containers` | LXD instances with their static `ipv4.address` |
| `files`, `kernel` | `user-<name>.nft` and the ruleset loaded by `fw.Reload` |
| `ndp` | rules in the generated part of `ndppd.conf` |
| `ops` | requests in progress, at the next call they make |
| `opMu` | processes whose `Manager.opMu` is held |
| `served` | history: names whose Add has returned a result |

Each call to a store is an action (`AddLaunch`, `AddProvision`, ...,
`DelReload`, `ReinstallWire`), with the failures it can have and what they may
leave behind; `Undo*` are the calls of Add's `cleanup` closure. `Crash` stops a
request at any of them.

Abstractions: the deployment is one with IPv6 enabled. An address is identified
with the index it encodes (`ContainerIP` is injective: `AddressPerIndex` in Lifecycle_proofs), and
the start of the port range likewise. `AUTOINCREMENT` is "a fresh id". The database
reads at the head of `Add` are one step: the later `checkLXDConflict` and the
UNIQUE columns decide whatever changes between them; the fault `gateway` is the
failed look-up of the prefix or the gateway after which Add skips the check of
the gateway's block. A failed launch leaves an instance or none, a failed delete
removes it or not, and so it stays. `writeNDPPD`, which renders the file from
the table, is one step. Refusals that leave no trace
(bad name, pool full, user not found) are not steps.

### Traffic (`internal/mgr/traffic.go`, `lx/lx.go`, `db/traffic.go`)

`counter` is one column of the container's NIC counters (received and sent
bytes go through the same formula), `row` the traffic table, `sample[s]` what
a sample in progress has read: the list call, one state call per container,
the list of users with the month, one statement per user. `carried` and
`closed` are histories: what the container of the user really carried, and the
totals of the months that are over. Containers carry bytes, stop, start, are
reinstalled and deleted between any two calls.

A user who is deleted and created again is a new account with a new id: a
sample that had already listed the old id fails on the foreign key, so it
simply loses that user. A process that dies in the middle of a sample does
what a sample whose remaining calls fail does. `ReadFails` for a container
that was deleted after the list is the code's "Running, zero bytes" result.

### Domains (`internal/mgr/mgr.go`, `db/domain.go`, `tfx/tfx.go`)

`rows` is the table, `yaml` and `tmp` the files of traefik's directory and the
temporary file both writers of a domain share. A handler is at one call of one
request (`add`, `del`, `set`, `purge` = the domain part of `Manager.Del`,
`sync` = `SyncAllDomains`). The admin's and the CLI's variants call the same
Manager operations.

`Manager.Del` drops the error of `ListDomains` (it then knows some of the
domains, or none) and returns that of `DeleteSessionsForUser` before it has
removed a file; both are faults (`list`, `sessions`).

The history `drift` names the domains for which the code promises nothing any
more: two requests met on them, a process died while working on them, a roll
back failed, or a deletion of their user did not list them, failed to close the
sessions or to remove the file. A `SyncAllDomains` that met no one and returned no error
empties it. Everything else must agree. A rename fails only because the other
writer took the temporary file; any other failure of it has the effect of a
failed write. The lookups before the INSERT are part of it (the foreign key and
the UNIQUE column refuse what they would have). An account id is used again
only when no request remembers it, which stands for a new id. The refusal of
AddDomain while forwarding is off leaves no trace and is left out.

`Ownership` says what this promises about who has a domain. A request is asked
for by one account, may do its one operation on that account's own binding once
(`Bind`, `Release`, `Switch`, `Leave`), may take it back once (`Withdraw`,
`Restore`, `SwitchBack`), and is over; no step touches a binding of an account
that has not asked. `Ledger == INSTANCE Ownership` maps the table to `bindings`
and each handler's request to what it asks for and whether it has done it
(`Asked`): every call of the code must be one step of Ownership or none
(`TableImplementsOwnership`).

### Throttle (`internal/mgr/traffic.go`, `lx/lx.go`)

`throttled` is the in-memory map (`NotPrimed` while it is nil), `nic` the limit
on eth0 in LXD, `pass` the limiter's pass at its next call (limitMu is held until
it is idle), `listed` the quotas it has read. The month's transfer is a level in
the unit of the quota. Beside the limiter: quota changes, `Reinstall`, `Del` in
the panel (which drops the mark when limitMu is free) or in a `vps` command
(which cannot), a new account of an old name, restarts of the panel, and the
read-modify-write of the whole device map by `SetDisk` and `EnsureEth0Options`
(`ReadDevices`, `WriteDevices`).

The history `loose` names the containers whose mark and limit something other
than the limiter has separated: a launch or a rewrite of a marked container's
devices, a lost answer, a failed priming read, a mark dropped late. A later
successful call of the limiter for the name, or a restart, removes it.

### Instances and Units (`internal/mgr/mgr.go`, `mgr/machineid.go`, `lx/lx.go`, `mgr/cpu.go`)

| Variable | In the code |
|---|---|
| `row` | the quota columns of `users` |
| `config`, `device` | LXD's configuration keys and its device map, which is replaced as a whole |
| `power` | running, `boot.autostart`, and (history) what was last asked for |
| `machine`, `bridge` | the machine-id of a container; DHCPv6 and its lease file |
| `throttled` | the limiter's map |
| `request[h]` | the request of a goroutine or command, at its next call |
| `drift` | history: per container, what may have come apart |

A quota request is parsed and validated (Units), written to the row's traffic
quota, read back, applied resource by resource (the disk through a read and a
write of the device map), saved, and undone in reverse when a call fails.
Hardening, power and repair are the other requests that touch the same
container. Integers wrap as Go's do (`Wrap`), at a width that is a constant.

A call to LXD fails without effect (fault `lxd`), or it takes effect and is
reported as failed, because its answer was lost or the wait for it timed out
(fault `reply`; a restart may then have come half-way). A stop that LXD ends
later than it was reported is a `GuestStops`; a start that timed out is taken
for done when it is reported, or never.

`drift` records the exceptions the properties make, by what may have come apart
(`quota`, `traffic`, `limit`, `options`, `power`): a failed roll back, a lost
answer, a dead process, two requests of one kind that met on one container, a
device map written back stale, a guest that shut itself down. A later
undisturbed request of the kind removes the mark. `met` in a request says that another of its kind
was at work on a container of its own; two repairs meet whatever containers
they affect, because both drop the leases of the one bridge and restart it.

### Sessions (`internal/db/session.go`, `internal/panel`, `internal/admin`)

`account` gives every name the id of its row (and the administrator id 0),
`session` is both stores, `request` what a handler has read. Of a hash only
this matters: whether a login compared with the one that is current. A login
that compared before the change and inserts after it makes a session `late`,
which the code cannot tell and the property names; one made before the change
and still open afterwards is `old`, which must not be. `half` holds the ids
whose last change closed no session (`vps admin-passwd` closes none, a failed or
killed change may not).

### Stores (`internal/panel/panel.go`, `internal/admin/admin.go`, `internal/db/audit.go`)

The login limiter (the same code twice) with a clock, its two locked calls and
its pruning; the audit log with its three statements. Both are bounded stores
whose bound is the interesting case, so the bounds of the instance are small.
`Limit`, `Window`, `MaxIPs` and `Retention` are constants. The history
`granted` says how many attempts of an address had been let through by each
time, so that the grants of a stretch of time are a difference. `allowed` reads
the clock just before it takes the lock (`admin.go:157-158`, `panel.go:46-47`);
the model does both in one step.

### Config (`internal/cfg`, `internal/ver`, `main.go`, `db.migrateCPU`, `mgr.ApplyV4State`)

`file` is `config.yaml` (`Torn` while it is written in place; a torn file loads
as the defaults), `db` the settings with the scale of the CPU column and the
schema version, `host` what is generated, `rules` who has rules for IPv4,
`panel` the record the panel read when it started. A command is a process: it
reads the file and goes from step to step with the record it has. One field
(`subnet`) stands for all the immutable ones. `born` is a history: the release
that wrote the data; `past` names the events the properties except.

The immutable fields reach the host in two ways. The firewall's main file is
generated by an install only (`WriteMain`), after the snapshot was compared. The
bridge and the NDP rules are rendered by an install (`Wire`), by
`vps ipv6-reapply` at each boot (`Reapply`), and by every Add and Del
(`Added`, `Deleted`), the last three from the record of the moment, which
nothing compares. `edited` in `past` says that the fields have had a second
value: an editor's, an install's of another subnet, or the defaults a torn file
is read as. A command that fails may have done none, some or all of the step it
failed in (`HalfRewired`, `ApplyRules`, `ApplyTraefik`).

### Addresses (pure)

`ContainerIP`, the port scheme, `allocSSHPort`, `NextFreeIdx`, `IPv6Block`,
`bridgeGateway` and `checkIPv6BlockCollision` as operators. An IPv6 address is
the three fields the code copies bytes into (prefix, hash, host). The panel's own
port is the operator's choice and no part of the scheme (7). No run: its
statements are theorems about all indices, ports and hashes, in
Lifecycle_proofs, which uses them.

## 4. The runs

| Run | Instance | What it shows |
|---|---|---|
| `lifecycle_panel` | one process, 3 names, two of them with one /112 and the third with the gateway's, 2 indices and ports, Add, Del and Reinstall, every fault and crashes, except failing `RemoveUser` and `Reload` | addresses are never shared, also with leftovers; rules on disk and in force belong to current users; users' blocks are disjoint; created users keep container, rule and NDP rule |
| `lifecycle_creators` | two processes adding, 2 names, every fault that Add rolls back | whatever two creators do, the survivors settle on distinct addresses, and roll back leaves no orphan |
| `lifecycle_crossprocess` | two processes, no faults | *violation*, see 7 |
| `traffic_panel` | loop and page sampling in one process, 3 bytes, 2 months, failing list calls and statements | no double count, months never go back, totals catch up |
| `traffic_samplers` | panel and a `vps show`, containers that never stop | *violation*, see 7 |
| `domains_requests` | 2 accounts, 1 domain, 2 handlers, every fault, crashes | the table's constraints; files follow rows; sync repairs; the table implements Ownership |
| `throttle_limiter` | 1 user, levels 0..2, one rewriter, every happening and every failure | the map agrees with LXD; undisturbed users are limited and released |
| `instances_quotas` | 1 container, 2 handlers: panel, CLI, limiter; 3 requests, given in part or in full; failing calls and lost answers | LXD follows the row; all or nothing; disks grow; the limit is kept |
| `instances_power` | 2 containers, 2 handlers: power, hardening, repair, guests; failing calls, lost answers, crashes, reboots | containers run as asked; a repair ends with DHCP on and everyone up |
| `sessions` | 2 users and the administrator, 2 tokens, 2 handlers, a store of 1, failures and crashes | rotation ends sessions; none outlives its account; none ends without a cause; the store holds no dead sessions past its bound |
| `stores` | 2 addresses, 2 logins, limit 2 in a window of 2, map of 1; 2 writers, retention 2 | windows are bounded and nobody is locked out; the newest rows are kept |
| `config` | 3 commands of 2 processes, edits counted as commands, 1 user, failures, crashes | adoption, wiring, password, policy, migration |

Why the bounds are enough. A conflict of the life cycle is between the holder
of an address (port, block, name) and one that wants it: two names and two
indices make every such pair, and the third name is the one that lives with a
colliding block. The one name with a block of its own hashes to the gateway's:
it is refused unless the look-up failed. Three row ids would do for two rows and one request in
progress; there are four. Traffic: a sample in progress, one waiting, and
three bytes give a baseline below, at and above a reading, before and after a
reset. Users do not interact in Traffic (each statement touches its own row),
so the passing run has one; with two it passes as well (3.9 million states).
Domains: two handlers make every overlap of two requests, and two accounts
their dispute over a domain; no step relates two domains but the loops of the
sync and of a deletion, which treat them one by one (the theorems cover any
number). Throttle: the loop treats
its users one by one and no step relates two of them; the theorem covers any
number. Instances: quota requests of different containers share nothing, so one
container does, and of the three requests one raises every quota, one sets them
back and one leaves some out; the repair relates containers through the bridge, so there are
two. Sessions: two handlers are a login and a change, a change and a deletion,
two changes; the second user is the one who must not be logged out, or who takes
a name over. Stores: four instants are two windows; the map is full with one
address. Config: two processes make every overlap, and the third command finds
what they left.

Deadlock is checked except where the system, or the bound on it, really ends:
in `lifecycle_creators` (the table is full and only Adds arrive), in `stores`
(the clock and the row ids run out) and in `config` (the commands do).

Every property of a passing run has a mutant in `PROJECT.json`: an operator
of the module (its comment starts with "Mutant:") that changes one mapped
definition the way a plausible bug would, and under which the property fails.
Types are a property of one run of each module, except those of Sessions,
Stores and Throttle, which are only proved.

## 5. Fairness

Lifecycle, Domains, Instances, Sessions, Stores and Config state safety only;
nothing in the code retries a request, and a command that dies is not resumed.

`Traffic!FairSpec` assumes, per sampler, weak fairness of its next step (the
background goroutine in `main.go` runs `SampleTraffic` every 60 s for ever, and
LXD's client has time-outs, so no call blocks for good) and strong fairness
of the calls that may fail (`ListUsers`, `ReadState`, `ApplyTraffic`): an error
is transient, a call made again and again does not fail each time. There is no
fairness on traffic, on restarts or on users: `CatchesUp` speaks of containers
that stay up and eventually carry no more.

`Throttle!FairSpec` assumes the same of the limiter, which runs in the same
goroutine after each sample: weak fairness of its next step, strong fairness of
the calls that may fail. Quota changes, transfers and restarts are not fair;
the two liveness properties speak of a month that has settled at a level and a
quota, in a process that stays up.

## 6. The proofs

`Lifecycle_proofs` holds for every set of processes, names, indices, ports and
ids; only `LoadedForwardsApart` needs the program's indices and port range.
`TypeCorrect` needs no assumption. The others, but for the two about creators,
assume one process (the two-process runs show why) and are built from five
inductive invariants:

- `AddressInv`: opMu admits at most one request; at each of its steps the
  request's address is either still its own row's or held by nobody else. It
  is what makes `NoSharedAddress` inductive: the step that could break it is
  the launch, and what protects it is `checkLXDConflict` several steps before.
- `FilesInv`: once a request has called `RemoveUser`, no file of its name is
  left, so that deleting the row afterwards strands nothing. It needs that
  `RemoveUser` does not fail (7 tells what happens otherwise).
- `LoadedInv`: the same for the loaded ruleset once the request has reloaded
  it. It also needs that `Reload` does not fail.
- `BlocksInv`: a request for a new row that is past `checkIPv6BlockCollision`
  has a block no row holds. It assumes nothing about failures, the one that skips
  the gateway's check included; that the check, when made, is right is
  `CollisionCheckSound`.
- `ServedInv`: a reported user has what it was given (`Kept`), a request in
  progress is for a name not in `served` and has put in place what its step
  says (`Given`), and every call touches what is of its own name only
  (`Elsewhere`). A rule in force is also kept on disk, or the next reload for
  another user would drop it. It assumes nothing about failures either.

The two about creators, `RollBackLeavesNoOrphan` and `CreatorsSettle`, are what
`mgr.go:38-39` says of races between processes, for the case in which it is
true: any number of processes that only add users, and no failure the roll back
cannot undo (`CreatorsRollBack`: no crash, no launch that leaves an instance, no
failed delete). `OrphanInv` gives every instance either a row whose id no
request holds, or the request that launched it and has yet to delete it or to
return.

`Traffic_proofs` holds for any users, samplers and bounds. `TrafficTypes`
needs no assumption; the other two assume one process (`OneProcess`), and the
ledger also that a state call fails only for a deleted container
(`StatesAnswer`, see 7). The invariants: `Shape`, the types, that a sampler
at work holds its sampleMu and is the only one, and that only accounts have
rows; `Ledger`, that the bytes not yet counted
cover what the counter has grown since the baseline, and separately what it
has grown beyond the reading the sample holds, plus what applying that reading
would add; `Calendar`, that a sample's month is no later than now and no
earlier than any row's. The bare property is not inductive: a
sample in flight holds a reading from before a restart, and only the second
part of `Ledger` says that applying it cannot charge more than was carried.

`Throttle_proofs` holds for any users, handlers, quotas and failures.
`ThrottleTypes` and `MarksAreTrue` are proved together with `PassKnown`: a pass
under way has primed the map, and a name the priming has yet to read is not
marked. Without it neither is inductive (a pass on a nil map would break the
type, a mark left from before would survive the priming).

`Domains_proofs` holds for any accounts, domains, handlers and faults and
assumes nothing of the scheduling. `TypeOK` says which step a request of each
kind can be at and what it has in hand there, which makes it inductive with the
schema's constraints (`TableWellFormed`). `ImplementsOwnership` then follows
step by step: the first write of a request is its Bind, Release, Switch or
Leave under the mapping, the roll back its Withdraw, Restore or SwitchBack, an
end without one an End, and the calls on files stutter. The point is in the roll
backs, which write rows a while after they read them and still never touch
another account's: an UPDATE goes by an id that nobody else's domain can have
got meanwhile, a DELETE names account and domain, an INSERT is refused when the
domain is taken or the account gone.

`FilesAgree` is about the property with the exceptions, so its invariant is
about them too. `FollowInv` says that two requests at work on one domain have
it in `drift` (`Apart`), a purge having met every request of its user; so
outside `drift` a domain has one request at most, and `On` says what it has done
so far to the row, the file and the temporary file: what is there before its
next call is what its roll back will put back. A purge has listed
domains of its user only, and its DELETE puts those it has not listed in `drift`;
an UPDATE's id belongs to no other domain (`IdsKept`).
`CleanSync` is about all domains, for that is what empties `drift`: a sync that
met nobody is alone, what it has read is still so, and every row is either
still to be written or served.

`Sessions_proofs` holds for any users, tokens and handlers; the only assumption
on constants is that `None` is no session. `NoSessionWithoutAccount` adds that
the administrator is never deleted. `RotationEndsSessions` is inductive with the types: `Current` states it
session by session (an old one belongs to an unsettled id: a sweep of it is
still to come, or it is in `half`), and each action either closes sessions,
makes the ids it touches unsettled, or settles an id whose sessions it has
just closed. `SessionsEndForACause` is an action property, proved with one step
per action that closes sessions. `StoreIsOfLiveSessions` also assumes that the
tokens are finitely many: it compares cardinalities before and after the prune.

`Stores_proofs` holds for any retention, limits and number of goroutines; it
assumes of the constants only what the program's are (positive, finitely many
writers). `NewestRowsKept` is not inductive: its lower bound needs that the rows
exceed the writers about to delete (`Deleting`), which every counting writer
restores because it has just seen a full log; and that nothing is deleted
before the retention is reached. Nor is `AttemptsBounded`. A client's grants fall
into the spans of successive records, which begin at least a window apart;
`WindowOf` keeps, per client, that the record's count is what was granted since
it began, that no more than the limit was granted in the window before that, and
that a record which is over is followed by no grant until the next. The last
part is what a record forgotten by another client's prune relies on. A stretch
as long as a window meets two spans at most: hence twice the limit, and
`RefusedOnlyWhenSpent`, whose refusals come from a record that is not over.

The end of `Lifecycle_proofs` is about the operators of Addresses, without state.
200 indices are 200 addresses, none of them the gateway (the byte never wraps),
their port blocks are disjoint and clear of the SSH range, so
that rows which differ in `idx` and `ssh_port` never compete for a port of the
host; the allocator's count refuses exactly when no port is free; comparing the
start of two /112 keeps them disjoint, and the gateway is always in the block of
hash 0. `LoadedForwardsApart` carries this over to the system: the rules in
force belong to rows, and rows differ in both.

`Instances_proofs` holds for any containers, handlers, texts, options and
faults. It assumes that `None` is no value a request could hold, and that the
first quotas are positive; what the parsers return is proved to be an integer of
the program (`ParsedTypes`), not assumed. Everything that is checked of Instances is
proved, from the types with what a request has read by each step (`Shape`) and
one invariant for each property, all over the exceptions in `drift`:

- `LimitInv`: where nothing has come apart, not only the device but every copy
  of its map that a request still holds has the limit of the limiter's memory,
  so that writing a copy back changes nothing.
- `QuotaInv`: two quota requests at work on a container have met, and `drift`
  has it. A request that met none relies on what it has read and set so far,
  whatever came apart before it (`Undisturbed`); with nothing apart, LXD
  enforces the new values up to the last resource done and the old ones after
  (`Follows`, `HalfWay`), at every step of the way there and of the roll back.
  The first is what lets an undisturbed request mend what others left. A call
  that took effect though it was reported as failed has no entry in the roll
  back: it is in `drift` (`QuotaLost`, `PowerLost`).
- `PowerInv`: the same of what runs: at which of its steps a hardening or a
  repair has which of its containers stopped (`Stage`).
- `RepairInv`: an undisturbed repair's containers have ids of their own from
  the end of its first loop on, no lease is stale from the drop on, and DHCP is
  on once it comes to its starts.

`AllOrNothing`, `DiskOnlyGrows` and `RepairEndsServing` are action properties:
each follows from these invariants in the state before, with one lemma on the
only steps that can end the request (`QuotaEnds`, `DiskShrinks`, `RepairEnds`).

`Config_proofs` holds for any number of processes, commands and users and for
any failures; it assumes only that `None` and `Torn` are values of their own.
Every property that is checked of Config is proved. The types need which step a
command of each kind can be at and that it holds a record there (`Shape`). To
this each property adds an invariant of its own:

- `Unedited`: as long as the immutable fields have had one value, whatever holds
  a record or a field of one holds that value (`Held`). It is what ties the NDP
  rules, which no snapshot is compared with, to the snapshot.
- `Migration`, `Freezing`, `Moving`: of the steps that test and then write, one
  command at a time is between its test and its write (`Alone`), and what it
  tested still holds; a second one would be in `past`. `Freezing` also says
  that an install that wires holds the subnet that is frozen.
- `Adoption`: every record in the file, or about to be written to it, that
  names this release is of this release (`Honest`), which a torn file is too,
  for it names none.
- `Keeping`: until the database has a password, the file has it or is torn by
  a command that has it and will write it, and every command that may write
  the file has read it.
- `Agreeing`: a command that met no other has put in place what it is past
  (`Applying`); one that only saves, or adds a user, found all in place
  (`Beside`) and stays alone, or it has met.

Model-checked only: liveness (`CatchesUp`, `OverIsLimited`, `UnderIsReleased`),
which is out of the prover's reach. The invariants above that are not
properties of a run have been checked by TLC too, on the instances of section 4,
before they were proved.

## 7. Findings

1. **Reinstall beside `vps del` and `vps add`** (`lifecycle_crossprocess`).
   `mgr.go:38-39` says cross-process races "are still caught by the users.idx
   UNIQUE constraint plus Add's rollback". Reinstall inserts nothing: it
   launches an instance from the row it read before deleting the old one. When
   another process deletes the user and gives the index to a new one in
   between, two instances hold one address, with no failure anywhere.
2. **Two samplers in two processes** (`traffic_samplers`). `db/traffic.go:35-36`
   and `mgr/traffic.go:20-23` say concurrent samplers "can never double-count"
   and name the CLI. The counters are read before the statement: the panel's
   older reading, applied after the CLI's newer one, looks like a reset and is
   added in full. (`sampleMu` prevents it within one process, as its comment
   at `mgr.go:51-54` explains.)

Also seen while modelling, and excepted by name in the histories or constants
of the modules (the properties do not hold without the exceptions):

- *Lifecycle.* `mgr.go:508-509` calls leftover nft rules "harmless and
  re-runnable on retry". When `RemoveUser` fails Del goes on to delete the row:
  the retry finds no user, the file stays loaded, and its port and address go
  to the next user. The passing run and the theorems assume it does not fail.
  The check that a name's block is not the gateway's is skipped without a word
  when the prefix or the gateway cannot be looked up (`mgr.go:387-392`): a user
  may then hold the gateway's block, and `BlocksDisjoint` is about users only.
  An operation of LXD that ends after its time-out was reported is covered only
  as far as its effect is there when the request goes on.
- *Addresses.* `panel.listen` accepts any host and port (`registry.go:114-124`),
  one of a user's block or of the SSH range included; the rules of that user
  then take the panel's port. Only the port a fresh install picks
  (`RandomPanelPort`) is clear of them.
- *Traffic.* A failed state call of a running container records a zero
  baseline, after which its counter is added again (`lx.go:258-262`). A counter
  that overtakes its old baseline within one interval of a restart is
  under-counted, which no statement on the counters alone can see.
- *Domains.* Row and file are rolled back together "so the two never disagree"
  (`mgr.go:907-909`), but two requests that overlap leave a file without a row
  or a row with the other's file (`drift`). `Manager.Del` drops the error of
  `ListDomains` and returns that of `DeleteSessionsForUser` before it removes the
  files (`mgr.go:507`, `519-521`): they stay until a sync, and a retry of the
  deletion finds no user.
- *Throttle.* Reinstall launches a container without the limit and leaves the
  mark set, so an over-quota user is not limited again until the month ends or
  the panel restarts (`docs/architecture.md:96-98`).
- *Instances.* LXD's client gives up after 60 s (`lx.go:36-38`) and the wait for
  an operation after its time-out (`lx.go:144-146`). A call that took effect all the same is
  reported as failed: a quota that is applied is not rolled back, a NIC has a
  limit the limiter does not know, a container is stopped and not started
  again. Two repairs meet at the bridge, even of different containers:
  one may start its containers while the other has DHCPv6 switched off.
  Two quota requests that overlap roll back to, or save, values from before the
  other; a device map read before another request's write is
  written back whole. A repair or hardening that fails between its stop and its
  start leaves containers stopped, and a second run finds nothing to do.
- *Sessions.* A login that compared with the old hash may insert its session
  after the sweep. `vps admin-passwd` cannot close the sessions of the panel's
  memory.
- *Config.* `note-version` of this release signs a file of unknown origin, which
  the next install adopts although "an unknown origin must never silently
  adopt a breaking release" (`ver.go:16-17`). `serve` does not verify the
  snapshot although `cfg/snapshot.go:11-13` says so ("enforced, not just
  documented"), nor do `vps ipv6-reapply` at each boot (`main.go:442-460`), Add
  and Del, which render the bridge and every NDP rule from the live record: an
  edited immutable field reaches the host without an install. An install refused
  by the snapshot has already saved its file, which these commands then apply.
  They look at no origin either: the boot unit, the command line's Adds and Dels
  and `config set` open and migrate the data of an older release. A file torn by
  a crash loads as the defaults: the boot unit then wires those, and a password
  hash in it is lost. The panel's Add decides on rules by the policy it read when
  it started; two processes that open an old database at once both scale the CPU
  column; two first installs may freeze different snapshots; an `admin-passwd`
  during an install's move of the old hash is overwritten.

## 8. Not modelled

HTML rendering, form parsing and translations; the CLI's argument handling and
prompts; certificates and password hashing; installation scripts and the host
configuration they and `routed_ipv6.go` write (sysctl, netplan, routes); the
parsing of the configuration and of the registry's keys other than the policy
and the immutable fields (of `vps ipv6-reapply` and of the wiring of an install,
what they take from which record is in Config; the commands they run on the host
and in the containers are not); flash messages (one map under one lock) and CSRF
tokens (a stateless MAC); the wording of generated files. They have no state
that outlives a call, or none another component reads. Bulk and usage views
only read. The migrations other than that of the CPU column add or drop a
column, after a look whether it is there.
