----------------------------- MODULE Lifecycle -----------------------------
(***************************************************************************)
(* The life of a user's container: Manager.Add, Manager.Del and            *)
(* Manager.Reinstall (internal/mgr/mgr.go) over the four stores they keep  *)
(* in step by hand -- the SQLite users table, the LXD instances, the       *)
(* per-user nftables files with the ruleset loaded from them, and the      *)
(* rules of the NDP proxy.                                                 *)
(*                                                                         *)
(* Every call the handlers make to one of those stores is one action, so a *)
(* crash, a failing call or another process can come between any two.      *)
(* Within a process the three handlers run under opMu; a `vps` command and *)
(* the panel are different processes and share no lock.                    *)
(***************************************************************************)
EXTENDS Naturals, FiniteSets

CONSTANTS
  Processes,  \* processes that own a Manager: the panel, each CLI invocation
  Names,      \* user names, which are also the container names
  Idxs,       \* user indices 1..cfg.MaxUsers; ContainerIP maps each to one IPv4
  Ports,      \* the SSH port range
  Ids,        \* values of users.id
  NoId,       \* createdID = 0: no row inserted yet
  Block,      \* IPv6Block: the /112 derived from each name
  GatewayBlock, \* the /112 holding the bridge's gateway address
  V4Forward,  \* cfg.Net.V4Forward
  Kinds,      \* the requests that arrive, out of {"add", "del", "reinstall"}
  Faults      \* the calls that may fail, out of FaultKinds

FaultKinds ==
  {"gateway", "create", "launch", "provision", "wire", "insert", "rules", "reload",
   "delete", "unlink", "row", "crash"}

ASSUME NoIdAssumption == NoId \notin Ids
ASSUME PolicyAssumption == V4Forward \in BOOLEAN
ASSUME RequestAssumption == Kinds \subseteq {"add", "del", "reinstall"}
ASSUME FaultAssumption == Faults \subseteq FaultKinds

VARIABLES
  users,      \* rows of the users table
  containers, \* LXD instances: name and static IPv4 (as the index it encodes)
  files,      \* user-<name>.nft files: the user's DNAT rules
  kernel,     \* the rules in the loaded vpsmgr table
  ndp,        \* names with a rule in ndppd.conf
  ops,        \* requests being executed, each at its next call
  opMu,       \* processes whose opMu is held
  served      \* history: names whose Add returned a Result, with no later request

stores == <<users, containers, files, kernel, ndp>>
vars == <<users, containers, files, kernel, ndp, ops, opMu, served>>

Row == [id : Ids, name : Names, idx : Idxs, port : Ports]
Container == [name : Names, ip : Idxs]
Rule == [name : Names, port : Ports, ip : Idxs]

AddSteps == {"add.check", "add.launch", "add.provision", "add.wire",
             "add.insert", "add.rules", "add.reload"}
UndoSteps == {"undo.wire", "undo.delete", "undo.rules", "undo.reload", "undo.row"}
DelSteps == {"del.delete", "del.wire", "del.rules", "del.reload", "del.row"}
ReinstallSteps == {"re.delete", "re.launch", "re.provision", "re.wire"}

Op == [proc : Processes,
       at   : AddSteps \cup UndoSteps \cup DelSteps \cup ReinstallSteps,
       name : Names, idx : Idxs, port : Ports, id : Ids \cup {NoId}]

TypeOK ==
  /\ users \subseteq Row
  /\ containers \subseteq Container
  /\ files \subseteq Rule
  /\ kernel \subseteq Rule
  /\ ndp \subseteq Names
  /\ ops \subseteq Op
  /\ opMu \subseteq Processes
  /\ served \subseteq Names

Init ==
  /\ users = {} /\ containers = {} /\ files = {} /\ kernel = {} /\ ndp = {}
  /\ ops = {} /\ opMu = {} /\ served = {}

-----------------------------------------------------------------------------
(* The mutex, and moving a request from one call to the next.              *)

MayFail(call) == call \in Faults

(* Mutant: opMu is not taken.                                              *)
BeginUnlocked(op) ==
  /\ opMu' = opMu \cup {op.proc}
  /\ ops' = ops \cup {op}
  /\ served' = served \ {op.name}

Begin(op) ==
  /\ op.proc \notin opMu
  /\ opMu' = opMu \cup {op.proc}
  /\ ops' = ops \cup {op}
  /\ served' = served \ {op.name}

Goto(op, step) ==
  /\ ops' = (ops \ {op}) \cup {[op EXCEPT !.at = step]}
  /\ UNCHANGED <<opMu, served>>

Unlock(op) ==
  /\ ops' = ops \ {op}
  /\ opMu' = opMu \ {op.proc}

Return(op) == Unlock(op) /\ UNCHANGED served

(* AUTOINCREMENT never hands out an id a second time: an id is fresh when  *)
(* no row carries it and no request still remembers it.                    *)
FreshIds == {i \in Ids : /\ \A r \in users : r.id # i
                         /\ \A op \in ops : op.id # i}

HasContainer(n) == \E c \in containers : c.name = n
Without(rules, n) == {f \in rules : f.name # n}

-----------------------------------------------------------------------------
(* The calls, with the effects their failures can leave behind.            *)

(* Mutant: the address of the next index.                                  *)
LaunchedOffByOne(op) ==
  /\ ~HasContainer(op.name)
  /\ containers' = containers \cup {[name |-> op.name, ip |-> op.idx + 1]}

(* lx.Launch: LXD refuses a second instance of the same name. A failure    *)
(* after the create request (start, WaitReady) leaves the instance.        *)
Launched(op) ==
  /\ ~HasContainer(op.name)
  /\ containers' = containers \cup {[name |-> op.name, ip |-> op.idx]}

LaunchFailed(op) ==
  \/ /\ HasContainer(op.name) \/ MayFail("create")
     /\ UNCHANGED containers
  \/ /\ MayFail("launch")
     /\ Launched(op)

(* lx.Delete: an instance that is already gone counts as deleted; a failed *)
(* or timed-out operation may or may not have removed it.                  *)
Deleted(op) == containers' = {c \in containers : c.name # op.name}

DeleteFailed(op) ==
  /\ MayFail("delete")
  /\ UNCHANGED containers \/ Deleted(op)

(* Mutant: only the users already in the table are rendered.               *)
WiredRowsOnly(op) == ndp' = {r.name : r \in users}

(* writeNDPPD: the file is rendered from the users table plus or minus one *)
(* name. The restart that follows may fail after the file is written.      *)
Wired(op) == ndp' = {r.name : r \in users} \cup {op.name}
Unwired(op) == ndp' = {r.name : r \in users} \ {op.name}

(* fw.Reload loads every file in one batch, or leaves the old table.       *)
Reloaded == kernel' = files

ReloadFailed == MayFail("reload") /\ UNCHANGED kernel

-----------------------------------------------------------------------------
(* Manager.Add. The database reads of the validation prefix are one step:  *)
(* whatever changes between them is caught by checkLXDConflict or by the   *)
(* UNIQUE columns of the insert. The comparison with the gateway's block   *)
(* is skipped when the prefix or the gateway cannot be determined.         *)

(* Mutant: blocks are compared with the live instances, not with the rows. *)
AddPickLiveBlocks(p, n, i, s) ==
  /\ "add" \in Kinds
  /\ \A r \in users : r.name # n /\ r.idx # i /\ r.port # s
  /\ \A c \in containers : Block[c.name] # Block[n]
  /\ Begin([proc |-> p, at |-> "add.check", name |-> n, idx |-> i, port |-> s,
            id |-> NoId])
  /\ UNCHANGED stores

AddPick(p, n, i, s) ==
  /\ "add" \in Kinds
  /\ \A r \in users : r.name # n /\ r.idx # i /\ r.port # s
  /\ \A r \in users : Block[r.name] # Block[n]
  /\ Block[n] # GatewayBlock \/ MayFail("gateway")
  /\ Begin([proc |-> p, at |-> "add.check", name |-> n, idx |-> i, port |-> s,
            id |-> NoId])
  /\ UNCHANGED stores

(* Mutant: only the name of a leftover is compared.                        *)
AddCheckName(op) ==
  /\ op.at = "add.check"
  /\ IF HasContainer(op.name) THEN Return(op) ELSE Goto(op, "add.launch")
  /\ UNCHANGED stores

AddCheckLXD(op) ==
  /\ op.at = "add.check"
  /\ IF \E c \in containers : c.name = op.name \/ c.ip = op.idx
       THEN Return(op)
       ELSE Goto(op, "add.launch")
  /\ UNCHANGED stores

AddLaunch(op) ==
  /\ op.at = "add.launch"
  /\ \/ Launched(op) /\ Goto(op, "add.provision")
     \/ LaunchFailed(op) /\ Return(op)
  /\ UNCHANGED <<users, files, kernel, ndp>>

(* Mutant: the error is returned without the cleanup.                      *)
AddProvisionNoCleanup(op) ==
  /\ op.at = "add.provision"
  /\ \/ HasContainer(op.name) /\ Goto(op, "add.wire")
     \/ MayFail("provision") /\ Return(op)
  /\ UNCHANGED stores

AddProvision(op) ==
  /\ op.at = "add.provision"
  /\ \/ HasContainer(op.name) /\ Goto(op, "add.wire")
     \/ /\ ~HasContainer(op.name) \/ MayFail("provision")
        /\ Goto(op, "undo.wire")
  /\ UNCHANGED stores

(* WireIPv6, then ConfigureContainerIPv6 (an exec in the container).       *)
AddWire(op) ==
  /\ op.at = "add.wire"
  /\ \/ HasContainer(op.name) /\ Wired(op) /\ Goto(op, "add.insert")
     \/ /\ ~HasContainer(op.name) \/ MayFail("wire")
        /\ UNCHANGED ndp \/ Wired(op)
        /\ Goto(op, "undo.wire")
  /\ UNCHANGED <<users, containers, files, kernel>>

(* Mutant: users.idx is not UNIQUE.                                        *)
AddInsertIdxTwice(op) ==
  /\ op.at = "add.insert"
  /\ \A r \in users : r.name # op.name /\ r.port # op.port
  /\ \E i \in FreshIds :
       /\ users' = users \cup
            {[id |-> i, name |-> op.name, idx |-> op.idx, port |-> op.port]}
       /\ ops' = (ops \ {op}) \cup {[op EXCEPT !.at = "add.rules", !.id = i]}
  /\ UNCHANGED <<containers, files, kernel, ndp, opMu, served>>

AddInsert(op) ==
  /\ op.at = "add.insert"
  /\ \/ /\ \A r \in users : r.name # op.name /\ r.idx # op.idx /\ r.port # op.port
        /\ \E i \in FreshIds :
             /\ users' = users \cup
                  {[id |-> i, name |-> op.name, idx |-> op.idx, port |-> op.port]}
             /\ ops' = (ops \ {op}) \cup {[op EXCEPT !.at = "add.rules", !.id = i]}
             /\ UNCHANGED <<opMu, served>>
     \/ /\ \/ MayFail("insert")
           \/ \E r \in users : r.name = op.name \/ r.idx = op.idx \/ r.port = op.port
        /\ Goto(op, "undo.wire")
        /\ UNCHANGED users
  /\ UNCHANGED <<containers, files, kernel, ndp>>

(* UpdateTrafficQuota (a column no property reads), then WriteUser.        *)
AddRules(op) ==
  /\ op.at = "add.rules"
  /\ \/ /\ files' = IF V4Forward
                      THEN Without(files, op.name) \cup
                             {[name |-> op.name, port |-> op.port, ip |-> op.idx]}
                      ELSE files
        /\ Goto(op, "add.reload")
     \/ /\ MayFail("rules")
        /\ UNCHANGED files
        /\ Goto(op, "undo.wire")
  /\ UNCHANGED <<users, containers, kernel, ndp>>

AddReload(op) ==
  /\ op.at = "add.reload"
  /\ \/ Reloaded /\ Unlock(op) /\ served' = served \cup {op.name}
     \/ ReloadFailed /\ Goto(op, "undo.wire")
  /\ UNCHANGED <<users, containers, files, ndp>>

-----------------------------------------------------------------------------
(* Add's cleanup closure: every error in it is dropped.                    *)

UndoWire(op) ==
  /\ op.at = "undo.wire"
  /\ Unwired(op) \/ (MayFail("wire") /\ UNCHANGED ndp)
  /\ Goto(op, "undo.delete")
  /\ UNCHANGED <<users, containers, files, kernel>>

UndoDelete(op) ==
  /\ op.at = "undo.delete"
  /\ Deleted(op) \/ DeleteFailed(op)
  /\ Goto(op, "undo.rules")
  /\ UNCHANGED <<users, files, kernel, ndp>>

UndoRules(op) ==
  /\ op.at = "undo.rules"
  /\ \/ files' = Without(files, op.name)
     \/ MayFail("unlink") /\ UNCHANGED files
  /\ Goto(op, "undo.reload")
  /\ UNCHANGED <<users, containers, kernel, ndp>>

UndoReload(op) ==
  /\ op.at = "undo.reload"
  /\ Reloaded \/ ReloadFailed
  /\ Goto(op, "undo.row")
  /\ UNCHANGED <<users, containers, files, ndp>>

UndoRow(op) ==
  /\ op.at = "undo.row"
  /\ \/ users' = {r \in users : r.id # op.id}
     \/ MayFail("row") /\ UNCHANGED users
  /\ Return(op)
  /\ UNCHANGED <<containers, files, kernel, ndp>>

-----------------------------------------------------------------------------
(* Manager.Del. Sessions, domains and the throttle mark of the user are    *)
(* dropped after the row and belong to other modules.                      *)

DelLookup(p, r) ==
  /\ "del" \in Kinds
  /\ Begin([proc |-> p, at |-> "del.delete", name |-> r.name, idx |-> r.idx,
            port |-> r.port, id |-> r.id])
  /\ UNCHANGED stores

(* A container that cannot be removed keeps its row, for a retry.          *)
DelContainer(op) ==
  /\ op.at = "del.delete"
  /\ \/ Deleted(op) /\ Goto(op, "del.wire")
     \/ DeleteFailed(op) /\ Return(op)
  /\ UNCHANGED <<users, files, kernel, ndp>>

(* Mutant: the row goes before the rules.                                  *)
DelWireRowFirst(op) ==
  /\ op.at = "del.wire"
  /\ Unwired(op)
  /\ Goto(op, "del.row")
  /\ UNCHANGED <<users, containers, files, kernel>>

DelWire(op) ==
  /\ op.at = "del.wire"
  /\ Unwired(op) \/ (MayFail("wire") /\ UNCHANGED ndp)
  /\ Goto(op, "del.rules")
  /\ UNCHANGED <<users, containers, files, kernel>>

(* Mutant: the ruleset is not reloaded.                                    *)
DelRulesNoReload(op) ==
  /\ op.at = "del.rules"
  /\ files' = Without(files, op.name)
  /\ Goto(op, "del.row")
  /\ UNCHANGED <<users, containers, kernel, ndp>>

DelRules(op) ==
  /\ op.at = "del.rules"
  /\ \/ files' = Without(files, op.name)
     \/ MayFail("unlink") /\ UNCHANGED files
  /\ Goto(op, "del.reload")
  /\ UNCHANGED <<users, containers, kernel, ndp>>

DelReload(op) ==
  /\ op.at = "del.reload"
  /\ Reloaded \/ ReloadFailed
  /\ Goto(op, "del.row")
  /\ UNCHANGED <<users, containers, files, ndp>>

DelRow(op) ==
  /\ op.at = "del.row"
  /\ \/ users' = {r \in users : r.id # op.id}
     \/ MayFail("row") /\ UNCHANGED users
  /\ Return(op)
  /\ UNCHANGED <<containers, files, kernel, ndp>>

-----------------------------------------------------------------------------
(* Manager.Reinstall: no step of it is rolled back.                        *)

ReinstallLookup(p, r) ==
  /\ "reinstall" \in Kinds
  /\ Begin([proc |-> p, at |-> "re.delete", name |-> r.name, idx |-> r.idx,
            port |-> r.port, id |-> r.id])
  /\ UNCHANGED stores

ReinstallDelete(op) ==
  /\ op.at = "re.delete"
  /\ \/ Deleted(op) /\ Goto(op, "re.launch")
     \/ DeleteFailed(op) /\ Return(op)
  /\ UNCHANGED <<users, files, kernel, ndp>>

(* The image is looked up only now: a missing one is a refused create.     *)
ReinstallLaunch(op) ==
  /\ op.at = "re.launch"
  /\ \/ Launched(op) /\ Goto(op, "re.provision")
     \/ LaunchFailed(op) /\ Return(op)
  /\ UNCHANGED <<users, files, kernel, ndp>>

ReinstallProvision(op) ==
  /\ op.at = "re.provision"
  /\ \/ HasContainer(op.name) /\ Goto(op, "re.wire")
     \/ /\ ~HasContainer(op.name) \/ MayFail("provision")
        /\ Return(op)
  /\ UNCHANGED stores

ReinstallWire(op) ==
  /\ op.at = "re.wire"
  /\ \/ Wired(op)
     \/ MayFail("wire") /\ UNCHANGED ndp
  /\ Return(op)
  /\ UNCHANGED <<users, containers, files, kernel>>

-----------------------------------------------------------------------------
(* A process dies (kill, reboot of the panel, ^C of a CLI command): its    *)
(* request stops where it is and its mutex goes with it.                   *)
Crash(op) ==
  /\ MayFail("crash")
  /\ Return(op)
  /\ UNCHANGED stores

Arrive ==
  \E p \in Processes :
    \/ \E n \in Names, i \in Idxs, s \in Ports : AddPick(p, n, i, s)
    \/ \E r \in users : DelLookup(p, r) \/ ReinstallLookup(p, r)

AddStep(op) ==
  \/ AddCheckLXD(op) \/ AddLaunch(op) \/ AddProvision(op) \/ AddWire(op)
  \/ AddInsert(op) \/ AddRules(op) \/ AddReload(op)

UndoStep(op) ==
  \/ UndoWire(op) \/ UndoDelete(op) \/ UndoRules(op) \/ UndoReload(op)
  \/ UndoRow(op)

DelStep(op) ==
  \/ DelContainer(op) \/ DelWire(op) \/ DelRules(op) \/ DelReload(op)
  \/ DelRow(op)

ReinstallStep(op) ==
  \/ ReinstallDelete(op) \/ ReinstallLaunch(op) \/ ReinstallProvision(op)
  \/ ReinstallWire(op)

Next ==
  \/ Arrive
  \/ \E op \in ops :
       AddStep(op) \/ UndoStep(op) \/ DelStep(op) \/ ReinstallStep(op) \/ Crash(op)

Spec == Init /\ [][Next]_vars

-----------------------------------------------------------------------------
(* Properties.                                                             *)

Settled == ops = {}

(* Two LXD instances never hold the same static IPv4 -- the "bridge IP     *)
(* conflict" Add, Del and checkLXDConflict are written to avoid. Leftovers *)
(* of failed launches, failed cleanups and crashes are counted too.        *)
NoSharedAddress ==
  \A c, d \in containers : c.ip = d.ip => c = d

(* The address of a user is held by that user's container or by nobody:    *)
(* no orphan sits on an address NextFreeIdx hands out, and a reinstalled   *)
(* container keeps the address of its row.                                 *)
AddressOfUser ==
  \A r \in users, c \in containers : c.ip = r.idx <=> c.name = r.name

RuleOf(r) == [name |-> r.name, port |-> r.port, ip |-> r.idx]

(* A per-user rule file on disk always describes a current row: Del and    *)
(* the cleanup remove the file before the row, so no crash between two     *)
(* calls leaves a rule whose port and address can be given to a new user.  *)
FilesBelongToUsers == files \subseteq {RuleOf(r) : r \in users}

(* The same for the ruleset in force: a DNAT rule forwards only a current  *)
(* user's SSH port, and only to that user's address.                       *)
LoadedRulesBelongToUsers == kernel \subseteq {RuleOf(r) : r \in users}

(* No two users own the same /112, although the collision check reads the  *)
(* table long before the row is inserted. (A user may own the gateway's    *)
(* block: that check of checkIPv6BlockCollision is skipped on an error.)   *)
BlocksDisjoint ==
  \A r, s \in users : Block[r.name] = Block[s.name] => r = s

(* A failure that Add rolls back leaves nothing behind: once the requests  *)
(* have ended, every container belongs to a row and holds its address.     *)
NoOrphans ==
  Settled => \A c \in containers :
               \E r \in users : r.name = c.name /\ r.idx = c.ip

(* A user whose creation was reported keeps what it was given while no     *)
(* request names it: its container with its address, its rule in force and *)
(* its NDP proxy rule, whatever requests for other users do, fail or leave *)
(* behind ("`add` / `drop` let a single user be added or removed without   *)
(* racing the DB transaction in Add/Del", ipv6.go).                        *)
CreatedUsersServed ==
  \A r \in users :
    r.name \in served =>
      /\ [name |-> r.name, ip |-> r.idx] \in containers
      /\ V4Forward => RuleOf(r) \in kernel
      /\ r.name \in ndp

(* Once the requests have ended no two instances share an address.         *)
AddressesSettle == Settled => NoSharedAddress
=============================================================================
