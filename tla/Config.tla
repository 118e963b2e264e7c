------------------------------- MODULE Config -------------------------------
(***************************************************************************)
(* Config: the host's configuration and what is generated from it. The     *)
(* file config.yaml, read and written as a whole by every command          *)
(* (internal/cfg), the settings kept in the database (immutable snapshot,  *)
(* IPv4 policy, administrator's password), the scale of the users' CPU     *)
(* column (internal/db migrateCPU), `vps install`, `vps config set         *)
(* net.v4_forward`, `vps note-version`, `vps admin-passwd`, `vps serve`,   *)
(* `vps ipv6-reapply`, and what an Add and a Del take from the             *)
(* configuration: whether the new user gets rules for IPv4, and the NDP    *)
(* rules of everybody, rendered again. IPv6 pass-through is on.            *)
(*                                                                         *)
(* Commands are processes of their own and nothing keeps two apart; the    *)
(* panel reads the file once, when it starts.                              *)
(***************************************************************************)
EXTENDS Integers

CONSTANTS
  MaxCommands, \* bound: how many are begun, edits of the file included
  Commands,  \* processes
  Users,     \* users that may be added
  Torn,      \* a file half-written
  None,      \* no file, no command, no panel, no setting
  Faults     \* what may fail, out of FaultKinds

FaultKinds == {"step", "crash", "edit"}
ASSUME FaultsAssumption == Faults \subseteq FaultKinds
ASSUME BoundAssumption == MaxCommands \in Nat

Versions == {"none", "old", "this"}  \* not recorded; before 0.3; this release
Subnets == {"default", "chosen"}     \* stands for all the immutable fields

(* born: history, the release the record's data come from.                 *)
Record == [subnet : Subnets, v4 : BOOLEAN, installed : Versions, uninstalled : Versions,
           legacy : BOOLEAN, born : Versions]

VARIABLES
  file,      \* config.yaml
  db,        \* settings: snapshot, policy, password hash; scale of the CPU
             \* column and user_version
  host,      \* generated from the immutable fields: the nftables main
             \* configuration, the bridge with the NDP rules; traefik running
  rules,     \* users, and whether each has rules for IPv4
  panel,     \* the record the panel runs with
  command,   \* per process: the command, at its next step
  begun,     \* commands and edits begun
  past       \* history: what happened that later states cannot tell

vars == <<file, db, host, rules, panel, command, begun, past>>

Steps == {"truncate", "write", "open", "migrate", "snapshot", "freeze", "wire", "main",
          "rules", "setting", "traefik", "legacy", "move", "dropTruncate", "dropWrite", "admin",
          "init", "hash", "serve", "rewire", "add", "del"}
Hashes == {None, "legacy", "new"}

(* The host came with a password in its file; the policy may be applied in *)
(* part; a record of unknown origin was signed; a file was left or read    *)
(* half-written; an immutable field got a second value; two commands met in*)
(* the named step.                                                         *)
Events == {"legacy", "policy", "origin", "torn", "edited", "migrate", "freeze", "move"}

Command == [req : {"install", "set", "note", "passwd", "serve", "reapply", "add", "panelAdd",
                   "del", "panelDel"},
            at : Steps, cfg : Record \cup {None}, apply : BOOLEAN, met : BOOLEAN, user : Users \cup {None}]

ASSUME NoneAssumption ==
  /\ None \notin Subnets /\ None \notin Record /\ None \notin Command
  /\ None # "legacy" /\ None # "new"
ASSUME TornAssumption == Torn # None /\ Torn \notin Record

TypeOK ==
  /\ file \in Record \cup {None, Torn}
  /\ db \in [snapshot : Subnets \cup {None}, v4 : BOOLEAN \cup {None}, hash : Hashes,
             scale : 0..2, version : 0..1]
  /\ host \in [main : Subnets \cup {None}, ndp : Subnets \cup {None}, traefik : BOOLEAN]
  /\ rules \in [Users -> BOOLEAN \cup {None}]
  /\ panel \in Record \cup {None}
  /\ command \in [Commands -> Command \cup {None}]
  /\ begun \in 0..MaxCommands
  /\ past \subseteq Events

(* default(), as an empty file is read too.                                *)
Default == [subnet |-> "default", v4 |-> TRUE, installed |-> "none", uninstalled |-> "none",
            legacy |-> FALSE, born |-> "none"]

(* A new host, or one where an older release ran, which kept the password  *)
(* in the file, knew no settings and counted whole cores.                  *)
Init ==
  /\ \/ file = None
     \/ \E origin \in {"none", "old", "this"}, subnet \in Subnets, legacy \in BOOLEAN :
          file = [Default EXCEPT !.subnet = subnet, !.installed = origin, !.legacy = legacy,
                                 !.born = IF origin = "this" THEN "this" ELSE "old"]
  /\ db = [snapshot |-> None, v4 |-> None, hash |-> None, scale |-> 0, version |-> 0]
  /\ host = [main |-> None, ndp |-> None, traefik |-> FALSE]
  /\ rules = [u \in Users |-> None]
  /\ panel = None
  /\ command = [c \in Commands |-> None]
  /\ begun = 0
  /\ past = IF file # None /\ file.legacy THEN {"legacy"} ELSE {}

-----------------------------------------------------------------------------
Idle(c) == command[c] = None
Busy == {c \in Commands : ~Idle(c)}
At(c, step) == c \in Busy /\ command[c].at = step
Is(c, req) == c \in Busy /\ command[c].req = req

(* Commands that write the policy, or are decided by it.                   *)
Policy(req) == req \in {"install", "set", "note", "add", "panelAdd"}

(* The values that the immutable fields have anywhere.                     *)
Held ==
  {r.subnet : r \in ({file, panel} \cup {command[c].cfg : c \in Busy}) \cap Record}
    \cup ({db.snapshot, host.main, host.ndp} \ {None})

(* A command begins with the record it has read.                           *)
Begin(c, req, at, cfg, apply, user) ==
  LET others == {d \in Busy : Policy(command[d].req) /\ Policy(req)}
      new == [req |-> req, at |-> at, cfg |-> cfg, apply |-> apply, met |-> others # {},
              user |-> user]
  IN /\ Idle(c) /\ begun < MaxCommands
     /\ begun' = begun + 1
     /\ command' = [d \in Commands |-> IF d = c THEN new
                                       ELSE IF d \in others THEN [command[d] EXCEPT !.met = TRUE]
                                       ELSE command[d]]
     /\ past' = past \cup (IF others # {} THEN {"policy"} ELSE {})
                     \cup (IF file = Torn /\ req # "passwd" THEN {"torn"} ELSE {})
                     \cup (IF cfg # None /\ Held \ {cfg.subnet} # {} THEN {"edited"} ELSE {})

(* c reaches a step that another is about to take as well.                 *)
Meet(c, step) ==
  /\ command' = [command EXCEPT ![c].at = step]
  /\ past' = IF \E d \in Commands \ {c} : At(d, step) THEN past \cup {step} ELSE past
  /\ UNCHANGED begun

Goto(c, step) == command' = [command EXCEPT ![c].at = step] /\ UNCHANGED <<begun, past>>
Finish(c) == command' = [command EXCEPT ![c] = None] /\ UNCHANGED <<begun, past>>
(* Ends where it was, its policy saved or applied in part.                 *)
GiveUp(c) == /\ command' = [command EXCEPT ![c] = None]
             /\ past' = past \cup (IF Policy(command[c].req) THEN {"policy"} ELSE {})
             /\ UNCHANGED begun
Fails(c) == "step" \in Faults /\ GiveUp(c)

-----------------------------------------------------------------------------
(* ver.Blocked on the origin that blockUnadoptable finds.                  *)
Origin(cfg) == IF cfg.installed # "none" THEN cfg.installed ELSE cfg.uninstalled

(* Mutant: a record of an unknown origin passes.                           *)
BlockedIfOld(cfg) == Origin(cfg) = "old"

Blocked(cfg) == Origin(cfg) \in {"none", "old"}

(* cfg.Load, with what the environment of an installer may override.       *)
Loaded == IF file = Torn THEN Default ELSE file

InstallNew(c) ==
  /\ file = None
  /\ \E subnet \in Subnets, v4 \in BOOLEAN :
       Begin(c, "install", "truncate",
             [Default EXCEPT !.subnet = subnet, !.v4 = v4, !.installed = "this", !.born = "this"],
             TRUE, None)
  /\ UNCHANGED <<file, db, host, rules, panel>>

InstallAdopt(c) ==
  /\ file # None /\ ~Blocked(Loaded)
  /\ \E subnet \in Subnets, v4 \in BOOLEAN :
       Begin(c, "install", "truncate",
             [Loaded EXCEPT !.subnet = subnet, !.v4 = v4, !.installed = "this"], TRUE, None)
  /\ UNCHANGED <<file, db, host, rules, panel>>

(* configSet of net.v4_forward, applied or with --no-apply; it looks at no *)
(* origin. The prompt may take as long as the operator likes.              *)
ConfigSet(c) ==
  /\ file # None
  /\ \E apply \in BOOLEAN :
       Begin(c, "set", "truncate", [Loaded EXCEPT !.v4 = ~@], apply, None)
  /\ UNCHANGED <<file, db, host, rules, panel>>

(* cmdNoteVersion, by the uninstaller of this release, which stops the     *)
(* panel first.                                                            *)
NoteVersion(c) ==
  /\ file # None
  /\ Begin(c, "note", "truncate", [Loaded EXCEPT !.uninstalled = "this"], FALSE, None)
  /\ panel' = None
  /\ UNCHANGED <<file, db, host, rules>>

(* cfg.Save is os.WriteFile: the file is emptied, then written.            *)
Truncate(c) ==
  /\ At(c, "truncate") \/ At(c, "dropTruncate")
  /\ \/ file' = Torn /\ Goto(c, IF At(c, "truncate") THEN "write" ELSE "dropWrite")
     \/ Fails(c) /\ UNCHANGED file
  /\ UNCHANGED <<db, host, rules, panel>>

(* A version noted on a record that an older release wrote.                *)
Noted(c) == Is(c, "note") /\ command[c].cfg.born # "this" /\ command[c].cfg.installed = "none"

Write(c) ==
  /\ At(c, "write")
  /\ LET r == command[c]
         next == IF r.apply THEN [r EXCEPT !.at = "open"] ELSE None
     IN /\ file' = r.cfg
        /\ command' = [command EXCEPT ![c] = next]
        /\ past' = past \cup (IF Noted(c) THEN {"origin"} ELSE {})
                          \cup (IF next = None /\ r.req = "set" THEN {"policy"} ELSE {})
  /\ UNCHANGED <<db, host, rules, panel, begun>>

-----------------------------------------------------------------------------
(* db.Open: the version is read outside the transaction that scales.       *)
AfterOpen(req) == CASE req = "install" -> "snapshot"
                    [] req = "set" -> "rules"
                    [] req = "passwd" -> "hash"
                    [] req = "reapply" -> "rewire"
                    [] OTHER -> req

Open(c) ==
  /\ At(c, "open")
  /\ IF db.version = 0 THEN Meet(c, "migrate") ELSE Goto(c, AfterOpen(command[c].req))
  /\ UNCHANGED <<file, db, host, rules, panel>>

Scaled == IF db.scale = 2 THEN 2 ELSE db.scale + 1

(* Mutant: the version is written after the transaction, or not at all.    *)
MigrateInTwo(c) ==
  /\ At(c, "migrate")
  /\ \/ db' = [db EXCEPT !.scale = Scaled, !.version = 1] /\ Goto(c, AfterOpen(command[c].req))
     \/ db' = [db EXCEPT !.scale = Scaled] /\ "crash" \in Faults /\ GiveUp(c)
  /\ UNCHANGED <<file, host, rules, panel>>

MigrateCPU(c) ==
  /\ At(c, "migrate")
  /\ \/ /\ db' = [db EXCEPT !.scale = Scaled, !.version = 1]
        /\ Goto(c, AfterOpen(command[c].req))
     \/ Fails(c) /\ UNCHANGED db
  /\ UNCHANGED <<file, host, rules, panel>>

-----------------------------------------------------------------------------
(* Mutant: immutable fields that changed are frozen anew.                  *)
SnapshotOverwritten(c) ==
  /\ At(c, "snapshot")
  /\ Goto(c, "freeze")
  /\ UNCHANGED <<file, db, host, rules, panel>>

(* The install goes on with the record it has saved.                       *)
Snapshot(c) ==
  /\ At(c, "snapshot")
  /\ CASE db.snapshot = None -> Meet(c, "freeze")
       [] db.snapshot = command[c].cfg.subnet -> Goto(c, "wire")
       [] OTHER -> GiveUp(c)
  /\ UNCHANGED <<file, db, host, rules, panel>>

Freeze(c) ==
  /\ At(c, "freeze")
  /\ \/ db' = [db EXCEPT !.snapshot = command[c].cfg.subnet] /\ Goto(c, "wire")
     \/ Fails(c) /\ UNCHANGED db
  /\ UNCHANGED <<file, host, rules, panel>>

(* The bridge and everybody's NDP rules, by a command's record. A failure  *)
(* may come before or after.                                               *)
Rewired(c) == [host EXCEPT !.ndp = command[c].cfg.subnet]
Rewires(c) == host' = Rewired(c)
HalfRewired(c) == Fails(c) /\ host' \in {host, Rewired(c)}

(* RewireAllIPv6 to EnsureRoutedIPv6.                                      *)
Wire(c) ==
  /\ At(c, "wire")
  /\ \/ Rewires(c) /\ Goto(c, "main")
     \/ HalfRewired(c)
  /\ UNCHANGED <<file, db, rules, panel>>

(* fw.WriteMain to systemctl enable --now: only an install generates the   *)
(* main file. A panel that runs is left alone; one that does not starts as *)
(* `vps serve`, on its own (Serve).                                        *)
WriteMain(c) ==
  /\ At(c, "main")
  /\ \/ host' = [host EXCEPT !.main = command[c].cfg.subnet] /\ Goto(c, "rules")
     \/ Fails(c) /\ host' \in {host, [host EXCEPT !.main = command[c].cfg.subnet]}
  /\ UNCHANGED <<file, db, rules, panel>>

-----------------------------------------------------------------------------
(* ApplyV4State, of an install and of config set.                          *)
ApplyRules(c) ==
  /\ At(c, "rules")
  /\ \E done \in SUBSET Users :
       /\ rules' = [u \in Users |-> IF u \in done /\ rules[u] # None THEN command[c].cfg.v4
                                   ELSE rules[u]]
       /\ \/ done = Users /\ Goto(c, "setting")
          \/ Fails(c)
  /\ UNCHANGED <<file, db, host, panel>>

ApplySetting(c) ==
  /\ At(c, "setting")
  /\ \/ db' = [db EXCEPT !.v4 = command[c].cfg.v4] /\ Goto(c, "traefik")
     \/ Fails(c) /\ UNCHANGED db
  /\ UNCHANGED <<file, host, rules, panel>>

(* The end of a config set; an undisturbed one has put all in agreement.   *)
Agreed(c) == IF command[c].met THEN past ELSE past \ {"policy"}

(* Mutant: traefik is started but never stopped.                           *)
ApplyTraefikOn(c) ==
  /\ At(c, "traefik")
  /\ host' = [host EXCEPT !.traefik = @ \/ command[c].cfg.v4]
  /\ command' = [command EXCEPT ![c] = IF @.req = "set" THEN None ELSE [@ EXCEPT !.at = "legacy"]]
  /\ past' = Agreed(c)
  /\ UNCHANGED <<file, db, rules, panel, begun>>

ApplyTraefik(c) ==
  /\ At(c, "traefik")
  /\ \/ /\ host' = [host EXCEPT !.traefik = command[c].cfg.v4]
        /\ command' = [command EXCEPT ![c] = IF @.req = "set" THEN None
                                             ELSE [@ EXCEPT !.at = "legacy"]]
        /\ past' = Agreed(c)
     \/ Fails(c) /\ host' \in {host, [host EXCEPT !.traefik = command[c].cfg.v4]}
  /\ UNCHANGED <<file, db, rules, panel, begun>>

-----------------------------------------------------------------------------
(* Mutant: the file loses the hash before the database has it.             *)
LegacyLate(c) ==
  /\ At(c, "legacy")
  /\ IF command[c].cfg.legacy
     THEN command' = [command EXCEPT ![c].at = "dropTruncate", ![c].cfg.legacy = FALSE]
     ELSE command' = [command EXCEPT ![c].at = "admin"]
  /\ UNCHANGED <<file, db, host, rules, panel, past, begun>>

(* Mutant: a password that is already set is not looked for.               *)
LegacyAlways(c) ==
  /\ At(c, "legacy")
  /\ Goto(c, IF command[c].cfg.legacy THEN "move" ELSE "admin")
  /\ UNCHANGED <<file, db, host, rules, panel>>

(* A hash in the file moves to the settings once, unless they have one.    *)
Legacy(c) ==
  /\ At(c, "legacy")
  /\ CASE ~command[c].cfg.legacy -> Goto(c, "admin")
       [] db.hash = None -> Meet(c, "move")
       [] OTHER -> Goto(c, "dropTruncate")
  /\ UNCHANGED <<file, db, host, rules, panel>>

Move(c) ==
  /\ At(c, "move")
  /\ \/ db' = [db EXCEPT !.hash = "legacy"] /\ Goto(c, "dropTruncate")
     \/ Fails(c) /\ UNCHANGED db
  /\ UNCHANGED <<file, host, rules, panel>>

DropWrite(c) ==
  /\ At(c, "dropWrite")
  /\ file' = [command[c].cfg EXCEPT !.legacy = FALSE]
  /\ Goto(c, "admin")
  /\ UNCHANGED <<db, host, rules, panel>>

(* A new installation generates a password and shows it.                   *)
AdminCheck(c) ==
  /\ At(c, "admin")
  /\ IF db.hash = None THEN Goto(c, "init") ELSE Finish(c)
  /\ UNCHANGED <<file, db, host, rules, panel>>

(* Init of the password, and `vps admin-passwd`.                           *)
SetHash(c) ==
  /\ At(c, "init") \/ At(c, "hash")
  /\ \/ /\ db' = [db EXCEPT !.hash = "new"]
        /\ command' = [command EXCEPT ![c] = None]
        /\ past' = IF \E d \in Commands : At(d, "move") THEN past \cup {"move"} ELSE past
     \/ Fails(c) /\ UNCHANGED db
  /\ UNCHANGED <<file, host, rules, panel, begun>>

AdminPasswd(c) ==
  /\ file # None
  /\ Begin(c, "passwd", "open", None, FALSE, None)
  /\ UNCHANGED <<file, db, host, rules, panel>>

-----------------------------------------------------------------------------
(* cmdServe: the panel keeps the record it starts with. It compares no     *)
(* snapshot.                                                               *)
Serve(c) ==
  /\ panel = None /\ file # None /\ ~Blocked(Loaded)
  /\ ~\E d \in Commands : Is(d, "serve")
  /\ Begin(c, "serve", "open", Loaded, FALSE, None)
  /\ UNCHANGED <<file, db, host, rules, panel>>

(* Mutant: the file is read a second time, whatever it is by then.         *)
ServedAnew(c) ==
  /\ At(c, "serve")
  /\ panel' = file
  /\ Finish(c)
  /\ UNCHANGED <<file, db, host, rules>>

Served(c) ==
  /\ At(c, "serve")
  /\ panel' = command[c].cfg
  /\ Finish(c)
  /\ UNCHANGED <<file, db, host, rules>>

(* cmdIPv6Reapply, at each boot: no origin and no snapshot is looked at.   *)
Reapply(c) ==
  /\ file # None
  /\ Begin(c, "reapply", "open", Loaded, FALSE, None)
  /\ UNCHANGED <<file, db, host, rules, panel>>

Reapplied(c) ==
  /\ At(c, "rewire")
  /\ \/ Rewires(c) /\ Finish(c)
     \/ HalfRewired(c)
  /\ UNCHANGED <<file, db, rules, panel>>

(* Add, by a command that has just read the file or by the panel: the user *)
(* is served by the policy of that record, minutes later.                  *)
Add(c, u) ==
  /\ rules[u] = None /\ \A d \in Busy : command[d].user # u
  /\ \/ file # None /\ Begin(c, "add", "open", Loaded, FALSE, u)
     \/ panel # None /\ Begin(c, "panelAdd", "add", panel, FALSE, u)
  /\ UNCHANGED <<file, db, host, rules, panel>>

(* The panel's record may be from before the last change of the policy. An *)
(* Add that fails renders the NDP rules once more to roll back.            *)
Added(c) ==
  /\ At(c, "add")
  /\ LET v4 == command[c].cfg.v4
     IN \/ /\ rules' = [rules EXCEPT ![command[c].user] = v4]
           /\ command' = [command EXCEPT ![c] = None]
           /\ past' = IF Is(c, "panelAdd") /\ v4 # db.v4 THEN past \cup {"policy"} ELSE past
           /\ Rewires(c) /\ UNCHANGED begun
        \/ HalfRewired(c) /\ UNCHANGED rules
  /\ UNCHANGED <<file, db, panel>>

(* Del, by either, with the record that either has; UnwireIPv6's error is  *)
(* dropped.                                                                *)
Del(c, u) ==
  /\ rules[u] # None /\ \A d \in Busy : command[d].user # u
  /\ \/ file # None /\ Begin(c, "del", "open", Loaded, FALSE, u)
     \/ panel # None /\ Begin(c, "panelDel", "del", panel, FALSE, u)
  /\ UNCHANGED <<file, db, host, rules, panel>>

Deleted(c) ==
  /\ At(c, "del")
  /\ \/ rules' = [rules EXCEPT ![command[c].user] = None] /\ Finish(c)
     \/ Fails(c) /\ UNCHANGED rules
  /\ host' \in {host, Rewired(c)}
  /\ UNCHANGED <<file, db, panel>>

-----------------------------------------------------------------------------
(* A process dies, the panel's included; an operator edits a field that is *)
(* fixed at install.                                                       *)
Crash(c) ==
  /\ "crash" \in Faults /\ c \in Busy
  /\ command' = [command EXCEPT ![c] = None]
  /\ past' = past \cup (IF Policy(command[c].req) THEN {"policy"} ELSE {})
                  \cup (IF At(c, "write") \/ At(c, "dropWrite") THEN {"torn"} ELSE {})
  /\ UNCHANGED <<file, db, host, rules, panel, begun>>

PanelStops ==
  /\ "crash" \in Faults /\ panel # None
  /\ panel' = None
  /\ UNCHANGED <<file, db, host, rules, command, past, begun>>

Edit ==
  /\ "edit" \in Faults /\ file \in Record
  /\ begun < MaxCommands /\ begun' = begun + 1
  /\ \E subnet \in Subnets \ {file.subnet} : file' = [file EXCEPT !.subnet = subnet]
  /\ past' = past \cup {"edited"}
  /\ UNCHANGED <<db, host, rules, panel, command>>

Next ==
  \/ \E c \in Commands :
       \/ InstallNew(c) \/ InstallAdopt(c) \/ ConfigSet(c) \/ NoteVersion(c) \/ AdminPasswd(c)
       \/ Truncate(c) \/ Write(c) \/ Open(c) \/ MigrateCPU(c) \/ Snapshot(c) \/ Freeze(c)
       \/ Wire(c) \/ WriteMain(c) \/ ApplyRules(c) \/ ApplySetting(c) \/ ApplyTraefik(c)
       \/ Legacy(c) \/ Move(c) \/ DropWrite(c) \/ AdminCheck(c) \/ SetHash(c)
       \/ Serve(c) \/ Served(c) \/ Reapply(c) \/ Reapplied(c)
       \/ Added(c) \/ Deleted(c) \/ Crash(c)
       \/ \E u \in Users : Add(c, u) \/ Del(c, u)
  \/ PanelStops
  \/ Edit

Spec == Init /\ [][Next]_vars

-----------------------------------------------------------------------------
(* A panel runs, and an install generates the host's configuration, only on*)
(* data of this release, however the file got torn, overwritten or noted:  *)
(* except that an uninstaller of this release signs whatever record it     *)
(* finds. No other command looks at the origin: the boot unit and the      *)
(* command line's Adds and Dels open, migrate and wire what they find.     *)
NeverAdoptsOld ==
  \A c \in Commands :
    (At(c, "wire") => command[c].cfg.born = "this" \/ "origin" \in past)
    /\ (panel # None => panel.born = "this" \/ "origin" \in past)

(* The firewall's main file comes from the immutable fields as they were   *)
(* frozen, whatever was edited since and however installs were cut short:  *)
(* unless two first installs froze at once. The bridge and the NDP rules   *)
(* are rendered from the live record at each boot, Add and Del, which no   *)
(* snapshot is compared with: they agree with the frozen fields as long as *)
(* these never had a second value, that of a file read half-written        *)
(* included.                                                               *)
WiredAsSnapshotted ==
  /\ host.main # None /\ "freeze" \notin past => host.main = db.snapshot
  /\ host.ndp # None /\ db.snapshot # None /\ "edited" \notin past
     => host.ndp = db.snapshot

(* The password of an older release is never lost on its way from the file *)
(* to the database: unless a file was left, or read, half-written.         *)
HasLegacy(c) == At(c, "write") /\ command[c].cfg.legacy

AdminPassKept ==
  "legacy" \in past /\ "torn" \notin past =>
    \/ db.hash # None
    \/ file \in Record /\ file.legacy
    \/ \E c \in Commands : HasLegacy(c)

(* A password set with this release is never replaced by that of the file, *)
(* unless it was set while an install was moving the old one.              *)
PassNeverReverts ==
  [][db.hash = "new" /\ "move" \notin past => db'.hash # "legacy"]_vars

(* With no command at work, the file, the setting, traefik and every       *)
(* user's rules tell the same policy: unless a command failed half-way,    *)
(* saved without applying, met another, or the panel served a user by the  *)
(* record it had started with.                                             *)
PolicyAgrees ==
  db.v4 # None /\ "policy" \notin past /\ (\A c \in Busy : ~Policy(command[c].req)) =>
    /\ file \in Record /\ file.v4 = db.v4
    /\ host.traefik = db.v4
    /\ \A u \in Users : rules[u] \in {None, db.v4}

(* The CPU column is scaled once, in the transaction that bumps the        *)
(* version, whoever opens the database and dies: unless two met there.     *)
CpuScaledOnce == "migrate" \notin past => db.scale = db.version
=============================================================================
