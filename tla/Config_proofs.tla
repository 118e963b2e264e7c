--------------------------- MODULE Config_proofs ---------------------------
(***************************************************************************)
(* Proofs about Config, for any number of processes, commands and users    *)
(* and any failures: its types, and every property that is checked of it.  *)
(***************************************************************************)
EXTENDS Config, TLAPS

(* The steps a command can be at, by its kind.                             *)
InstallSteps == {"truncate", "write", "open", "migrate", "snapshot", "freeze", "wire", "main",
                 "rules", "setting", "traefik", "legacy", "move", "dropTruncate", "dropWrite",
                 "admin", "init"}
SetSteps == {"truncate", "write", "open", "migrate", "rules", "setting", "traefik"}

Shape(r) ==
  /\ r.req # "passwd" => r.cfg \in Record
  /\ r.req = "install" => r.at \in InstallSteps /\ r.apply
  /\ r.req = "set" => r.at \in SetSteps
  /\ r.req = "note" => r.at \in {"truncate", "write"} /\ ~r.apply
  /\ r.req = "passwd" => r.at \in {"open", "migrate", "hash"}
  /\ r.req = "serve" => r.at \in {"open", "migrate", "serve"}
  /\ r.req = "reapply" => r.at \in {"open", "migrate", "rewire"}
  /\ r.req = "add" => r.at \in {"open", "migrate", "add"}
  /\ r.req = "panelAdd" => r.at = "add"
  /\ r.req = "del" => r.at \in {"open", "migrate", "del"}
  /\ r.req = "panelDel" => r.at = "del"
  /\ r.req \in {"add", "panelAdd", "del", "panelDel"} => r.user \in Users

Shaped == \A c \in Busy : Shape(command[c])

(* Of two commands at one of the steps that happen once, past tells.       *)
Alone(step) == \A c, d \in Commands : At(c, step) /\ At(d, step) => c = d

Migration ==
  "migrate" \notin past =>
    /\ db.scale = db.version
    /\ Alone("migrate")
    /\ \A c \in Commands : At(c, "migrate") => db.version = 0

Freezing ==
  "freeze" \notin past =>
    /\ host.main # None => host.main = db.snapshot
    /\ Alone("freeze")
    /\ \A c \in Commands : At(c, "freeze") => db.snapshot = None
    /\ \A c \in Commands : At(c, "wire") \/ At(c, "main") => db.snapshot = command[c].cfg.subnet

(* As long as nobody edits them, the immutable fields have one value.      *)
Unedited == "edited" \notin past => \A s, t \in Held : s = t

Moving == "move" \notin past => \A c \in Commands : At(c, "move") => db.hash # "new"

(* A record that names this release is of this release, or of an           *)
(* uninstaller of this release that has yet to sign it.                    *)
Honest(r) == Origin(r) = "this" => r.born = "this"

Adoption ==
  "origin" \notin past =>
    /\ file \in Record => Honest(file)
    /\ panel # None => panel.born = "this"
    /\ \A c \in Busy :
         /\ command[c].req \in {"install", "serve"} => command[c].cfg.born = "this"
         /\ command[c].req = "set" => Honest(command[c].cfg)
         /\ command[c].req = "note" /\ command[c].cfg.installed # "none" => Honest(command[c].cfg)

(* Until the database has a password, whoever may write the file has that  *)
(* of the file.                                                            *)
Keeping ==
  "legacy" \in past =>
    /\ file # None
    /\ "torn" \notin past /\ db.hash = None =>
         /\ \/ file \in Record /\ file.legacy
            \/ file = Torn /\ \E c \in Commands : At(c, "write")
         /\ \A c \in Busy : command[c].req \in {"install", "set", "note"} => command[c].cfg.legacy
         /\ \A c \in Commands : ~At(c, "dropTruncate") /\ ~At(c, "dropWrite")

-----------------------------------------------------------------------------
(* What of the policy is in place when a command is at a step.             *)
RulesAgree(v4) == \A u \in Users : rules[u] \in {None, v4}
InPlace(v4) == db.v4 = v4 /\ host.traefik = v4 /\ RulesAgree(v4)
FileTells(v4) == file \in Record /\ file.v4 = v4

PolicyCommand(c) == c \in Busy /\ Policy(command[c].req)

Settled == /\ file \in Record \cup {None}
           /\ db.v4 # None => FileTells(db.v4) /\ InPlace(db.v4)

Beginnings == {"truncate", "write"}
Endings == {"legacy", "move", "dropTruncate", "dropWrite", "admin", "init"}

(* An install or a change of the policy that has met no other, and         *)
(* one of the rest when nothing is amiss.                                  *)
Applying(c) ==
  LET r == command[c] v4 == command[c].cfg.v4 IN
  /\ r.at \notin Beginnings \cup {"dropWrite"} => FileTells(v4)
  /\ r.at \in {"setting", "traefik"} \cup Endings => RulesAgree(v4)
  /\ r.at \in {"traefik"} \cup Endings => db.v4 = v4
  /\ r.at \in Endings => host.traefik = v4

Beside(c) ==
  LET v4 == command[c].cfg.v4 IN
  /\ command[c].req = "note" =>
       /\ db.v4 # None => db.v4 = v4 /\ InPlace(v4)
       /\ command[c].at = "truncate" => file \in Record
  /\ command[c].req = "add" => Settled /\ FileTells(v4)
  /\ command[c].req = "panelAdd" => Settled

Agreeing ==
  /\ \A c, d \in Commands : PolicyCommand(c) /\ PolicyCommand(d) /\ c # d => command[c].met
  /\ \A c \in Commands : PolicyCommand(c) /\ command[c].met => "policy" \in past
  /\ "policy" \notin past /\ (\A c \in Commands : ~PolicyCommand(c)) => Settled
  /\ \A c \in Commands : PolicyCommand(c) /\ ~command[c].met =>
       /\ command[c].req \in {"install", "set"} => Applying(c)
       /\ "policy" \notin past => Beside(c)

-----------------------------------------------------------------------------
(* What the steps do to the commands.                                      *)

(* c is a new command; the others are as they were, but for met.           *)
Like(r, q) ==
  /\ r # None /\ q # None
  /\ r.req = q.req /\ r.at = q.at /\ r.cfg = q.cfg /\ r.apply = q.apply /\ r.user = q.user
  /\ q.met => r.met

Other(c) == \A d \in Commands \ {c} :
              command[d] = command'[d] \/ Like(command'[d], command[d])

Begun(c) == Idle(c) /\ command'[c] \in Command /\ Shape(command'[c]) /\ Other(c)

(* c goes on, or ends; the others stay.                                    *)
Same(c) == \A d \in Commands \ {c} : command'[d] = command[d]

GoneOn(c) ==
  /\ c \in Busy /\ Same(c)
  /\ command'[c] \in Command /\ Shape(command'[c])
  /\ command'[c] = [command[c] EXCEPT !.at = command'[c].at]

Ended(c) == c \in Busy /\ Same(c) /\ command'[c] = None

LEMMA BusyTypes ==
  ASSUME TypeOK, NEW c \in Busy
  PROVE  c \in Commands /\ command[c] \in Command /\ command[c] # None
BY DEF TypeOK, Busy, Idle

LEMMA LoadedRecord ==
  ASSUME TypeOK, file # None
  PROVE  Loaded \in Record
<1>1. Default \in Record
  BY DEF Default, Record, Subnets, Versions
<1>. QED
  BY <1>1 DEF Loaded, TypeOK

Kinds == {"install", "set", "note", "passwd", "serve", "reapply", "add", "panelAdd", "del",
          "panelDel"}

LEMMA BeginBegins ==
  ASSUME TypeOK, NEW c \in Commands, NEW req \in Kinds, NEW at \in Steps,
         NEW cfg \in Record \cup {None}, NEW apply \in BOOLEAN, NEW user \in Users \cup {None},
         Begin(c, req, at, cfg, apply, user)
  PROVE  /\ Idle(c) /\ Other(c)
         /\ command' \in [Commands -> Command \cup {None}]
         /\ command'[c] \in Command /\ command'[c].req = req /\ command'[c].at = at
         /\ command'[c].cfg = cfg /\ command'[c].apply = apply /\ command'[c].user = user
         /\ command'[c].met <=> \E d \in Busy : Policy(command[d].req) /\ Policy(req)
         /\ begun' \in 0..MaxCommands /\ past' \subseteq Events
<1>. DEFINE others == {d \in Busy : Policy(command[d].req) /\ Policy(req)}
            new == [req |-> req, at |-> at, cfg |-> cfg, apply |-> apply, met |-> others # {},
                    user |-> user]
<1>1. /\ Idle(c) /\ begun < MaxCommands /\ begun' = begun + 1
      /\ command' = [d \in Commands |-> IF d = c THEN new
                                        ELSE IF d \in others THEN [command[d] EXCEPT !.met = TRUE]
                                        ELSE command[d]]
      /\ past' = past \cup (IF others # {} THEN {"policy"} ELSE {})
                      \cup (IF file = Torn /\ req # "passwd" THEN {"torn"} ELSE {})
                      \cup (IF cfg # None /\ Held \ {cfg.subnet} # {} THEN {"edited"} ELSE {})
  BY DEF Begin
<1>2. new \in Command
  BY DEF Command, Kinds
<1>3. \A d \in others : [command[d] EXCEPT !.met = TRUE] \in Command /\ d \in Commands
                        /\ Like([command[d] EXCEPT !.met = TRUE], command[d])
  <2> TAKE d \in others
  <2>1. command[d] \in Command /\ d \in Commands /\ command[d] # None
    BY BusyTypes
  <2>2. [command[d] EXCEPT !.met = TRUE] \in Command
    BY <2>1 DEF Command
  <2>. QED
    BY <2>1, <2>2, NoneAssumption DEF Like, Command
<1>4. \A d \in Commands : command[d] \in Command \cup {None}
  BY DEF TypeOK
<1>. HIDE DEF new, others
<1>5. command' \in [Commands -> Command \cup {None}] /\ Other(c) /\ command'[c] = new
  BY <1>1, <1>2, <1>3, <1>4 DEF Other
<1>6. begun' \in 0..MaxCommands
  BY <1>1, BoundAssumption DEF TypeOK
<1>7. past' \subseteq Events
  BY <1>1 DEF TypeOK, Events
<1>8. new.met = (others # {})
  BY DEF new
<1>9. others # {} <=> \E d \in Busy : Policy(command[d].req) /\ Policy(req)
  BY DEF others
<1>10. /\ new.req = req /\ new.at = at /\ new.cfg = cfg /\ new.apply = apply /\ new.user = user
  BY DEF new
<1>. QED
  BY <1>1, <1>2, <1>5, <1>6, <1>7, <1>8, <1>9, <1>10

LEMMA StepGoesOn ==
  ASSUME TypeOK, NEW c \in Busy, NEW step \in Steps,
         command' = [command EXCEPT ![c].at = step]
  PROVE  /\ command' \in [Commands -> Command \cup {None}]
         /\ Same(c) /\ command'[c] \in Command
         /\ command'[c] = [command[c] EXCEPT !.at = step]
         /\ command'[c].at = step /\ command'[c].req = command[c].req
         /\ command'[c].cfg = command[c].cfg /\ command'[c].apply = command[c].apply
         /\ command'[c].met = command[c].met /\ command'[c].user = command[c].user
<1>1. c \in Commands /\ command[c] \in Command
  BY BusyTypes
<1>2. [command[c] EXCEPT !.at = step] \in Command
  BY <1>1 DEF Command
<1>3. command \in [Commands -> Command \cup {None}]
  BY DEF TypeOK
<1>4. command'[c] = [command[c] EXCEPT !.at = step]
  BY <1>1, <1>3
<1>5. /\ command'[c].at = step /\ command'[c].req = command[c].req
      /\ command'[c].cfg = command[c].cfg /\ command'[c].apply = command[c].apply
      /\ command'[c].met = command[c].met /\ command'[c].user = command[c].user
  BY <1>1, <1>4 DEF Command
<1>. QED
  BY <1>1, <1>2, <1>3, <1>4, <1>5 DEF Same

LEMMA StepEnds ==
  ASSUME TypeOK, NEW c \in Busy, command' = [command EXCEPT ![c] = None]
  PROVE  command' \in [Commands -> Command \cup {None}] /\ Ended(c)
<1>1. c \in Commands /\ command \in [Commands -> Command \cup {None}]
  BY BusyTypes DEF TypeOK
<1>. QED
  BY <1>1 DEF Ended, Same

-----------------------------------------------------------------------------
(* Types.                                                                  *)
CommandTypes == /\ command \in [Commands -> Command \cup {None}]
                /\ begun \in 0..MaxCommands
                /\ past \subseteq Events

OneMoves == (\E c \in Commands : Begun(c) \/ GoneOn(c) \/ Ended(c)) \/ command' = command

(* How a command of each kind begins.                                      *)
Opening(req, at, cfg, apply, user) ==
  \/ req = "install" /\ at = "truncate" /\ apply /\ cfg \in Record
  \/ req = "set" /\ at = "truncate" /\ cfg \in Record
  \/ req = "note" /\ at = "truncate" /\ ~apply /\ cfg \in Record
  \/ req = "passwd" /\ at = "open"
  \/ req = "serve" /\ at = "open" /\ cfg \in Record
  \/ req = "reapply" /\ at = "open" /\ cfg \in Record
  \/ req \in {"add", "del"} /\ at = "open" /\ cfg \in Record /\ user \in Users
  \/ req = "panelAdd" /\ at = "add" /\ cfg \in Record /\ user \in Users
  \/ req = "panelDel" /\ at = "del" /\ cfg \in Record /\ user \in Users

Opened(r) == Opening(r.req, r.at, r.cfg, r.apply, r.user)

LEMMA BeginShaped ==
  ASSUME TypeOK, NEW c \in Commands, NEW req \in Kinds, NEW at \in Steps,
         NEW cfg \in Record \cup {None}, NEW apply \in BOOLEAN, NEW user \in Users \cup {None},
         Begin(c, req, at, cfg, apply, user),
         Opening(req, at, cfg, apply, user)
  PROVE  CommandTypes' /\ Begun(c) /\ command'[c].at = at /\ Opened(command'[c])
<1>2. /\ Idle(c) /\ Other(c)
      /\ command' \in [Commands -> Command \cup {None}]
      /\ command'[c] \in Command /\ command'[c].req = req /\ command'[c].at = at
      /\ command'[c].cfg = cfg /\ command'[c].apply = apply /\ command'[c].user = user
      /\ begun' \in 0..MaxCommands /\ past' \subseteq Events
  BY BeginBegins
<1>3. Shape(command'[c])
  BY <1>2 DEF Opening, Shape, InstallSteps, SetSteps
<1>4. Opened(command'[c])
  BY <1>2 DEF Opened
<1>. QED
  BY <1>2, <1>3, <1>4 DEF CommandTypes, Begun

LEMMA BeginStep ==
  ASSUME TypeOK, NEW c \in Commands,
         \/ InstallNew(c) \/ InstallAdopt(c) \/ ConfigSet(c) \/ NoteVersion(c)
         \/ AdminPasswd(c) \/ Serve(c) \/ Reapply(c) \/ \E u \in Users : Add(c, u) \/ Del(c, u)
  PROVE  /\ CommandTypes' /\ Begun(c) /\ Opened(command'[c])
         /\ command'[c].at \in {"truncate", "open", "add", "del"}
<1>0. {"truncate", "open", "add", "del"} \subseteq Steps
  BY DEF Steps
<1>9. {"install", "set", "note", "passwd", "serve", "reapply", "add", "panelAdd", "del",
       "panelDel"} \subseteq Kinds
  BY DEF Kinds
<1>1. CASE InstallNew(c)
  <2>1. PICK subnet \in Subnets, v4 \in BOOLEAN :
          Begin(c, "install", "truncate",
                [Default EXCEPT !.subnet = subnet, !.v4 = v4, !.installed = "this",
                                !.born = "this"], TRUE, None)
    BY <1>1 DEF InstallNew
  <2>2. [Default EXCEPT !.subnet = subnet, !.v4 = v4, !.installed = "this", !.born = "this"]
          \in Record
    BY DEF Default, Record, Subnets, Versions
  <2>. QED
    BY <1>0, <1>9, <2>1, <2>2, BeginShaped DEF Opening
<1>2. CASE InstallAdopt(c)
  <2>1. PICK subnet \in Subnets, v4 \in BOOLEAN :
          Begin(c, "install", "truncate",
                [Loaded EXCEPT !.subnet = subnet, !.v4 = v4, !.installed = "this"], TRUE, None)
    BY <1>2 DEF InstallAdopt
  <2>2. [Loaded EXCEPT !.subnet = subnet, !.v4 = v4, !.installed = "this"] \in Record
    BY <1>2, LoadedRecord DEF InstallAdopt, Record, Subnets, Versions
  <2>. QED
    BY <1>0, <1>9, <2>1, <2>2, BeginShaped DEF Opening
<1>3. CASE ConfigSet(c)
  <2>1. PICK apply \in BOOLEAN :
          Begin(c, "set", "truncate", [Loaded EXCEPT !.v4 = ~@], apply, None)
    BY <1>3 DEF ConfigSet
  <2>2. [Loaded EXCEPT !.v4 = ~@] \in Record
    <3>1. Loaded \in Record
      BY <1>3, LoadedRecord DEF ConfigSet
    <3>2. \A v \in BOOLEAN : [Loaded EXCEPT !.v4 = v] \in Record
      BY <3>1 DEF Record
    <3>. QED
      BY <3>2
  <2>. QED
    BY <1>0, <1>9, <2>1, <2>2, BeginShaped DEF Opening
<1>4. CASE NoteVersion(c)
  <2>1. Begin(c, "note", "truncate", [Loaded EXCEPT !.uninstalled = "this"], FALSE, None)
    BY <1>4 DEF NoteVersion
  <2>2. [Loaded EXCEPT !.uninstalled = "this"] \in Record
    BY <1>4, LoadedRecord DEF NoteVersion, Record, Subnets, Versions
  <2>. QED
    BY <1>0, <1>9, <2>1, <2>2, BeginShaped DEF Opening
<1>5. CASE AdminPasswd(c)
  <2>1. Begin(c, "passwd", "open", None, FALSE, None)
    BY <1>5 DEF AdminPasswd
  <2>. QED
    BY <1>0, <1>9, <2>1, BeginShaped DEF Opening
<1>6. CASE Serve(c)
  <2>1. Begin(c, "serve", "open", Loaded, FALSE, None) /\ Loaded \in Record
    BY <1>6, LoadedRecord DEF Serve
  <2>. QED
    BY <1>0, <1>9, <2>1, BeginShaped DEF Opening
<1>7. CASE \E u \in Users : Add(c, u)
  <2>1. PICK u \in Users : Add(c, u)
    BY <1>7
  <2>2. CASE file # None /\ Begin(c, "add", "open", Loaded, FALSE, u)
    BY <1>0, <1>9, <2>2, LoadedRecord, BeginShaped DEF Opening
  <2>3. CASE panel # None /\ Begin(c, "panelAdd", "add", panel, FALSE, u)
    <3>1. panel \in Record
      BY <2>3 DEF TypeOK
    <3>. QED
      BY <1>0, <1>9, <2>3, <3>1, BeginShaped DEF Opening
  <2>. QED
    BY <2>1, <2>2, <2>3 DEF Add
<1>8. CASE \E u \in Users : Del(c, u)
  <2>1. PICK u \in Users : Del(c, u)
    BY <1>8
  <2>2. CASE file # None /\ Begin(c, "del", "open", Loaded, FALSE, u)
    BY <1>0, <1>9, <2>2, LoadedRecord, BeginShaped DEF Opening
  <2>3. CASE panel # None /\ Begin(c, "panelDel", "del", panel, FALSE, u)
    <3>1. panel \in Record
      BY <2>3 DEF TypeOK
    <3>. QED
      BY <1>0, <1>9, <2>3, <3>1, BeginShaped DEF Opening
  <2>. QED
    BY <2>1, <2>2, <2>3 DEF Del
<1>10. CASE Reapply(c)
  <2>1. Begin(c, "reapply", "open", Loaded, FALSE, None) /\ Loaded \in Record
    BY <1>10, LoadedRecord DEF Reapply
  <2>. QED
    BY <1>0, <1>9, <2>1, BeginShaped DEF Opening
<1>. QED
  BY <1>1, <1>2, <1>3, <1>4, <1>5, <1>6, <1>7, <1>8, <1>10

(* A command goes on, or ends, and tells what has happened.                *)
LEMMA GoOn ==
  ASSUME TypeOK, Shaped, NEW c \in Busy, NEW step \in Steps,
         command' = [command EXCEPT ![c].at = step],
         begun' = begun, past' \subseteq Events,
         command[c].req = "install" => step \in InstallSteps,
         command[c].req = "set" => step \in SetSteps,
         command[c].req = "note" => step = "write",
         command[c].req = "passwd" => step \in {"migrate", "hash"},
         command[c].req = "serve" => step \in {"migrate", "serve"},
         command[c].req = "reapply" => step \in {"migrate", "rewire"},
         command[c].req = "add" => step \in {"migrate", "add"},
         command[c].req = "del" => step \in {"migrate", "del"},
         command[c].req \notin {"panelAdd", "panelDel"}
  PROVE  CommandTypes' /\ GoneOn(c)
<1>1. /\ command' \in [Commands -> Command \cup {None}]
      /\ Same(c) /\ command'[c] \in Command
      /\ command'[c] = [command[c] EXCEPT !.at = step]
      /\ command'[c].at = step /\ command'[c].req = command[c].req
      /\ command'[c].cfg = command[c].cfg /\ command'[c].apply = command[c].apply
      /\ command'[c].met = command[c].met /\ command'[c].user = command[c].user
  BY StepGoesOn
<1>2. Shape(command[c])
  BY DEF Shaped
<1>3. Shape(command'[c])
  BY <1>1, <1>2 DEF Shape
<1>4. begun' \in 0..MaxCommands
  BY DEF TypeOK
<1>. QED
  BY <1>1, <1>3, <1>4 DEF GoneOn, CommandTypes

LEMMA End ==
  ASSUME TypeOK, NEW c \in Busy, command' = [command EXCEPT ![c] = None],
         begun' = begun, past' \subseteq Events
  PROVE  CommandTypes' /\ Ended(c)
BY StepEnds DEF CommandTypes, TypeOK

LEMMA Giving ==
  ASSUME TypeOK, NEW c \in Busy, GiveUp(c) \/ Finish(c) \/ Fails(c)
  PROVE  CommandTypes' /\ Ended(c)
<1>1. command' = [command EXCEPT ![c] = None] /\ begun' = begun /\ past' \subseteq Events
  BY DEF GiveUp, Finish, Fails, TypeOK, Events
<1>. QED
  BY <1>1, End

LEMMA Going ==
  ASSUME TypeOK, NEW c, NEW step \in {"migrate", "freeze", "move"},
         Goto(c, step) \/ Meet(c, step)
  PROVE  command' = [command EXCEPT ![c].at = step] /\ begun' = begun /\ past' \subseteq Events
BY DEF Goto, Meet, TypeOK, Events

LEMMA Goes ==
  ASSUME TypeOK, NEW c, NEW step, Goto(c, step)
  PROVE  command' = [command EXCEPT ![c].at = step] /\ begun' = begun /\ past' \subseteq Events
BY DEF Goto, TypeOK, Events

LEMMA StepNames ==
  /\ InstallSteps \subseteq Steps /\ SetSteps \subseteq Steps
  /\ {"hash", "serve", "add"} \subseteq Steps
BY DEF InstallSteps, SetSteps, Steps

(* Steps of one kind of command, or of several.                            *)
Continuing(c) ==
  \/ Truncate(c) \/ Write(c) \/ Open(c) \/ MigrateCPU(c) \/ Snapshot(c) \/ Freeze(c)
  \/ Wire(c) \/ WriteMain(c) \/ ApplyRules(c) \/ ApplySetting(c) \/ ApplyTraefik(c)
  \/ Legacy(c) \/ Move(c) \/ DropWrite(c) \/ AdminCheck(c) \/ SetHash(c)
  \/ Served(c) \/ Reapplied(c) \/ Added(c) \/ Deleted(c) \/ Crash(c)

LEMMA HalfFails ==
  ASSUME NEW c, HalfRewired(c)
  PROVE  Fails(c)
BY DEF HalfRewired

(* Only an install takes these steps, one after the other.                 *)
LEMMA InstallStep ==
  ASSUME TypeOK, Shaped, NEW c \in Commands,
         \/ Snapshot(c) \/ Freeze(c) \/ Wire(c) \/ WriteMain(c) \/ Legacy(c) \/ Move(c)
         \/ DropWrite(c) \/ AdminCheck(c)
  PROVE  CommandTypes' /\ (GoneOn(c) \/ Ended(c))
<1>1. /\ c \in Busy
      /\ command[c].at \in {"snapshot", "freeze", "wire", "main", "legacy", "move", "dropWrite",
                           "admin"}
  BY DEF Snapshot, Freeze, Wire, WriteMain, Legacy, Move, DropWrite, AdminCheck, At
<1>2. command[c] \in Command /\ Shape(command[c])
  BY <1>1, BusyTypes DEF Shaped
<1>3. command[c].req = "install"
  BY <1>1, <1>2 DEF Shape, Command, SetSteps
<1>4. ASSUME NEW step \in InstallSteps,
             command' = [command EXCEPT ![c].at = step], begun' = begun, past' \subseteq Events
      PROVE  CommandTypes' /\ GoneOn(c)
  BY <1>1, <1>3, <1>4, StepNames, GoOn
<1>5. \/ GiveUp(c) \/ Finish(c) \/ Fails(c)
      \/ \E step \in {"freeze", "move"} : Goto(c, step) \/ Meet(c, step)
      \/ \E step \in {"wire", "main", "rules", "dropTruncate", "admin", "init"} : Goto(c, step)
  <2>1. CASE Snapshot(c)
    BY <2>1 DEF Snapshot
  <2>2. CASE Freeze(c) \/ Wire(c) \/ WriteMain(c)
    BY <2>2, HalfFails DEF Freeze, Wire, WriteMain
  <2>3. CASE Legacy(c)
    BY <2>3 DEF Legacy
  <2>4. CASE Move(c) \/ DropWrite(c) \/ AdminCheck(c)
    BY <2>4 DEF Move, DropWrite, AdminCheck
  <2>. QED
    BY <2>1, <2>2, <2>3, <2>4
<1>6. CASE GiveUp(c) \/ Finish(c) \/ Fails(c)
  BY <1>1, <1>6, Giving
<1>7. CASE \E step \in {"freeze", "move"} : Goto(c, step) \/ Meet(c, step)
  <2>1. PICK step \in {"freeze", "move"} : Goto(c, step) \/ Meet(c, step)
    BY <1>7
  <2>2. step \in InstallSteps
    BY DEF InstallSteps
  <2>. QED
    BY <1>4, <2>1, <2>2, Going
<1>8. CASE \E step \in {"wire", "main", "rules", "dropTruncate", "admin", "init"} : Goto(c, step)
  <2>1. PICK step \in {"wire", "main", "rules", "dropTruncate", "admin", "init"} : Goto(c, step)
    BY <1>8
  <2>2. step \in InstallSteps
    BY DEF InstallSteps
  <2>. QED
    BY <1>4, <2>1, <2>2, Goes
<1>. QED
  BY <1>5, <1>6, <1>7, <1>8

LEMMA ApplyStep ==
  ASSUME TypeOK, Shaped, NEW c \in Commands,
         ApplyRules(c) \/ ApplySetting(c) \/ ApplyTraefik(c) \/ Truncate(c)
  PROVE  CommandTypes' /\ (GoneOn(c) \/ Ended(c))
<1>1. /\ c \in Busy
      /\ command[c].at \in {"truncate", "dropTruncate", "rules", "setting", "traefik"}
  BY DEF ApplyRules, ApplySetting, ApplyTraefik, Truncate, At
<1>2. command[c] \in Command /\ Shape(command[c])
  BY <1>1, BusyTypes DEF Shaped
<1>3. /\ command[c].req \in {"install", "set", "note"}
      /\ command[c].req # "install" => command[c].at # "dropTruncate"
      /\ command[c].req = "note" => command[c].at = "truncate"
  BY <1>1, <1>2 DEF Shape, Command, SetSteps
<1>4. CASE ApplyRules(c)
  <2>1. CASE Goto(c, "setting")
    BY <1>1, <1>3, <1>4, <2>1, Goes, GoOn DEF ApplyRules, At, InstallSteps, SetSteps, Steps
  <2>. QED
    BY <1>1, <1>4, <2>1, Giving DEF ApplyRules, At
<1>5. CASE ApplySetting(c)
  <2>1. CASE Goto(c, "traefik")
    BY <1>1, <1>3, <1>5, <2>1, Goes, GoOn DEF ApplySetting, At, InstallSteps, SetSteps, Steps
  <2>. QED
    BY <1>1, <1>5, <2>1, Giving DEF ApplySetting
<1>6. CASE Truncate(c)
  <2>1. CASE Goto(c, "write") /\ At(c, "truncate")
    BY <1>1, <1>3, <2>1, Goes, GoOn DEF At, InstallSteps, SetSteps, Steps
  <2>2. CASE Goto(c, "dropWrite") /\ At(c, "dropTruncate")
    BY <1>1, <1>3, <2>2, Goes, GoOn DEF At, InstallSteps, SetSteps, Steps
  <2>. QED
    BY <1>1, <1>6, <2>1, <2>2, Giving DEF Truncate
<1>7. CASE ApplyTraefik(c)
  <2>1. CASE Fails(c)
    BY <1>1, <2>1, Giving
  <2>2. CASE ~Fails(c)
    <3>1. /\ command' = [command EXCEPT ![c] = IF @.req = "set" THEN None
                                              ELSE [@ EXCEPT !.at = "legacy"]]
          /\ past' = Agreed(c) /\ begun' = begun /\ At(c, "traefik")
      BY <1>7, <2>2 DEF ApplyTraefik
    <3>2. past' \subseteq Events
      BY <3>1 DEF Agreed, TypeOK
    <3>3. CASE command[c].req = "set"
      BY <1>1, <3>1, <3>2, <3>3, End
    <3>4. CASE command[c].req = "install"
      <4>1. command' = [command EXCEPT ![c].at = "legacy"]
        BY <3>1, <3>4
      <4>. QED
        BY <1>1, <3>1, <3>2, <3>4, <4>1, GoOn DEF InstallSteps, Steps
    <3>. QED
      BY <1>3, <3>1, <3>3, <3>4 DEF At
  <2>. QED
    BY <2>1, <2>2
<1>. QED
  BY <1>4, <1>5, <1>6, <1>7

LEMMA OtherStep ==
  ASSUME TypeOK, Shaped, NEW c \in Commands,
         \/ Write(c) \/ Open(c) \/ MigrateCPU(c) \/ SetHash(c) \/ Served(c) \/ Reapplied(c)
         \/ Added(c) \/ Deleted(c) \/ Crash(c)
  PROVE  CommandTypes' /\ (GoneOn(c) \/ Ended(c))
<1>1. c \in Busy
  BY DEF Write, Open, MigrateCPU, SetHash, Served, Reapplied, Added, Deleted, Crash, At
<1>2. command[c] \in Command /\ Shape(command[c])
  BY <1>1, BusyTypes DEF Shaped
<1>3. CASE Write(c)
  <2>1. /\ command[c].at = "write" /\ begun' = begun
        /\ command' = [command EXCEPT ![c] = IF command[c].apply
                                            THEN [command[c] EXCEPT !.at = "open"] ELSE None]
        /\ past' \subseteq Events
    BY <1>3 DEF Write, At, TypeOK, Events
  <2>2. CASE command[c].apply
    <3>1. command' = [command EXCEPT ![c].at = "open"]
      BY <2>1, <2>2
    <3>2. command[c].req \in {"install", "set"}
      BY <1>2, <2>1, <2>2 DEF Shape, Command
    <3>. QED
      BY <1>1, <2>1, <3>1, <3>2, GoOn DEF InstallSteps, SetSteps, Steps
  <2>3. CASE ~command[c].apply
    BY <1>1, <2>1, <2>3, End
  <2>. QED
    BY <2>2, <2>3
<1>4. CASE Open(c) \/ MigrateCPU(c)
  <2>1. command[c].at \in {"open", "migrate"}
    BY <1>4 DEF Open, MigrateCPU, At
  <2>2. command[c].req \in {"install", "set", "passwd", "serve", "reapply", "add", "del"}
    BY <1>2, <2>1 DEF Shape, Command
  <2>3. \/ Goto(c, "migrate") \/ Meet(c, "migrate") \/ Goto(c, AfterOpen(command[c].req))
        \/ Fails(c)
    BY <1>4 DEF Open, MigrateCPU
  <2>4. CASE Goto(c, "migrate") \/ Meet(c, "migrate")
    BY <1>1, <2>2, <2>4, Going, GoOn DEF InstallSteps, SetSteps, Steps
  <2>5. CASE Goto(c, AfterOpen(command[c].req))
    <3>1. /\ command[c].req = "install" => AfterOpen(command[c].req) = "snapshot"
          /\ command[c].req = "set" => AfterOpen(command[c].req) = "rules"
          /\ command[c].req = "passwd" => AfterOpen(command[c].req) = "hash"
          /\ command[c].req = "reapply" => AfterOpen(command[c].req) = "rewire"
          /\ command[c].req \in {"serve", "add", "del"}
             => AfterOpen(command[c].req) = command[c].req
      BY DEF AfterOpen
    <3>. QED
      BY <1>1, <2>2, <2>5, <3>1, Goes, GoOn DEF InstallSteps, SetSteps, Steps
  <2>. QED
    BY <1>1, <2>3, <2>4, <2>5, Giving
<1>5. CASE SetHash(c)
  <2>1. CASE Fails(c)
    BY <1>1, <2>1, Giving
  <2>2. CASE ~Fails(c)
    BY <1>1, <1>5, <2>2, End DEF SetHash, TypeOK, Events
  <2>. QED
    BY <2>1, <2>2
<1>6. CASE Served(c)
  BY <1>1, <1>6, Giving DEF Served
<1>7. CASE Added(c)
  <2>1. CASE Fails(c)
    BY <1>1, <2>1, Giving
  <2>2. CASE ~Fails(c)
    BY <1>1, <1>7, <2>2, End, HalfFails DEF Added, TypeOK, Events
  <2>. QED
    BY <2>1, <2>2
<1>8. CASE Crash(c)
  BY <1>1, <1>8, End DEF Crash, TypeOK, Events
<1>9. CASE Reapplied(c) \/ Deleted(c)
  BY <1>1, <1>9, Giving, HalfFails DEF Reapplied, Deleted
<1>. QED
  BY <1>3, <1>4, <1>5, <1>6, <1>7, <1>8, <1>9

Beginning(c) ==
  \/ InstallNew(c) \/ InstallAdopt(c) \/ ConfigSet(c) \/ NoteVersion(c)
  \/ AdminPasswd(c) \/ Serve(c) \/ Reapply(c) \/ \E u \in Users : Add(c, u) \/ Del(c, u)

LEMMA NextSteps ==
  ASSUME Next
  PROVE  \/ \E c \in Commands : Beginning(c) \/ Continuing(c)
         \/ PanelStops \/ Edit
BY DEF Next, Beginning, Continuing

LEMMA CommandStep ==
  ASSUME TypeOK, Shaped, NEW c \in Commands
  PROVE  /\ Beginning(c) => CommandTypes' /\ Begun(c)
         /\ Continuing(c) => CommandTypes' /\ (GoneOn(c) \/ Ended(c))
BY BeginStep, InstallStep, ApplyStep, OtherStep DEF Beginning, Continuing

(* The shape of every command follows from that of the one that moved.     *)
LEMMA ShapeStep ==
  ASSUME TypeOK, Shaped, NEW c \in Commands, Begun(c) \/ GoneOn(c) \/ Ended(c)
  PROVE  Shaped'
<1>1. SUFFICES ASSUME NEW d \in Commands, command'[d] # None
               PROVE  Shape(command'[d])
  BY DEF Shaped, Busy, Idle
<1>2. CASE d = c
  BY <1>1, <1>2 DEF Begun, GoneOn, Ended
<1>3. CASE d # c /\ command'[d] = command[d]
  BY <1>1, <1>3 DEF Shaped, Busy, Idle
<1>4. CASE d # c /\ command'[d] # command[d]
  <2>1. Like(command'[d], command[d])
    BY <1>4 DEF Begun, GoneOn, Ended, Other, Same
  <2>2. Shape(command[d])
    BY <2>1 DEF Shaped, Busy, Idle, Like
  <2>. QED
    BY <2>1, <2>2 DEF Like, Shape
<1>. QED
  BY <1>2, <1>3, <1>4

DataTypes ==
  /\ file \in Record \cup {None, Torn}
  /\ db \in [snapshot : Subnets \cup {None}, v4 : BOOLEAN \cup {None}, hash : Hashes,
             scale : 0..2, version : 0..1]
  /\ host \in [main : Subnets \cup {None}, ndp : Subnets \cup {None}, traefik : BOOLEAN]
  /\ rules \in [Users -> BOOLEAN \cup {None}]
  /\ panel \in Record \cup {None}

LEMMA TypesApart ==
  /\ TypeOK <=> CommandTypes /\ DataTypes
  /\ TypeOK' <=> CommandTypes' /\ DataTypes'
BY DEF TypeOK, CommandTypes, DataTypes

(* Whoever is not at a step of `vps admin-passwd` holds a record.          *)
LEMMA Holds ==
  ASSUME TypeOK, Shaped, NEW c \in Busy, command[c].at \notin {"open", "migrate", "hash"}
  PROVE  /\ command[c].cfg \in Record
         /\ command[c].cfg.subnet \in Subnets
         /\ command[c].cfg.v4 \in BOOLEAN
         /\ \A v \in BOOLEAN : [command[c].cfg EXCEPT !.legacy = v] \in Record
<1>1. command[c] \in Command /\ Shape(command[c])
  BY BusyTypes DEF Shaped
<1>2. command[c].cfg \in Record
  BY <1>1 DEF Shape, Command
<1>. QED
  BY <1>2 DEF Record

LEMMA Migrated ==
  ASSUME NEW S, NEW V, NEW H, NEW n \in 0..2,
         NEW d \in [snapshot : S, v4 : V, hash : H, scale : 0..2, version : 0..1]
  PROVE  [d EXCEPT !.scale = n, !.version = 1]
           \in [snapshot : S, v4 : V, hash : H, scale : 0..2, version : 0..1]
<1>. DEFINE DB == [snapshot : S, v4 : V, hash : H, scale : 0..2, version : 0..1]
<1>1. [d EXCEPT !.scale = n] \in DB
  OBVIOUS
<1>2. \A e \in DB : [e EXCEPT !.version = 1] \in DB
  OBVIOUS
<1>3. [d EXCEPT !.scale = n, !.version = 1] = [[d EXCEPT !.scale = n] EXCEPT !.version = 1]
  OBVIOUS
<1>. QED
  BY <1>1, <1>2, <1>3, Zenon

LEMMA DataStep ==
  ASSUME TypeOK, Shaped, NEW c \in Commands, Beginning(c) \/ Continuing(c)
  PROVE  DataTypes'
<1>0. DataTypes
  BY TypesApart
<1>1. CASE Beginning(c)
  <2>1. UNCHANGED <<file, db, host, rules>> /\ panel' \in {panel, None}
    BY <1>1 DEF Beginning, InstallNew, InstallAdopt, ConfigSet, NoteVersion, AdminPasswd, Serve,
                  Reapply, Add, Del
  <2>. QED
    BY <1>0, <2>1 DEF DataTypes
<1>2. CASE Open(c) \/ Snapshot(c) \/ Legacy(c) \/ AdminCheck(c) \/ Crash(c)
  <2>1. UNCHANGED <<file, db, host, rules, panel>>
    BY <1>2 DEF Open, Snapshot, Legacy, AdminCheck, Crash
  <2>. QED
    BY <1>0, <2>1 DEF DataTypes
<1>3. CASE Truncate(c) \/ Write(c) \/ DropWrite(c)
  <2>1. CASE Truncate(c)
    BY <1>0, <2>1 DEF DataTypes, Truncate
  <2>2. CASE Write(c)
    BY <1>0, <2>2, Holds DEF DataTypes, Write, At
  <2>3. CASE DropWrite(c)
    BY <1>0, <2>3, Holds DEF DataTypes, DropWrite, At
  <2>. QED
    BY <1>3, <2>1, <2>2, <2>3
<1>4. CASE MigrateCPU(c) \/ Freeze(c) \/ ApplySetting(c) \/ Move(c) \/ SetHash(c)
  <2>1. UNCHANGED <<file, host, rules, panel>>
    BY <1>4 DEF MigrateCPU, Freeze, ApplySetting, Move, SetHash
  <2>2. CASE MigrateCPU(c)
    <3>1. /\ db \in [snapshot : Subnets \cup {None}, v4 : BOOLEAN \cup {None}, hash : Hashes,
                     scale : 0..2, version : 0..1]
          /\ db' = [db EXCEPT !.scale = Scaled, !.version = 1] \/ db' = db
      BY <1>0, <2>2 DEF DataTypes, MigrateCPU
    <3>2. Scaled \in 0..2
      BY <3>1 DEF Scaled
    <3>3. db' \in [snapshot : Subnets \cup {None}, v4 : BOOLEAN \cup {None}, hash : Hashes,
                  scale : 0..2, version : 0..1]
      <4>1. [db EXCEPT !.scale = Scaled, !.version = 1]
              \in [snapshot : Subnets \cup {None}, v4 : BOOLEAN \cup {None}, hash : Hashes,
                  scale : 0..2, version : 0..1]
        BY <3>1, <3>2, Migrated, Zenon
      <4>. QED
        BY <3>1, <4>1, Zenon
    <3>. QED
      BY <1>0, <2>1, <3>3 DEF DataTypes
  <2>3. CASE Freeze(c)
    BY <1>0, <2>3, Holds DEF DataTypes, Freeze, At
  <2>4. CASE ApplySetting(c)
    <3>1. command[c].cfg.v4 \in BOOLEAN
      BY <2>4, Holds DEF ApplySetting, At
    <3>. QED
      BY <1>0, <2>4, <3>1 DEF DataTypes, ApplySetting
  <2>5. CASE Move(c) \/ SetHash(c)
    BY <1>0, <2>5 DEF DataTypes, Move, SetHash, Hashes
  <2>. QED
    BY <1>0, <1>4, <2>1, <2>2, <2>3, <2>4, <2>5 DEF DataTypes
<1>5. CASE Wire(c) \/ WriteMain(c) \/ ApplyTraefik(c) \/ Reapplied(c) \/ Added(c) \/ Deleted(c)
  <2>1. UNCHANGED <<file, db, panel>>
    BY <1>5 DEF Wire, WriteMain, ApplyTraefik, Reapplied, Added, Deleted
  <2>2. c \in Busy /\ command[c].at \in {"wire", "main", "traefik", "rewire", "add", "del"}
    BY <1>5 DEF Wire, WriteMain, ApplyTraefik, Reapplied, Added, Deleted, At
  <2>3. command[c].cfg.v4 \in BOOLEAN /\ command[c].cfg.subnet \in Subnets
    BY <2>2, Holds
  <2>4. host' \in {host, [host EXCEPT !.ndp = command[c].cfg.subnet],
                  [host EXCEPT !.main = command[c].cfg.subnet],
                  [host EXCEPT !.traefik = command[c].cfg.v4]}
    BY <1>5 DEF Wire, WriteMain, ApplyTraefik, Reapplied, Added, Deleted, Rewires, HalfRewired,
                Rewired
  <2>5. host' \in [main : Subnets \cup {None}, ndp : Subnets \cup {None}, traefik : BOOLEAN]
    BY <1>0, <2>3, <2>4 DEF DataTypes
  <2>6. \/ rules' = rules
        \/ \E u : rules' \in {[rules EXCEPT ![u] = command[c].cfg.v4], [rules EXCEPT ![u] = None]}
    BY <1>5 DEF Wire, WriteMain, ApplyTraefik, Reapplied, Added, Deleted
  <2>7. rules' \in [Users -> BOOLEAN \cup {None}]
    BY <1>0, <2>3, <2>6 DEF DataTypes
  <2>. QED
    BY <1>0, <2>1, <2>5, <2>7 DEF DataTypes
<1>6. CASE ApplyRules(c)
  <2>1. UNCHANGED <<file, db, host, panel>>
    BY <1>6 DEF ApplyRules
  <2>2. command[c].cfg.v4 \in BOOLEAN
    BY <1>6, Holds DEF ApplyRules, At
  <2>3. rules' \in [Users -> BOOLEAN \cup {None}]
    BY <1>0, <1>6, <2>2 DEF DataTypes, ApplyRules
  <2>. QED
    BY <1>0, <2>1, <2>3 DEF DataTypes
<1>7. CASE Served(c)
  BY <1>0, <1>7, Holds DEF DataTypes, Served, At
<1>. QED
  BY <1>1, <1>2, <1>3, <1>4, <1>5, <1>6, <1>7 DEF Continuing

Typed == TypeOK /\ Shaped

LEMMA TypedStep ==
  ASSUME Typed, [Next]_vars
  PROVE  Typed'
<1>1. CASE \E c \in Commands : Beginning(c) \/ Continuing(c)
  BY <1>1, CommandStep, DataStep, ShapeStep, TypesApart DEF Typed
<1>2. CASE PanelStops
  <2>1. UNCHANGED <<file, db, host, rules, command, past, begun>> /\ panel' = None
    BY <1>2 DEF PanelStops
  <2>. QED
    BY <2>1 DEF Typed, TypeOK, Shaped, Busy, Idle
<1>3. CASE Edit
  <2>1. /\ UNCHANGED <<db, host, rules, panel, command>>
        /\ file' \in Record /\ begun < MaxCommands /\ begun' = begun + 1
        /\ past' = past \cup {"edited"}
    BY <1>3 DEF Edit, Record
  <2>2. begun' \in 0..MaxCommands /\ past' \subseteq Events
    BY <2>1, BoundAssumption DEF Typed, TypeOK, Events
  <2>. QED
    BY <2>1, <2>2 DEF Typed, TypeOK, Shaped, Busy, Idle
<1>4. CASE UNCHANGED vars
  BY <1>4 DEF vars, Typed, TypeOK, Shaped, Busy, Idle
<1>. QED
  BY <1>1, <1>2, <1>3, <1>4, NextSteps

LEMMA TypedInit ==
  ASSUME Init
  PROVE  Typed
<1>1. file \in Record \cup {None, Torn}
  BY DEF Init, Default, Record, Subnets, Versions
<1>0. /\ begun = 0 /\ panel = None /\ rules = [u \in Users |-> None]
      /\ db = [snapshot |-> None, v4 |-> None, hash |-> None, scale |-> 0, version |-> 0]
      /\ host = [main |-> None, ndp |-> None, traefik |-> FALSE]
  BY DEF Init
<1>2. begun \in 0..MaxCommands
  BY <1>0, BoundAssumption
<1>3. past \subseteq Events
  BY DEF Init, Events
<1>4. Busy = {} /\ command \in [Commands -> Command \cup {None}]
  BY DEF Init, Busy, Idle
<1>5. /\ db \in [snapshot : Subnets \cup {None}, v4 : BOOLEAN \cup {None}, hash : Hashes,
                scale : 0..2, version : 0..1]
      /\ host \in [main : Subnets \cup {None}, ndp : Subnets \cup {None}, traefik : BOOLEAN]
      /\ rules \in [Users -> BOOLEAN \cup {None}] /\ panel \in Record \cup {None}
  BY <1>0 DEF Hashes
<1>. QED
  BY <1>1, <1>2, <1>3, <1>4, <1>5 DEF Typed, TypeOK, Shaped

(* Every variable keeps its type, for any processes, users, bounds and     *)
(* failures (internal/cfg, and the commands of main.go that use it).       *)
THEOREM ConfigTypes == Spec => []TypeOK
<1>1. Typed => TypeOK
  BY DEF Typed
<1>. QED
  BY <1>1, TypedInit, TypedStep, PTL DEF Spec

-----------------------------------------------------------------------------
(* Where a command gets, and what becomes of the others.                   *)
LEMMA OthersStay ==
  ASSUME TypeOK, NEW c \in Commands, Begun(c) \/ GoneOn(c) \/ Ended(c),
         NEW d \in Commands \ {c}
  PROVE  /\ d \in Busy <=> d \in Busy'
         /\ \A step : At(d, step)' <=> At(d, step)
         /\ d \in Busy => /\ command'[d].req = command[d].req /\ command'[d].at = command[d].at
                          /\ command'[d].cfg = command[d].cfg
                          /\ command'[d].apply = command[d].apply
                          /\ (command[d].met => command'[d].met)
         /\ ~Begun(c) => command'[d] = command[d]
<1>1. CASE command'[d] = command[d]
  BY <1>1 DEF Busy, Idle, At
<1>2. CASE command'[d] # command[d]
  <2>1. Begun(c) /\ Like(command'[d], command[d])
    BY <1>2 DEF Begun, GoneOn, Ended, Other, Same
  <2>. QED
    BY <2>1 DEF Like, Busy, Idle, At
<1>. QED
  BY <1>1, <1>2

LEMMA GoesTo ==
  ASSUME TypeOK, NEW c \in Busy, NEW step \in Steps, Goto(c, step) \/ Meet(c, step)
  PROVE  c \in Busy' /\ command'[c].at = step
<1>1. command' = [command EXCEPT ![c].at = step]
  BY DEF Goto, Meet
<1>2. command'[c] \in Command /\ command'[c].at = step /\ c \in Commands
  BY <1>1, StepGoesOn, BusyTypes
<1>. QED
  BY <1>2, NoneAssumption DEF Busy, Idle

LEMMA GivesUp ==
  ASSUME TypeOK, NEW c \in Busy, GiveUp(c) \/ Finish(c) \/ Fails(c)
  PROVE  c \notin Busy' /\ command'[c] = None
<1>1. command' = [command EXCEPT ![c] = None]
  BY DEF GiveUp, Finish, Fails
<1>2. Ended(c)
  BY <1>1, StepEnds
<1>. QED
  BY <1>2 DEF Ended, Busy, Idle

(* The steps that lead to a step.                                          *)
LEMMA Arrival ==
  ASSUME Typed, NEW c \in Commands, Beginning(c) \/ Continuing(c), NEW step, At(c, step)'
  PROVE  \/ Beginning(c) /\ step \in {"truncate", "open", "add", "del"}
         \/ /\ Truncate(c) /\ Goto(c, step)
            /\ \/ At(c, "truncate") /\ step = "write"
               \/ At(c, "dropTruncate") /\ step = "dropWrite"
         \/ Write(c) /\ command[c].apply /\ step = "open"
         \/ Open(c) /\ Meet(c, step) /\ step = "migrate" /\ db.version = 0
         \/ /\ (Open(c) \/ MigrateCPU(c)) /\ Goto(c, step) /\ step = AfterOpen(command[c].req)
            /\ (MigrateCPU(c) => db' = [db EXCEPT !.scale = Scaled, !.version = 1])
         \/ Snapshot(c) /\ Meet(c, step) /\ step = "freeze" /\ db.snapshot = None
         \/ Snapshot(c) /\ Goto(c, step) /\ step = "wire" /\ db.snapshot = command[c].cfg.subnet
         \/ /\ Freeze(c) /\ Goto(c, step) /\ step = "wire"
            /\ db' = [db EXCEPT !.snapshot = command[c].cfg.subnet]
         \/ Wire(c) /\ Goto(c, step) /\ step = "main"
         \/ WriteMain(c) /\ Goto(c, step) /\ step = "rules"
         \/ /\ ApplyRules(c) /\ Goto(c, step) /\ step = "setting"
            /\ rules' = [u \in Users |-> IF rules[u] = None THEN None ELSE command[c].cfg.v4]
         \/ /\ ApplySetting(c) /\ Goto(c, step) /\ step = "traefik"
            /\ db' = [db EXCEPT !.v4 = command[c].cfg.v4]
         \/ /\ ApplyTraefik(c) /\ step = "legacy" /\ command[c].req # "set"
            /\ host' = [host EXCEPT !.traefik = command[c].cfg.v4] /\ past' = Agreed(c)
         \/ Legacy(c) /\ Goto(c, step) /\ step = "admin" /\ ~command[c].cfg.legacy
         \/ Legacy(c) /\ Meet(c, step) /\ step = "move" /\ db.hash = None
         \/ Legacy(c) /\ Goto(c, step) /\ step = "dropTruncate" /\ db.hash # None
         \/ Move(c) /\ Goto(c, step) /\ step = "dropTruncate" /\ db' = [db EXCEPT !.hash = "legacy"]
         \/ DropWrite(c) /\ Goto(c, step) /\ step = "admin"
         \/ AdminCheck(c) /\ Goto(c, step) /\ step = "init"
<1>1. c \in Busy' /\ command'[c].at = step
  BY DEF At
<1>0. TypeOK /\ Shaped
  BY DEF Typed
<1>2. ASSUME NEW to \in Steps, c \in Busy, Goto(c, to) \/ Meet(c, to)
      PROVE  to = step
  BY <1>0, <1>1, <1>2, GoesTo
<1>3. ASSUME c \in Busy, GiveUp(c) \/ Finish(c) \/ Fails(c)
      PROVE  FALSE
  BY <1>0, <1>1, <1>3, GivesUp
<1>4. ASSUME c \in Busy, command' = [command EXCEPT ![c] = None]
      PROVE  FALSE
  BY <1>0, <1>1, <1>4, StepEnds DEF Ended, Busy, Idle
<1>5. CASE Truncate(c)
  BY <1>2, <1>3, <1>5 DEF Truncate, At, Steps
<1>6. CASE Write(c)
  <2>1. /\ c \in Busy
        /\ command' = [command EXCEPT ![c] = IF command[c].apply
                                            THEN [command[c] EXCEPT !.at = "open"] ELSE None]
    BY <1>6 DEF Write, At
  <2>2. command[c].apply
    BY <1>4, <2>1
  <2>3. command' = [command EXCEPT ![c].at = "open"] /\ "open" \in Steps
    BY <2>1, <2>2 DEF Steps
  <2>4. step = "open"
    BY <1>0, <1>1, <2>1, <2>3, StepGoesOn
  <2>. QED
    BY <1>6, <2>2, <2>4
<1>7. CASE Open(c) \/ MigrateCPU(c)
  <2>1. c \in Busy /\ command[c].at \in {"open", "migrate"}
    BY <1>7 DEF Open, MigrateCPU, At
  <2>2. command[c].req \in {"install", "set", "passwd", "serve", "reapply", "add", "del"}
    BY <1>0, <2>1, BusyTypes DEF Shaped, Shape, Command
  <2>3. AfterOpen(command[c].req) \in Steps /\ "migrate" \in Steps
    BY <2>2 DEF AfterOpen, Steps
  <2>. QED
    BY <1>2, <1>3, <1>7, <2>1, <2>3 DEF Open, MigrateCPU
<1>8. CASE Snapshot(c) \/ Freeze(c)
  BY <1>2, <1>3, <1>8 DEF Snapshot, Freeze, At, Steps
<1>9. CASE Wire(c) \/ WriteMain(c) \/ ApplySetting(c)
  BY <1>2, <1>3, <1>9, HalfFails DEF Wire, WriteMain, ApplySetting, At, Steps
<1>15. CASE ApplyRules(c)
  <2>1. c \in Busy /\ ~Fails(c)
    BY <1>3, <1>15 DEF ApplyRules, At
  <2>2. /\ rules' = [u \in Users |-> IF u \in Users /\ rules[u] # None THEN command[c].cfg.v4
                                     ELSE rules[u]]
        /\ Goto(c, "setting")
    BY <1>15, <2>1 DEF ApplyRules
  <2>3. rules' = [u \in Users |-> IF rules[u] = None THEN None ELSE command[c].cfg.v4]
    BY <2>2
  <2>. QED
    BY <1>2, <1>15, <2>1, <2>2, <2>3 DEF Steps
<1>10. CASE ApplyTraefik(c)
  <2>1. c \in Busy /\ ~Fails(c)
    BY <1>3, <1>10 DEF ApplyTraefik, At
  <2>2. /\ command' = [command EXCEPT ![c] = IF command[c].req = "set" THEN None
                                            ELSE [command[c] EXCEPT !.at = "legacy"]]
        /\ host' = [host EXCEPT !.traefik = command[c].cfg.v4] /\ past' = Agreed(c)
    BY <1>10, <2>1 DEF ApplyTraefik
  <2>3. command[c].req # "set"
    BY <1>4, <2>1, <2>2
  <2>4. command' = [command EXCEPT ![c].at = "legacy"] /\ "legacy" \in Steps
    BY <2>2, <2>3 DEF Steps
  <2>5. step = "legacy"
    BY <1>0, <1>1, <2>1, <2>4, StepGoesOn
  <2>. QED
    BY <1>10, <2>2, <2>3, <2>5
<1>11. CASE Legacy(c) \/ Move(c)
  BY <1>2, <1>3, <1>11 DEF Legacy, Move, At, Steps
<1>12. CASE DropWrite(c) \/ AdminCheck(c)
  BY <1>2, <1>3, <1>12 DEF DropWrite, AdminCheck, At, Steps
<1>13. CASE \/ SetHash(c) \/ Served(c) \/ Reapplied(c) \/ Added(c) \/ Deleted(c) \/ Crash(c)
  BY <1>3, <1>4, <1>13, HalfFails DEF SetHash, Served, Reapplied, Added, Deleted, Crash, At
<1>14. CASE Beginning(c)
  <2>1. step \in {"truncate", "open", "add", "del"}
    BY <1>0, <1>1, <1>14, BeginStep DEF Beginning
  <2>. QED
    BY <1>14, <2>1
<1>. QED
  BY <1>5, <1>6, <1>7, <1>8, <1>9, <1>10, <1>11, <1>12, <1>13, <1>14, <1>15 DEF Continuing

LEMMA AfterOpening ==
  ASSUME Typed, NEW c \in Commands, Open(c) \/ MigrateCPU(c)
  PROVE  /\ \/ command[c].req = "install" /\ AfterOpen(command[c].req) = "snapshot"
            \/ command[c].req = "set" /\ AfterOpen(command[c].req) = "rules"
            \/ command[c].req = "passwd" /\ AfterOpen(command[c].req) = "hash"
            \/ command[c].req = "reapply" /\ AfterOpen(command[c].req) = "rewire"
            \/ command[c].req \in {"serve", "add", "del"}
               /\ AfterOpen(command[c].req) = command[c].req
         /\ AfterOpen(command[c].req) \in {"snapshot", "rules", "hash", "serve", "rewire", "add", "del"}
<1>1. c \in Busy /\ command[c].at \in {"open", "migrate"}
  BY DEF Open, MigrateCPU, At
<1>2. command[c].req \in {"install", "set", "passwd", "serve", "reapply", "add", "del"}
  BY <1>1, BusyTypes DEF Typed, Shaped, Shape, Command
<1>. QED
  BY <1>2 DEF AfterOpen

(* Who arrives at the steps that are taken once, and at the wiring.        *)
LEMMA ArrivesOnce ==
  ASSUME Typed, NEW c \in Commands, Beginning(c) \/ Continuing(c)
  PROVE  /\ At(c, "migrate")' => Meet(c, "migrate") /\ db.version = 0
         /\ At(c, "freeze")' => Meet(c, "freeze") /\ db.snapshot = None
         /\ At(c, "move")' => Meet(c, "move") /\ db.hash = None
         /\ At(c, "wire")' => \/ db.snapshot = command[c].cfg.subnet /\ Snapshot(c)
                              \/ db' = [db EXCEPT !.snapshot = command[c].cfg.subnet] /\ Freeze(c)
         /\ At(c, "main")' => Wire(c)
<1>1. ASSUME Open(c) \/ MigrateCPU(c)
      PROVE  AfterOpen(command[c].req) \notin {"migrate", "freeze", "move", "wire", "main"}
  BY <1>1, AfterOpening
<1>3. At(c, "migrate")' => Meet(c, "migrate") /\ db.version = 0
  BY <1>1, Arrival
<1>4. At(c, "freeze")' => Meet(c, "freeze") /\ db.snapshot = None
  BY <1>1, Arrival
<1>5. At(c, "move")' => Meet(c, "move") /\ db.hash = None
  BY <1>1, Arrival
<1>6. At(c, "wire")' => \/ db.snapshot = command[c].cfg.subnet /\ Snapshot(c)
                        \/ db' = [db EXCEPT !.snapshot = command[c].cfg.subnet] /\ Freeze(c)
  BY <1>1, Arrival
<1>7. At(c, "main")' => Wire(c)
  BY <1>1, Arrival
<1>. QED
  BY <1>3, <1>4, <1>5, <1>6, <1>7

(* Each datum is changed by the steps named after it.                      *)
LEMMA Frame ==
  ASSUME Typed, NEW c \in Commands, Beginning(c) \/ Continuing(c)
  PROVE  /\ ~MigrateCPU(c) => db'.scale = db.scale /\ db'.version = db.version
         /\ ~Freeze(c) => db'.snapshot = db.snapshot
         /\ ~ApplySetting(c) => db'.v4 = db.v4
         /\ ~Move(c) /\ ~SetHash(c) => db'.hash = db.hash
         /\ ~WriteMain(c) => host'.main = host.main
         /\ host'.ndp # host.ndp => /\ c \in Busy /\ host'.ndp = command[c].cfg.subnet
                                    /\ command[c].at \in {"wire", "rewire", "add", "del"}
         /\ ~ApplyTraefik(c) => host'.traefik = host.traefik
         /\ ~Truncate(c) /\ ~Write(c) /\ ~DropWrite(c) => file' = file
         /\ ~ApplyRules(c) /\ ~Added(c) /\ ~Deleted(c) => rules' = rules
         /\ ~NoteVersion(c) /\ ~Served(c) => panel' = panel
<1>0. /\ db \in [snapshot : Subnets \cup {None}, v4 : BOOLEAN \cup {None}, hash : Hashes,
                scale : 0..2, version : 0..1]
      /\ host \in [main : Subnets \cup {None}, ndp : Subnets \cup {None}, traefik : BOOLEAN]
  BY DEF Typed, TypeOK
<1>1. CASE Beginning(c)
  BY <1>1 DEF Beginning, InstallNew, InstallAdopt, ConfigSet, NoteVersion, AdminPasswd, Serve,
              Reapply, Add, Del
<1>2. CASE Open(c) \/ Snapshot(c) \/ Legacy(c) \/ AdminCheck(c) \/ Crash(c)
  BY <1>2 DEF Open, Snapshot, Legacy, AdminCheck, Crash
<1>3. CASE Truncate(c) \/ Write(c) \/ DropWrite(c)
  BY <1>3 DEF Truncate, Write, DropWrite
<1>4. CASE ApplyRules(c) \/ Served(c)
  BY <1>4 DEF ApplyRules, Served
<1>5. CASE Wire(c) \/ WriteMain(c) \/ ApplyTraefik(c) \/ Reapplied(c) \/ Added(c) \/ Deleted(c)
  <2>1. /\ UNCHANGED <<file, db, panel>> /\ c \in Busy
        /\ ~Added(c) /\ ~Deleted(c) => rules' = rules
    BY <1>5 DEF Wire, WriteMain, ApplyTraefik, Reapplied, Added, Deleted, At
  <2>2. CASE WriteMain(c)
    <3>1. host' \in {host, [host EXCEPT !.main = command[c].cfg.subnet]}
      BY <2>2 DEF WriteMain
    <3>. QED
      BY <1>0, <2>1, <2>2, <3>1
  <2>3. CASE ApplyTraefik(c)
    <3>1. host' \in {host, [host EXCEPT !.traefik = command[c].cfg.v4]}
      BY <2>3 DEF ApplyTraefik
    <3>. QED
      BY <1>0, <2>1, <2>3, <3>1
  <2>4. CASE Wire(c) \/ Reapplied(c) \/ Added(c) \/ Deleted(c)
    <3>1. host' \in {host, [host EXCEPT !.ndp = command[c].cfg.subnet]}
      BY <2>4 DEF Wire, Reapplied, Added, Deleted, Rewires, HalfRewired, Rewired
    <3>2. command[c].at \in {"wire", "rewire", "add", "del"}
      BY <2>4 DEF Wire, Reapplied, Added, Deleted, At
    <3>. QED
      BY <1>0, <2>1, <2>4, <3>1, <3>2
  <2>. QED
    BY <1>5, <2>2, <2>3, <2>4
<1>6. CASE MigrateCPU(c) \/ Freeze(c) \/ ApplySetting(c) \/ Move(c) \/ SetHash(c)
  <2>1. UNCHANGED <<file, host, rules, panel>>
    BY <1>6 DEF MigrateCPU, Freeze, ApplySetting, Move, SetHash
  <2>2. /\ MigrateCPU(c) => db' \in {db, [db EXCEPT !.scale = Scaled, !.version = 1]}
        /\ Freeze(c) => db' \in {db, [db EXCEPT !.snapshot = command[c].cfg.subnet]}
        /\ ApplySetting(c) => db' \in {db, [db EXCEPT !.v4 = command[c].cfg.v4]}
        /\ Move(c) \/ SetHash(c) => \E h : db' \in {db, [db EXCEPT !.hash = h]}
    BY DEF MigrateCPU, Freeze, ApplySetting, Move, SetHash
  <2>3. CASE MigrateCPU(c)
    <3>. DEFINE n == Scaled
    <3>1. db' \in {db, [db EXCEPT !.scale = n, !.version = 1]}
      BY <2>2, <2>3
    <3>. HIDE DEF n
    <3>. QED
      BY <1>0, <2>1, <2>3, <3>1
  <2>4. CASE Freeze(c)
    BY <1>0, <2>1, <2>2, <2>4
  <2>5. CASE ApplySetting(c)
    <3>1. db'.scale = db.scale /\ db'.version = db.version /\ db'.snapshot = db.snapshot
            /\ db'.hash = db.hash
      BY <1>0, <2>2, <2>5
    <3>. QED
      BY <2>1, <2>5, <3>1
  <2>6. CASE Move(c) \/ SetHash(c)
    BY <1>0, <2>1, <2>2, <2>6
  <2>. QED
    BY <1>6, <2>3, <2>4, <2>5, <2>6
<1>. QED
  BY <1>1, <1>2, <1>3, <1>4, <1>5, <1>6 DEF Continuing

(* Only what concerns the policy is ever forgotten.                        *)
LEMMA PastGrows ==
  ASSUME Typed, NEW c \in Commands, Beginning(c) \/ Continuing(c)
  PROVE  past \ {"policy"} \subseteq past'
<1>1. CASE Beginning(c)
  <2>1. \E req, at, cfg, apply, user : Begin(c, req, at, cfg, apply, user)
    BY <1>1 DEF Beginning, InstallNew, InstallAdopt, ConfigSet, NoteVersion, AdminPasswd, Serve,
                Reapply, Add, Del
  <2>. QED
    BY <2>1 DEF Begin
<1>2. ASSUME NEW step, Goto(c, step) \/ Meet(c, step) \/ Finish(c) \/ GiveUp(c) \/ Fails(c)
      PROVE  past \subseteq past'
  BY <1>2 DEF Goto, Meet, Finish, GiveUp, Fails
<1>3. CASE \/ Truncate(c) \/ Open(c) \/ MigrateCPU(c) \/ Snapshot(c) \/ Freeze(c)
           \/ Wire(c) \/ WriteMain(c) \/ ApplyRules(c) \/ ApplySetting(c) \/ Reapplied(c)
           \/ Deleted(c)
  BY <1>2, <1>3, HalfFails DEF Truncate, Open, MigrateCPU, Snapshot, Freeze, Wire, WriteMain,
                    ApplyRules, ApplySetting, Reapplied, Deleted
<1>4. CASE Legacy(c) \/ Move(c) \/ DropWrite(c) \/ AdminCheck(c) \/ Served(c)
  BY <1>2, <1>4 DEF Legacy, Move, DropWrite, AdminCheck, Served
<1>5. CASE Write(c) \/ Added(c) \/ Crash(c)
  BY <1>2, <1>5, HalfFails DEF Write, Added, Crash
<1>6. CASE SetHash(c)
  BY <1>2, <1>6 DEF SetHash
<1>7. CASE ApplyTraefik(c)
  BY <1>2, <1>7 DEF ApplyTraefik, Agreed
<1>. QED
  BY <1>1, <1>3, <1>4, <1>5, <1>6, <1>7 DEF Continuing

-----------------------------------------------------------------------------
(* The steps that are taken once.                                          *)
LEMMA Met ==
  ASSUME Typed, NEW c \in Commands, NEW step, Meet(c, step), step \notin past',
         NEW d \in Commands \ {c}
  PROVE  ~At(d, step)
BY DEF Meet

(* Nobody else arrives, and an arrival at such a step meets nobody.        *)
LEMMA StillAlone ==
  ASSUME Typed, NEW c \in Commands, Beginning(c) \/ Continuing(c),
         NEW step \in {"migrate", "freeze", "move"}, step \notin past', Alone(step)
  PROVE  Alone(step)'
<1>0. TypeOK /\ Shaped /\ (Begun(c) \/ GoneOn(c) \/ Ended(c))
  BY CommandStep DEF Typed
<1>1. SUFFICES ASSUME NEW d \in Commands, NEW e \in Commands, At(d, step)', At(e, step)', d # e
               PROVE  FALSE
  BY DEF Alone
<1>2. CASE d # c /\ e # c
  BY <1>0, <1>1, <1>2, OthersStay DEF Alone
<1>3. ASSUME NEW f \in Commands \ {c}, At(f, step)', At(c, step)'
      PROVE  FALSE
  <2>1. Meet(c, step)
    BY <1>0, <1>3, ArrivesOnce
  <2>. QED
    BY <1>0, <1>3, <2>1, Met, OthersStay
<1>. QED
  BY <1>1, <1>2, <1>3

LEMMA MigrationStep ==
  ASSUME Typed, Migration, NEW c \in Commands, Beginning(c) \/ Continuing(c)
  PROVE  Migration'
<1>0. TypeOK /\ Shaped /\ (Begun(c) \/ GoneOn(c) \/ Ended(c))
  BY CommandStep DEF Typed
<1>1. SUFFICES ASSUME "migrate" \notin past'
               PROVE  /\ db'.scale = db'.version
                      /\ Alone("migrate")'
                      /\ \A d \in Commands : At(d, "migrate")' => db'.version = 0
  BY DEF Migration
<1>2. /\ db.scale = db.version /\ Alone("migrate")
      /\ \A d \in Commands : At(d, "migrate") => db.version = 0
  BY <1>1, PastGrows DEF Migration
<1>3. Alone("migrate")'
  BY <1>1, <1>2, StillAlone
<1>4. CASE db'.scale = db.scale /\ db'.version = db.version
  <2>1. ASSUME NEW d \in Commands, At(d, "migrate")'
        PROVE  db.version = 0
    <3>1. CASE d = c
      BY <1>0, <2>1, <3>1, ArrivesOnce
    <3>2. CASE d # c
      BY <1>0, <1>2, <2>1, <3>2, OthersStay
    <3>. QED
      BY <3>1, <3>2
  <2>. QED
    BY <1>2, <1>3, <1>4, <2>1
<1>5. CASE ~(db'.scale = db.scale /\ db'.version = db.version)
  <2>1. MigrateCPU(c) /\ At(c, "migrate") /\ db' # db
    BY <1>5, Frame DEF MigrateCPU
  <2>2. db' = [db EXCEPT !.scale = Scaled, !.version = 1] /\ Goto(c, AfterOpen(command[c].req))
    BY <2>1 DEF MigrateCPU
  <2>3. db.version = 0 /\ Scaled = 1
    BY <1>0, <1>2, <2>1 DEF TypeOK, Scaled
  <2>4. db'.scale = 1 /\ db'.version = 1
    BY <1>0, <2>2, <2>3 DEF TypeOK
  <2>5. ASSUME NEW d \in Commands, At(d, "migrate")'
        PROVE  FALSE
    <3>1. CASE d = c
      <4>2. AfterOpen(command[c].req) \in Steps \ {"migrate"}
        BY <2>1, AfterOpening DEF Steps
      <4>. QED
        BY <1>0, <2>1, <2>2, <2>5, <3>1, <4>2, GoesTo DEF At
    <3>2. CASE d # c
      BY <1>0, <1>2, <2>1, <2>5, <3>2, OthersStay DEF Alone
    <3>. QED
      BY <3>1, <3>2
  <2>. QED
    BY <1>3, <2>4, <2>5
<1>. QED
  BY <1>4, <1>5

LEMMA KeepsItsRecord ==
  ASSUME Typed, NEW c \in Commands, GoneOn(c)
  PROVE  /\ command'[c].cfg = command[c].cfg /\ command'[c].req = command[c].req
         /\ command'[c].met = command[c].met /\ command'[c].user = command[c].user
         /\ command'[c].apply = command[c].apply
<1>1. command[c] \in Command /\ command'[c] = [command[c] EXCEPT !.at = command'[c].at]
  BY BusyTypes DEF GoneOn, Typed
<1>. DEFINE at == command'[c].at
<1>2. command'[c] = [command[c] EXCEPT !.at = at]
  BY <1>1
<1>. HIDE DEF at
<1>. QED
  BY <1>1, <1>2 DEF Command

LEMMA FreezingStep ==
  ASSUME Typed, Freezing, NEW c \in Commands, Beginning(c) \/ Continuing(c)
  PROVE  Freezing'
<1>0. TypeOK /\ Shaped /\ (Begun(c) \/ GoneOn(c) \/ Ended(c))
  BY CommandStep DEF Typed
<1>1. SUFFICES ASSUME "freeze" \notin past'
               PROVE  /\ host'.main # None => host'.main = db'.snapshot
                      /\ Alone("freeze")'
                      /\ \A d \in Commands : At(d, "freeze")' => db'.snapshot = None
                      /\ \A d \in Commands : At(d, "wire")' \/ At(d, "main")'
                                            => db'.snapshot = command'[d].cfg.subnet
  BY DEF Freezing
<1>2. /\ host.main # None => host.main = db.snapshot
      /\ Alone("freeze")
      /\ \A d \in Commands : At(d, "freeze") => db.snapshot = None
      /\ \A d \in Commands : At(d, "wire") \/ At(d, "main") => db.snapshot = command[d].cfg.subnet
  BY <1>1, PastGrows DEF Freezing
<1>3. Alone("freeze")'
  BY <1>1, <1>2, StillAlone
<1>4. CASE db'.snapshot # db.snapshot
  <2>1. Freeze(c) /\ At(c, "freeze") /\ db.snapshot = None /\ db' # db
    BY <1>2, <1>4, Frame DEF Freeze
  <2>2. db' = [db EXCEPT !.snapshot = command[c].cfg.subnet] /\ Goto(c, "wire") /\ host' = host
    BY <2>1 DEF Freeze
  <2>3. db'.snapshot = command[c].cfg.subnet
    BY <1>0, <2>2 DEF TypeOK
  <2>4. host'.main = None
    BY <1>2, <2>1, <2>2
  <2>5. c \in Busy' /\ command'[c].at = "wire"
    BY <1>0, <2>1, <2>2, GoesTo DEF At, Steps
  <2>6. command'[c].cfg = command[c].cfg
    BY <1>0, <2>1, <2>5, KeepsItsRecord DEF Begun, Ended, Idle, Busy, At
  <2>7. ASSUME NEW d \in Commands, At(d, "freeze")'
        PROVE  FALSE
    BY <1>0, <1>2, <2>1, <2>5, <2>7, OthersStay DEF At, Alone
  <2>8. ASSUME NEW d \in Commands \ {c}, At(d, "wire")' \/ At(d, "main")'
        PROVE  FALSE
    <3>1. (At(d, "wire") \/ At(d, "main")) /\ command[d].cfg.subnet = None
      BY <1>0, <1>2, <2>1, <2>8, OthersStay
    <3>2. command[d].cfg.subnet \in Subnets
      BY <1>0, <3>1, Holds DEF At
    <3>. QED
      BY <3>1, <3>2, NoneAssumption
  <2>. QED
    BY <1>3, <2>3, <2>4, <2>6, <2>7, <2>8
<1>5. CASE db'.snapshot = db.snapshot
  <2>1. ASSUME host'.main # None
        PROVE  host'.main = db.snapshot
    <3>1. CASE host'.main = host.main
      BY <1>2, <2>1, <3>1
    <3>2. CASE host'.main # host.main
      <4>1. /\ WriteMain(c) /\ At(c, "main")
            /\ host' \in {host, [host EXCEPT !.main = command[c].cfg.subnet]}
        BY <3>2, Frame DEF WriteMain
      <4>2. host' = [host EXCEPT !.main = command[c].cfg.subnet]
        BY <3>2, <4>1
      <4>3. host'.main = command[c].cfg.subnet
        BY <1>0, <4>2 DEF TypeOK
      <4>. QED
        BY <1>2, <4>1, <4>3
    <3>. QED
      BY <3>1, <3>2
  <2>2. ASSUME NEW d \in Commands, At(d, "freeze")'
        PROVE  db.snapshot = None
    BY <1>0, <1>2, <2>2, ArrivesOnce, OthersStay
  <2>3. ASSUME NEW d \in Commands, At(d, "wire")' \/ At(d, "main")'
        PROVE  db.snapshot = command'[d].cfg.subnet
    <3>1. CASE d # c
      BY <1>0, <1>2, <2>3, <3>1, OthersStay DEF At
    <3>2. CASE d = c
      <4>1. c \in Busy /\ c \in Busy'
        BY <2>3, <3>2, ArrivesOnce DEF Snapshot, Freeze, Wire, At
      <4>2. command'[c].cfg = command[c].cfg
        BY <1>0, <4>1, KeepsItsRecord DEF Begun, Ended, Idle, Busy
      <4>3. \/ db.snapshot = command[c].cfg.subnet
            \/ db' = [db EXCEPT !.snapshot = command[c].cfg.subnet]
        BY <1>2, <2>3, <3>2, ArrivesOnce DEF Wire
      <4>4. db.snapshot = command[c].cfg.subnet
        BY <1>0, <1>5, <4>3 DEF TypeOK
      <4>. QED
        BY <3>2, <4>2, <4>4
    <3>. QED
      BY <3>1, <3>2
  <2>. QED
    BY <1>3, <1>5, <2>1, <2>2, <2>3
<1>. QED
  BY <1>4, <1>5

(* A step of a command at work brings no value that was nowhere.           *)
LEMMA HeldContinues ==
  ASSUME Typed, NEW c \in Commands, Continuing(c)
  PROVE  Held' \subseteq Held
<1>0. TypeOK /\ Shaped /\ (GoneOn(c) \/ Ended(c)) /\ c \in Busy
  BY CommandStep DEF Typed, GoneOn, Ended
<1>1. /\ ~NoteVersion(c)
      /\ file' # file => Truncate(c) \/ Write(c) \/ DropWrite(c)
      /\ panel' # panel => Served(c)
      /\ db'.snapshot # db.snapshot => Freeze(c)
      /\ host'.main # host.main => WriteMain(c)
      /\ host'.ndp # host.ndp => host'.ndp = command[c].cfg.subnet
  <2>1. ~NoteVersion(c)
    BY <1>0 DEF NoteVersion, Begin, Idle, Busy
  <2>. QED
    BY <2>1, Frame
<1>2. ASSUME command[c].cfg \in Record
      PROVE  command[c].cfg.subnet \in Held
  BY <1>0, <1>2 DEF Held
<1>3. ASSUME file' \in Record, file' # file
      PROVE  file'.subnet = command[c].cfg.subnet /\ command[c].cfg \in Record
  <2>1. CASE Truncate(c)
    BY <1>3, <2>1, TornAssumption DEF Truncate
  <2>2. CASE Write(c)
    BY <1>3, <2>2 DEF Write
  <2>3. CASE DropWrite(c)
    <3>1. command[c].cfg \in Record /\ file' = [command[c].cfg EXCEPT !.legacy = FALSE]
      BY <1>0, <2>3, Holds DEF DropWrite, At
    <3>. QED
      BY <3>1 DEF Record
  <2>. QED
    BY <1>1, <1>3, <2>1, <2>2, <2>3
<1>4. ASSUME panel' \in Record, panel' # panel
      PROVE  panel' = command[c].cfg
  BY <1>1, <1>4 DEF Served
<1>5. \A d \in Busy' : d \in Busy /\ command'[d].cfg = command[d].cfg
  <2>1. \A d \in Busy' \ {c} : d \in Busy /\ command'[d].cfg = command[d].cfg
    BY <1>0 DEF GoneOn, Ended, Same, Busy, Idle
  <2>2. c \in Busy' => GoneOn(c)
    BY <1>0 DEF Ended, Busy, Idle
  <2>. QED
    BY <1>0, <2>1, <2>2, KeepsItsRecord
<1>6. ASSUME db'.snapshot # db.snapshot
      PROVE  db'.snapshot = command[c].cfg.subnet /\ command[c].cfg \in Record
  <2>1. db' = [db EXCEPT !.snapshot = command[c].cfg.subnet] /\ c \in Busy /\ command[c].at = "freeze"
    BY <1>1, <1>6 DEF Freeze, At
  <2>. QED
    BY <1>0, <2>1, Holds DEF TypeOK
<1>7. ASSUME host'.main # host.main
      PROVE  host'.main = command[c].cfg.subnet /\ command[c].cfg \in Record
  <2>1. host' = [host EXCEPT !.main = command[c].cfg.subnet] /\ c \in Busy /\ command[c].at = "main"
    BY <1>1, <1>7 DEF WriteMain, At
  <2>. QED
    BY <1>0, <2>1, Holds DEF TypeOK
<1>8. ASSUME host'.ndp # host.ndp
      PROVE  command[c].cfg \in Record
  <2>1. c \in Busy /\ command[c].at \in {"wire", "rewire", "add", "del"}
    BY <1>8, Frame
  <2>. QED
    BY <1>0, <2>1, Holds
<1>9. SUFFICES ASSUME NEW s \in Held'
               PROVE  s \in Held
  OBVIOUS
<1>10. CASE \E r \in {file', panel'} \cap Record : s = r.subnet
  BY <1>2, <1>3, <1>4, <1>10 DEF Held
<1>11. CASE \E d \in Busy' : command'[d].cfg \in Record /\ s = command'[d].cfg.subnet
  BY <1>5, <1>11 DEF Held
<1>12. CASE s \in {db'.snapshot, host'.main, host'.ndp} \ {None}
  BY <1>1, <1>2, <1>6, <1>7, <1>8, <1>12 DEF Held
<1>. QED
  BY <1>9, <1>10, <1>11, <1>12 DEF Held

(* One that begins brings no other than that of its record.                *)
LEMMA HeldBegins ==
  ASSUME Typed, NEW c \in Commands, Beginning(c), "edited" \notin past'
  PROVE  \A s, t \in Held' : (s \in Held /\ t \in Held) \/ s = t
<1>0. TypeOK /\ Begun(c)
  BY BeginStep DEF Typed, Beginning
<1>1. UNCHANGED <<file, db, host>> /\ panel' \in {panel, None}
  BY DEF Beginning, InstallNew, InstallAdopt, ConfigSet, NoteVersion, AdminPasswd, Serve, Reapply,
         Add, Del
<1>2. PICK req, at, cfg, apply, user : Begin(c, req, at, cfg, apply, user)
  BY DEF Beginning, InstallNew, InstallAdopt, ConfigSet, NoteVersion, AdminPasswd, Serve, Reapply,
         Add, Del
<1>3. command'[c].cfg = cfg
  <2>. DEFINE others == {d \in Busy : Policy(command[d].req) /\ Policy(req)}
  <2>1. command'[c] = [req |-> req, at |-> at, cfg |-> cfg, apply |-> apply, met |-> others # {},
                       user |-> user]
    BY <1>2 DEF Begin
  <2>. QED
    BY <2>1
<1>4. cfg # None => Held \subseteq {cfg.subnet}
  BY <1>2 DEF Begin
<1>5. \A d \in Busy' \ {c} : d \in Busy /\ command'[d].cfg = command[d].cfg
  BY <1>0, OthersStay DEF Busy
<1>6. ASSUME NEW s \in Held'
      PROVE  s \in Held \/ (cfg \in Record /\ s = cfg.subnet)
  <2>1. CASE \E r \in {file', panel'} \cap Record : s = r.subnet
    BY <1>1, <2>1, NoneAssumption DEF Held
  <2>2. CASE \E d \in Busy' : command'[d].cfg \in Record /\ s = command'[d].cfg.subnet
    BY <1>3, <1>5, <2>2 DEF Held
  <2>3. CASE s \in {db'.snapshot, host'.main, host'.ndp} \ {None}
    BY <1>1, <2>3 DEF Held
  <2>. QED
    BY <1>6, <2>1, <2>2, <2>3 DEF Held
<1>. QED
  BY <1>4, <1>6, NoneAssumption

LEMMA UneditedStep ==
  ASSUME Typed, Unedited, NEW c \in Commands, Beginning(c) \/ Continuing(c)
  PROVE  Unedited'
<1>1. SUFFICES ASSUME "edited" \notin past'
               PROVE  \A s, t \in Held' : s = t
  BY DEF Unedited
<1>2. \A s, t \in Held : s = t
  BY <1>1, PastGrows DEF Unedited
<1>. QED
  BY <1>1, <1>2, HeldContinues, HeldBegins

LEMMA MovingStep ==
  ASSUME Typed, Moving, NEW c \in Commands, Beginning(c) \/ Continuing(c)
  PROVE  Moving' /\ (db.hash = "new" /\ "move" \notin past => db'.hash # "legacy")
<1>0. TypeOK /\ Shaped /\ (Begun(c) \/ GoneOn(c) \/ Ended(c))
  BY CommandStep DEF Typed
<1>1. ASSUME db.hash = "new", "move" \notin past
      PROVE  db'.hash # "legacy"
  <2>1. ~Move(c)
    BY <1>1 DEF Moving, Move
  <2>2. SetHash(c) => db' \in {db, [db EXCEPT !.hash = "new"]}
    BY DEF SetHash
  <2>3. SetHash(c) => db'.hash = "new"
    BY <1>0, <1>1, <2>2 DEF TypeOK
  <2>. QED
    BY <1>1, <2>1, <2>3, Frame
<1>2. ASSUME "move" \notin past', NEW d \in Commands, At(d, "move")'
      PROVE  db'.hash # "new"
  <2>1. CASE d = c
    <3>1. Meet(c, "move") /\ db.hash = None
      BY <1>2, <2>1, ArrivesOnce
    <3>2. ~Move(c) /\ ~SetHash(c)
      <4>1. CASE Move(c)
        <5>1. c \in Busy /\ (Goto(c, "dropTruncate") \/ Fails(c))
          BY <4>1 DEF Move, At
        <5>. QED
          BY <1>0, <1>2, <2>1, <5>1, GoesTo, GivesUp DEF At, Steps
      <4>2. CASE SetHash(c)
        <5>1. c \in Busy /\ (command' = [command EXCEPT ![c] = None] \/ Fails(c))
          BY <4>2 DEF SetHash, At
        <5>. QED
          BY <1>0, <1>2, <2>1, <5>1, StepEnds, GivesUp DEF At, Ended, Busy, Idle
      <4>. QED
        BY <4>1, <4>2 DEF At
    <3>. QED
      BY <3>1, <3>2, Frame, NoneAssumption
  <2>2. CASE d # c
    <3>1. At(d, "move") /\ db.hash # "new"
      BY <1>0, <1>2, <2>2, OthersStay, PastGrows DEF Moving
    <3>2. CASE db' = db \/ db'.hash = db.hash
      BY <3>1, <3>2
    <3>3. CASE Move(c) /\ db' = [db EXCEPT !.hash = "legacy"]
      <4>1. db'.hash = "legacy"
        BY <1>0, <3>3 DEF TypeOK
      <4>. QED
        BY <4>1
    <3>4. CASE past' = IF \E e \in Commands : At(e, "move") THEN past \cup {"move"} ELSE past
      BY <1>2, <3>1, <3>4
    <3>. QED
      BY <3>2, <3>3, <3>4, Frame DEF Move, SetHash
  <2>. QED
    BY <2>1, <2>2
<1>. QED
  BY <1>1, <1>2 DEF Moving

-----------------------------------------------------------------------------
(* Adoption.                                                               *)
HonestCommand(r) ==
  /\ r.req \in {"install", "serve"} => r.cfg.born = "this"
  /\ r.req = "set" => Honest(r.cfg)
  /\ r.req = "note" /\ r.cfg.installed # "none" => Honest(r.cfg)

LEMMA HonestLoaded ==
  ASSUME Typed, file \in Record => Honest(file), file # None
  PROVE  /\ Loaded \in Record /\ Honest(Loaded)
         /\ ~Blocked(Loaded) => Loaded.born = "this"
<1>1. Loaded \in Record
  BY LoadedRecord DEF Typed
<1>2. Honest(Default)
  BY DEF Default, Honest, Origin
<1>3. Honest(Loaded)
  BY <1>2 DEF Loaded, Typed, TypeOK
<1>4. Origin(Loaded) \in Versions
  BY <1>1 DEF Origin, Record
<1>. QED
  BY <1>1, <1>3, <1>4 DEF Blocked, Honest, Versions

(* What an arrival is asked for, of all that BeginBegins says.             *)
LEMMA BeginsAs ==
  ASSUME TypeOK, NEW c \in Commands, NEW req \in Kinds, NEW at \in Steps,
         NEW cfg \in Record \cup {None}, NEW apply \in BOOLEAN, NEW user \in Users \cup {None},
         Begin(c, req, at, cfg, apply, user)
  PROVE  command'[c].req = req /\ command'[c].cfg = cfg
  BY BeginBegins

(* The kinds that write no file.                                           *)
LEMMA OtherKinds ==
  ASSUME Typed, NEW c \in Commands,
         \/ AdminPasswd(c) \/ Serve(c) \/ Reapply(c) \/ \E u \in Users : Add(c, u) \/ Del(c, u)
  PROVE  /\ Serve(c) => command'[c].req = "serve" /\ command'[c].cfg = Loaded
         /\ command'[c].req \in Kinds \ {"install", "set", "note"}
         /\ ~Serve(c) => command'[c].req # "serve"
<1>0. /\ TypeOK /\ {"open", "add", "del"} \subseteq Steps
      /\ {"passwd", "serve", "reapply", "add", "panelAdd", "del", "panelDel"} \subseteq Kinds
  BY DEF Typed, Steps, Kinds
<1>1. ASSUME NEW req, NEW at, NEW cfg, NEW apply, NEW user, Begin(c, req, at, cfg, apply, user)
      PROVE  command'[c].req = req
  <2>. DEFINE others == {d \in Busy : Policy(command[d].req) /\ Policy(req)}
  <2>1. command'[c] = [req |-> req, at |-> at, cfg |-> cfg, apply |-> apply, met |-> others # {},
                       user |-> user]
    BY <1>1 DEF Begin
  <2>. QED
    BY <2>1
<1>2. CASE AdminPasswd(c) \/ Reapply(c)
  <2>1. command'[c].req \in {"passwd", "reapply"}
    BY <1>1, <1>2 DEF AdminPasswd, Reapply
  <2>2. ~Serve(c)
    BY <1>1, <2>1 DEF Serve
  <2>. QED
    BY <1>0, <2>1, <2>2
<1>3. CASE Serve(c)
  <2>1. Begin(c, "serve", "open", Loaded, FALSE, None) /\ Loaded \in Record
    BY <1>0, <1>3, LoadedRecord DEF Serve
  <2>2. command'[c].req = "serve" /\ command'[c].cfg = Loaded
    BY <1>0, <2>1, BeginsAs
  <2>. QED
    BY <1>0, <1>3, <2>2
<1>4. CASE \E u \in Users : Add(c, u) \/ Del(c, u)
  <2>1. command'[c].req \in {"add", "panelAdd", "del", "panelDel"}
    BY <1>1, <1>4 DEF Add, Del
  <2>2. ~Serve(c)
    BY <1>1, <2>1 DEF Serve
  <2>. QED
    BY <1>0, <2>1, <2>2
<1>. QED
  BY <1>2, <1>3, <1>4

LEMMA BeginHonest ==
  ASSUME Typed, file \in Record => Honest(file), NEW c \in Commands, Beginning(c)
  PROVE  HonestCommand(command'[c])
<1>0. TypeOK /\ "truncate" \in Steps
  BY DEF Typed, Steps
<1>9. "install" \in Kinds /\ "set" \in Kinds /\ "note" \in Kinds
  BY DEF Kinds
<1>1. CASE InstallNew(c)
  <2>1. PICK subnet \in Subnets, v4 \in BOOLEAN :
          Begin(c, "install", "truncate",
                [Default EXCEPT !.subnet = subnet, !.v4 = v4, !.installed = "this",
                                !.born = "this"], TRUE, None)
    BY <1>1 DEF InstallNew
  <2>. DEFINE cfg == [Default EXCEPT !.subnet = subnet, !.v4 = v4, !.installed = "this",
                                     !.born = "this"]
  <2>2. cfg \in Record /\ cfg.born = "this"
    BY DEF Default, Record, Subnets, Versions
  <2>3. Begin(c, "install", "truncate", cfg, TRUE, None)
    BY <2>1
  <2>. HIDE DEF cfg
  <2>4. command'[c].req = "install" /\ command'[c].cfg = cfg
    BY <1>0, <1>9, <2>2, <2>3, BeginsAs
  <2>. QED
    BY <2>2, <2>4 DEF HonestCommand
<1>2. CASE InstallAdopt(c)
  <2>1. PICK subnet \in Subnets, v4 \in BOOLEAN :
          Begin(c, "install", "truncate",
                [Loaded EXCEPT !.subnet = subnet, !.v4 = v4, !.installed = "this"], TRUE, None)
    BY <1>2 DEF InstallAdopt
  <2>. DEFINE cfg == [Loaded EXCEPT !.subnet = subnet, !.v4 = v4, !.installed = "this"]
  <2>2. Loaded \in Record /\ Loaded.born = "this"
    BY <1>2, HonestLoaded DEF InstallAdopt
  <2>3. cfg \in Record /\ cfg.born = "this"
    BY <2>2 DEF Record, Subnets, Versions
  <2>4. Begin(c, "install", "truncate", cfg, TRUE, None)
    BY <2>1
  <2>. HIDE DEF cfg
  <2>5. command'[c].req = "install" /\ command'[c].cfg = cfg
    BY <1>0, <1>9, <2>3, <2>4, BeginsAs
  <2>. QED
    BY <2>3, <2>5 DEF HonestCommand
<1>3. CASE ConfigSet(c)
  <2>1. PICK apply \in BOOLEAN :
          Begin(c, "set", "truncate", [Loaded EXCEPT !.v4 = ~@], apply, None)
    BY <1>3 DEF ConfigSet
  <2>2. Loaded \in Record /\ Honest(Loaded)
    BY <1>3, HonestLoaded DEF ConfigSet
  <2>3. \A v \in BOOLEAN : [Loaded EXCEPT !.v4 = v] \in Record /\ Honest([Loaded EXCEPT !.v4 = v])
    BY <2>2 DEF Record, Honest, Origin
  <2>. DEFINE cfg == [Loaded EXCEPT !.v4 = ~@]
  <2>4. cfg \in Record /\ Honest(cfg)
    BY <2>3
  <2>5. Begin(c, "set", "truncate", cfg, apply, None)
    BY <2>1
  <2>. HIDE DEF cfg
  <2>6. command'[c].req = "set" /\ command'[c].cfg = cfg
    BY <1>0, <1>9, <2>4, <2>5, BeginsAs
  <2>. QED
    BY <2>4, <2>6 DEF HonestCommand
<1>4. CASE NoteVersion(c)
  <2>. DEFINE cfg == [Loaded EXCEPT !.uninstalled = "this"]
  <2>1. Begin(c, "note", "truncate", cfg, FALSE, None)
    BY <1>4 DEF NoteVersion
  <2>2. Loaded \in Record /\ Honest(Loaded)
    BY <1>4, HonestLoaded DEF NoteVersion
  <2>3. cfg \in Record
    BY <2>2 DEF Record, Versions
  <2>4. cfg.installed # "none" => Honest(cfg)
    BY <2>2 DEF Record, Honest, Origin
  <2>. HIDE DEF cfg
  <2>5. command'[c].req = "note" /\ command'[c].cfg = cfg
    BY <1>0, <1>9, <2>1, <2>3, BeginsAs
  <2>. QED
    BY <2>4, <2>5 DEF HonestCommand
<1>5. CASE /\ ~Serve(c)
           /\ \/ AdminPasswd(c) \/ Reapply(c) \/ \E u \in Users : Add(c, u) \/ Del(c, u)
  BY <1>5, OtherKinds DEF HonestCommand
<1>6. CASE Serve(c)
  <2>1. Loaded.born = "this"
    BY <1>6, HonestLoaded DEF Serve
  <2>. QED
    BY <1>6, <2>1, OtherKinds DEF HonestCommand
<1>. QED
  BY <1>1, <1>2, <1>3, <1>4, <1>5, <1>6 DEF Beginning

LEMMA AdoptionStep ==
  ASSUME Typed, Adoption, NEW c \in Commands, Beginning(c) \/ Continuing(c)
  PROVE  Adoption'
<1>0. TypeOK /\ Shaped /\ (Begun(c) \/ GoneOn(c) \/ Ended(c))
  BY CommandStep DEF Typed
<1>1. SUFFICES ASSUME "origin" \notin past'
               PROVE  /\ file' \in Record => Honest(file')
                      /\ panel' # None => panel'.born = "this"
                      /\ \A d \in Busy' : HonestCommand(command'[d])
  BY DEF Adoption, HonestCommand, Honest, Origin
<1>2. /\ file \in Record => Honest(file)
      /\ panel # None => panel.born = "this"
      /\ \A d \in Busy : HonestCommand(command[d])
  BY <1>1, PastGrows DEF Adoption, HonestCommand
<1>3. ASSUME NEW d \in Busy'
      PROVE  HonestCommand(command'[d])
  <2>0. d \in Commands /\ command'[d] # None
    BY <1>3 DEF Busy, Idle
  <2>1. CASE d # c
    <3>1. d \in Busy /\ command'[d].req = command[d].req /\ command'[d].cfg = command[d].cfg
      BY <1>0, <2>0, <2>1, <1>3, OthersStay
    <3>. QED
      BY <1>2, <3>1 DEF HonestCommand
  <2>2. CASE d = c /\ Beginning(c)
    BY <1>2, <2>2, BeginHonest
  <2>3. CASE d = c /\ Continuing(c)
    <3>1. GoneOn(c)
      BY <1>0, <2>0, <2>3, CommandStep DEF Ended
    <3>2. c \in Busy /\ command'[c].req = command[c].req /\ command'[c].cfg = command[c].cfg
      BY <3>1, KeepsItsRecord DEF GoneOn
    <3>. QED
      BY <1>2, <2>3, <3>2 DEF HonestCommand
  <2>. QED
    BY <2>0, <2>1, <2>2, <2>3
<1>4. ASSUME file' \in Record
      PROVE  Honest(file')
  <2>1. CASE file' = file
    BY <1>2, <1>4, <2>1
  <2>2. CASE Truncate(c) /\ file' # file
    BY <1>4, <2>2, TornAssumption DEF Truncate
  <2>3. CASE Write(c)
    <3>1. c \in Busy /\ command[c].at = "write" /\ file' = command[c].cfg
      BY <2>3 DEF Write, At
    <3>2. HonestCommand(command[c]) /\ ~Noted(c)
      <4>1. ~Noted(c)
        BY <1>1, <2>3 DEF Write
      <4>. QED
        BY <1>2, <3>1, <4>1
    <3>3. command[c].req \in {"install", "set", "note"}
      BY <1>0, <3>1, BusyTypes DEF Shaped, Shape, Command
    <3>. QED
      BY <3>1, <3>2, <3>3 DEF HonestCommand, Noted, Is, Honest
  <2>4. CASE DropWrite(c)
    <3>1. /\ c \in Busy /\ command[c].at = "dropWrite"
          /\ file' = [command[c].cfg EXCEPT !.legacy = FALSE]
      BY <2>4 DEF DropWrite, At
    <3>2. command[c].req = "install"
      BY <1>0, <3>1, BusyTypes DEF Shaped, Shape, Command, SetSteps
    <3>3. command[c].cfg \in Record /\ command[c].cfg.born = "this"
      BY <1>0, <1>2, <3>1, <3>2, Holds DEF HonestCommand
    <3>4. file'.born = "this"
      BY <3>1, <3>3 DEF Record
    <3>. QED
      BY <3>4 DEF Honest
  <2>. QED
    BY <2>1, <2>2, <2>3, <2>4, Frame
<1>5. ASSUME panel' # None
      PROVE  panel'.born = "this"
  <2>1. CASE panel' = panel
    BY <1>2, <1>5, <2>1
  <2>2. CASE NoteVersion(c)
    BY <1>5, <2>2 DEF NoteVersion
  <2>3. CASE Served(c)
    <3>1. c \in Busy /\ command[c].at = "serve" /\ panel' = command[c].cfg
      BY <2>3 DEF Served, At
    <3>2. command[c].req = "serve"
      BY <1>0, <3>1, BusyTypes DEF Shaped, Shape, Command, InstallSteps, SetSteps
    <3>. QED
      BY <1>2, <3>1, <3>2 DEF HonestCommand
  <2>. QED
    BY <2>1, <2>2, <2>3, Frame
<1>. QED
  BY <1>3, <1>4, <1>5

-----------------------------------------------------------------------------
(* The administrator's password.                                           *)

(* Whether the host had one in its file is decided at the start.           *)
LEMMA LegacyIsOld ==
  ASSUME Typed, NEW c \in Commands, Beginning(c) \/ Continuing(c), "legacy" \in past'
  PROVE  "legacy" \in past
<1>1. CASE Beginning(c)
  <2>1. \E req, at, cfg, apply, user : Begin(c, req, at, cfg, apply, user)
    BY <1>1 DEF Beginning, InstallNew, InstallAdopt, ConfigSet, NoteVersion, AdminPasswd, Serve,
                Reapply, Add, Del
  <2>. QED
    BY <2>1 DEF Begin
<1>2. ASSUME NEW step, step # "legacy",
             Goto(c, step) \/ Meet(c, step) \/ Finish(c) \/ GiveUp(c) \/ Fails(c)
      PROVE  "legacy" \in past
  BY <1>2 DEF Goto, Meet, Finish, GiveUp, Fails
<1>3. ASSUME past' = past
      PROVE  "legacy" \in past
  BY <1>3
<1>4. CASE Truncate(c) \/ Open(c) \/ MigrateCPU(c) \/ Snapshot(c) \/ Freeze(c)
  BY <1>2, <1>3, <1>4 DEF Truncate, Open, MigrateCPU, Snapshot, Freeze, Goto
<1>5. CASE \/ Wire(c) \/ WriteMain(c) \/ ApplyRules(c) \/ ApplySetting(c) \/ Reapplied(c)
           \/ Deleted(c)
  BY <1>2, <1>5, HalfFails DEF Wire, WriteMain, ApplyRules, ApplySetting, Reapplied, Deleted
<1>6. CASE Legacy(c) \/ Move(c) \/ DropWrite(c) \/ AdminCheck(c) \/ Served(c)
  BY <1>2, <1>6 DEF Legacy, Move, DropWrite, AdminCheck, Served
<1>7. CASE Write(c) \/ Added(c) \/ Crash(c)
  BY <1>2, <1>7, HalfFails DEF Write, Added, Crash
<1>8. CASE SetHash(c)
  BY <1>2, <1>8 DEF SetHash
<1>9. CASE ApplyTraefik(c)
  BY <1>2, <1>9 DEF ApplyTraefik, Agreed
<1>. QED
  BY <1>1, <1>4, <1>5, <1>6, <1>7, <1>8, <1>9 DEF Continuing

(* Whoever begins to write the file has read the hash in it.               *)
LEMMA BeginKeeps ==
  ASSUME Typed, file \in Record, file.legacy, NEW c \in Commands, Beginning(c),
         command'[c].req \in {"install", "set", "note"}
  PROVE  command'[c].cfg.legacy
<1>0. TypeOK /\ "truncate" \in Steps
  BY DEF Typed, Steps
<1>9. "install" \in Kinds /\ "set" \in Kinds /\ "note" \in Kinds
  BY DEF Kinds
<1>10. Loaded = file /\ file # None
  BY TornAssumption, NoneAssumption DEF Loaded
<1>1. ~InstallNew(c)
  BY <1>10 DEF InstallNew
<1>2. CASE InstallAdopt(c)
  <2>1. PICK subnet \in Subnets, v4 \in BOOLEAN :
          Begin(c, "install", "truncate",
                [Loaded EXCEPT !.subnet = subnet, !.v4 = v4, !.installed = "this"], TRUE, None)
    BY <1>2 DEF InstallAdopt
  <2>. DEFINE cfg == [file EXCEPT !.subnet = subnet, !.v4 = v4, !.installed = "this"]
  <2>2. cfg \in Record
    BY DEF Record, Subnets, Versions
  <2>3. cfg.legacy
    BY DEF Record
  <2>4. Begin(c, "install", "truncate", cfg, TRUE, None)
    BY <1>10, <2>1
  <2>5. PICK new \in Record : Begin(c, "install", "truncate", new, TRUE, None) /\ new.legacy
    BY <2>2, <2>3, <2>4
  <2>6. new \in Record \cup {None} /\ None \in Users \cup {None} /\ TRUE \in BOOLEAN
    OBVIOUS
  <2>7. command'[c].cfg = new
    BY <1>0, <1>9, <2>5, <2>6, BeginsAs
  <2>. QED
    BY <2>5, <2>7
<1>3. CASE ConfigSet(c)
  <2>1. PICK apply \in BOOLEAN :
          Begin(c, "set", "truncate", [Loaded EXCEPT !.v4 = ~@], apply, None)
    BY <1>3 DEF ConfigSet
  <2>2. \A v \in BOOLEAN : /\ [file EXCEPT !.v4 = v] \in Record
                           /\ [file EXCEPT !.v4 = v].legacy = file.legacy
    BY DEF Record
  <2>. DEFINE cfg == [file EXCEPT !.v4 = ~@]
  <2>3. cfg \in Record /\ cfg.legacy = file.legacy
    BY <2>2
  <2>4. Begin(c, "set", "truncate", cfg, apply, None)
    BY <1>10, <2>1
  <2>. HIDE DEF cfg
  <2>5. command'[c].cfg = cfg
    BY <1>0, <1>9, <2>3, <2>4, BeginsAs
  <2>. QED
    BY <2>3, <2>5
<1>4. CASE NoteVersion(c)
  <2>. DEFINE cfg == [file EXCEPT !.uninstalled = "this"]
  <2>1. Begin(c, "note", "truncate", cfg, FALSE, None)
    BY <1>4, <1>10 DEF NoteVersion
  <2>2. cfg \in Record
    BY DEF Record, Versions
  <2>3. cfg.legacy
    BY DEF Record
  <2>. HIDE DEF cfg
  <2>4. command'[c].cfg = cfg
    BY <1>0, <1>9, <2>1, <2>2, BeginsAs
  <2>. QED
    BY <2>3, <2>4
<1>5. CASE \/ AdminPasswd(c) \/ Serve(c) \/ Reapply(c)
           \/ \E u \in Users : Add(c, u) \/ Del(c, u)
  BY <1>5, OtherKinds
<1>. QED
  BY <1>1, <1>2, <1>3, <1>4, <1>5 DEF Beginning

(* A command that begins to write with a half-written file leaves a trace. *)
LEMMA BeginReads ==
  ASSUME Typed, file # None, NEW c \in Commands, Beginning(c), "torn" \notin past',
         command'[c].req \in {"install", "set", "note"}
  PROVE  file \in Record
<1>1. ASSUME NEW req, NEW at, NEW cfg, NEW apply, NEW user,
             Begin(c, req, at, cfg, apply, user), req # "passwd"
      PROVE  file # Torn
  BY <1>1 DEF Begin
<1>2. CASE InstallNew(c) \/ InstallAdopt(c) \/ ConfigSet(c) \/ NoteVersion(c)
  BY <1>1, <1>2 DEF InstallNew, InstallAdopt, ConfigSet, NoteVersion, Typed, TypeOK
<1>3. CASE \/ AdminPasswd(c) \/ Serve(c) \/ Reapply(c)
           \/ \E u \in Users : Add(c, u) \/ Del(c, u)
  BY <1>3, OtherKinds
<1>. QED
  BY <1>2, <1>3 DEF Beginning

(* Whoever is to write does, or dies.                                      *)
LEMMA WriterWrites ==
  ASSUME Typed, NEW c \in Commands, Beginning(c) \/ Continuing(c), At(c, "write"),
         "torn" \notin past'
  PROVE  Write(c)
<1>1. ~Crash(c)
  BY DEF Crash
<1>2. ~Begun(c)
  BY DEF Begun, At, Busy
<1>3. ~Beginning(c)
  BY <1>2, CommandStep DEF Typed
<1>4. /\ ~Truncate(c) /\ ~Open(c) /\ ~MigrateCPU(c) /\ ~Snapshot(c) /\ ~Freeze(c) /\ ~Wire(c)
      /\ ~WriteMain(c) /\ ~ApplyRules(c) /\ ~ApplySetting(c) /\ ~ApplyTraefik(c) /\ ~Legacy(c)
      /\ ~Move(c) /\ ~DropWrite(c) /\ ~AdminCheck(c) /\ ~SetHash(c) /\ ~Served(c)
      /\ ~Reapplied(c) /\ ~Added(c) /\ ~Deleted(c)
  BY DEF At, Truncate, Open, MigrateCPU, Snapshot, Freeze, Wire, WriteMain, ApplyRules, ApplySetting,
         ApplyTraefik, Legacy, Move, DropWrite, AdminCheck, SetHash, Served, Reapplied, Added,
         Deleted
<1>. QED
  BY <1>1, <1>3, <1>4 DEF Continuing

LEMMA KeepingStep ==
  ASSUME Typed, Keeping, NEW c \in Commands, Beginning(c) \/ Continuing(c)
  PROVE  Keeping'
<1>0. TypeOK /\ Shaped /\ (Begun(c) \/ GoneOn(c) \/ Ended(c))
  BY CommandStep DEF Typed
<1>1. ASSUME "legacy" \in past'
      PROVE  file # None /\ file' # None
  <2>1. file # None
    BY <1>1, LegacyIsOld DEF Keeping
  <2>2. CASE file' = file \/ Truncate(c)
    BY <2>1, <2>2, TornAssumption DEF Truncate
  <2>3. CASE Write(c)
    BY <1>0, <2>1, <2>3, Holds, NoneAssumption DEF Write, At
  <2>4. CASE DropWrite(c)
    BY <1>0, <2>1, <2>4, Holds, NoneAssumption DEF DropWrite, At
  <2>. QED
    BY <2>1, <2>2, <2>3, <2>4, Frame
<1>2. SUFFICES ASSUME "legacy" \in past', "torn" \notin past', db'.hash = None
               PROVE  /\ \/ file' \in Record /\ file'.legacy
                         \/ file' = Torn /\ \E d \in Commands : At(d, "write")'
                      /\ \A d \in Busy' : command'[d].req \in {"install", "set", "note"} =>
                                             command'[d].cfg.legacy
                      /\ \A d \in Commands : ~At(d, "dropTruncate")' /\ ~At(d, "dropWrite")'
  BY <1>1 DEF Keeping
<1>3. db.hash = None
  <2>1. CASE Move(c)
    <3>1. CASE db' = [db EXCEPT !.hash = "legacy"]
      BY <1>0, <1>2, <3>1, NoneAssumption DEF TypeOK
    <3>. QED
      BY <1>2, <2>1, <3>1 DEF Move
  <2>2. CASE SetHash(c)
    <3>1. CASE db' = [db EXCEPT !.hash = "new"]
      BY <1>0, <1>2, <3>1, NoneAssumption DEF TypeOK
    <3>. QED
      BY <1>2, <2>2, <3>1 DEF SetHash, Move, At
  <2>. QED
    BY <1>2, <2>1, <2>2, Frame
<1>4. /\ "legacy" \in past /\ "torn" \notin past /\ file # None
      /\ \/ file \in Record /\ file.legacy
         \/ file = Torn /\ \E d \in Commands : At(d, "write")
      /\ \A d \in Busy : command[d].req \in {"install", "set", "note"} => command[d].cfg.legacy
      /\ \A d \in Commands : ~At(d, "dropTruncate") /\ ~At(d, "dropWrite")
  BY <1>1, <1>2, <1>3, LegacyIsOld, PastGrows DEF Keeping
<1>5. ASSUME NEW d \in Commands, NEW step \in {"dropTruncate", "dropWrite"}, At(d, step)'
      PROVE  FALSE
  <2>1. CASE d # c
    BY <1>0, <1>4, <1>5, <2>1, OthersStay
  <2>2. CASE d = c
    <3>1. \/ Truncate(c) /\ At(c, "dropTruncate")
          \/ Legacy(c) /\ db.hash # None
          \/ Move(c) /\ db' = [db EXCEPT !.hash = "legacy"]
          \/ (Open(c) \/ MigrateCPU(c)) /\ step = AfterOpen(command[c].req)
      BY <1>5, <2>2, Arrival
    <3>2. ~(Move(c) /\ db' = [db EXCEPT !.hash = "legacy"])
      BY <1>0, <1>2, NoneAssumption DEF TypeOK
    <3>3. ~((Open(c) \/ MigrateCPU(c)) /\ step = AfterOpen(command[c].req))
      BY AfterOpening
    <3>. QED
      BY <1>3, <1>4, <3>1, <3>2, <3>3
  <2>. QED
    BY <2>1, <2>2
<1>6. ASSUME NEW d \in Busy', command'[d].req \in {"install", "set", "note"}
      PROVE  command'[d].cfg.legacy
  <2>0. d \in Commands /\ command'[d] # None
    BY <1>6 DEF Busy, Idle
  <2>1. CASE d # c
    BY <1>0, <1>4, <1>6, <2>0, <2>1, OthersStay
  <2>2. CASE d = c /\ Beginning(c)
    <3>1. file \in Record
      BY <1>2, <1>4, <1>6, <2>2, BeginReads
    <3>2. file.legacy
      BY <1>4, <3>1, TornAssumption
    <3>. QED
      BY <1>6, <2>2, <3>1, <3>2, BeginKeeps
  <2>3. CASE d = c /\ Continuing(c)
    <3>1. GoneOn(c)
      BY <1>0, <2>0, <2>3, CommandStep DEF Ended
    <3>2. c \in Busy /\ command'[c].req = command[c].req /\ command'[c].cfg = command[c].cfg
      BY <3>1, KeepsItsRecord DEF GoneOn
    <3>. QED
      BY <1>4, <1>6, <2>3, <3>2
  <2>. QED
    BY <2>0, <2>1, <2>2, <2>3
<1>7. \/ file' \in Record /\ file'.legacy
      \/ file' = Torn /\ \E d \in Commands : At(d, "write")'
  <2>1. CASE Write(c)
    <3>1. c \in Busy /\ command[c].at = "write" /\ file' = command[c].cfg
      BY <2>1 DEF Write, At
    <3>2. command[c].req \in {"install", "set", "note"}
      BY <1>0, <3>1, BusyTypes DEF Shaped, Shape, Command
    <3>. QED
      BY <1>0, <1>4, <3>1, <3>2, Holds
  <2>2. CASE Truncate(c) /\ file' = Torn
    <3>1. CASE Goto(c, "write")
      <4>1. c \in Busy /\ "write" \in Steps
        BY <2>2 DEF Truncate, At, Steps
      <4>2. c \in Busy' /\ command'[c].at = "write"
        BY <1>0, <3>1, <4>1, GoesTo
      <4>. QED
        BY <2>2, <4>2 DEF At
    <3>2. CASE ~Goto(c, "write")
      <4>1. file' = file /\ file = Torn /\ ~At(c, "write")
        BY <1>4, <2>2, <3>2 DEF Truncate, At
      <4>2. PICK d \in Commands \ {c} : At(d, "write")
        BY <1>4, <4>1, TornAssumption
      <4>. QED
        BY <1>0, <4>1, <4>2, OthersStay
    <3>. QED
      BY <3>1, <3>2
  <2>3. CASE file' = file /\ ~Write(c) /\ ~(Truncate(c) /\ file' = Torn)
    <3>1. CASE file \in Record
      BY <1>4, <2>3, <3>1, TornAssumption
    <3>2. CASE file = Torn
      <4>1. PICK d \in Commands : At(d, "write")
        BY <1>4, <3>2, TornAssumption
      <4>2. d # c
        BY <1>0, <1>2, <2>3, <4>1, WriterWrites
      <4>. QED
        BY <1>0, <2>3, <3>2, <4>1, <4>2, OthersStay
    <3>. QED
      BY <1>4, <3>1, <3>2
  <2>4. ~DropWrite(c)
    BY <1>4 DEF DropWrite
  <2>. QED
    BY <2>1, <2>2, <2>3, <2>4, Frame DEF Truncate
<1>. QED
  BY <1>5, <1>6, <1>7

-----------------------------------------------------------------------------
(* The policy.                                                             *)
TheRest(c) == \A d \in Commands \ {c} : ~PolicyCommand(d)

(* What a new command does to the others and to past.                      *)
LEMMA BeginMeets ==
  ASSUME TypeOK, NEW c \in Commands, NEW req, NEW at, NEW cfg, NEW apply, NEW user,
         Begin(c, req, at, cfg, apply, user)
  PROVE  /\ \A d \in Busy : \/ Policy(req) /\ PolicyCommand(d) /\ command'[d].met
                            \/ ~(Policy(req) /\ PolicyCommand(d)) /\ command'[d] = command[d]
         /\ \A d \in Commands \ {c} : d \notin Busy => command'[d] = command[d]
         /\ past \subseteq past'
         /\ "policy" \in past' <=> \/ "policy" \in past
                                   \/ Policy(req) /\ \E d \in Commands : PolicyCommand(d)
<1>. DEFINE others == {d \in Busy : Policy(command[d].req) /\ Policy(req)}
            new == [req |-> req, at |-> at, cfg |-> cfg, apply |-> apply, met |-> others # {},
                    user |-> user]
<1>1. /\ Idle(c)
      /\ command' = [d \in Commands |-> IF d = c THEN new
                                        ELSE IF d \in others THEN [command[d] EXCEPT !.met = TRUE]
                                        ELSE command[d]]
      /\ past' = past \cup (IF others # {} THEN {"policy"} ELSE {})
                      \cup (IF file = Torn /\ req # "passwd" THEN {"torn"} ELSE {})
                      \cup (IF cfg # None /\ Held \ {cfg.subnet} # {} THEN {"edited"} ELSE {})
  BY DEF Begin
<1>2. \A d \in Commands : d \in others <=> Policy(req) /\ PolicyCommand(d)
  BY DEF PolicyCommand
<1>3. others # {} <=> Policy(req) /\ \E d \in Commands : PolicyCommand(d)
  BY DEF PolicyCommand, Busy
<1>4. c \notin others /\ c \notin Busy
  BY <1>1 DEF Busy
<1>5. \A d \in others : d \in Commands /\ command[d] \in Command
                      /\ [command[d] EXCEPT !.met = TRUE].met
  <2> TAKE d \in others
  <2>1. d \in Commands /\ command[d] \in Command
    BY BusyTypes
  <2>. QED
    BY <2>1 DEF Command
<1>. HIDE DEF others, new
<1>6. \A d \in Commands \ {c} : command'[d] = IF d \in others THEN [command[d] EXCEPT !.met = TRUE]
                                             ELSE command[d]
  BY <1>1
<1>7. \A d \in Busy : d \in Commands /\ d # c
  BY <1>4 DEF Busy
<1>8. "policy" \in past' <=> "policy" \in past \/ others # {}
  BY <1>1
<1>9. past \subseteq past'
  BY <1>1
<1>10. \A d \in others : d \in Busy
  BY DEF others
<1>. QED
  BY <1>2, <1>3, <1>5, <1>6, <1>7, <1>8, <1>9, <1>10

(* What becomes of policy's mark.                                          *)
LEMMA PolicyMark ==
  ASSUME Typed, NEW c \in Commands, Continuing(c)
  PROVE  /\ "policy" \in past /\ (PolicyCommand(c) => command[c].met) => "policy" \in past'
         /\ "policy" \in past' /\ ~PolicyCommand(c) => "policy" \in past
<1>0. TypeOK
  BY DEF Typed
<1>1. c \in Busy
  BY DEF Continuing, Truncate, Write, Open, MigrateCPU, Snapshot, Freeze, Wire, WriteMain, ApplyRules,
         ApplySetting, ApplyTraefik, Legacy, Move, DropWrite, AdminCheck, SetHash, Served,
         Reapplied, Added, Deleted, Crash, At
<1>2. ASSUME NEW step \in Steps,
             Goto(c, step) \/ Meet(c, step) \/ Finish(c) \/ GiveUp(c) \/ Fails(c)
      PROVE  /\ past \subseteq past'
             /\ "policy" \in past' /\ ~PolicyCommand(c) => "policy" \in past
  BY <1>1, <1>2 DEF Goto, Meet, Finish, GiveUp, Fails, PolicyCommand, Steps
<1>3. {"write", "dropWrite", "migrate", "freeze", "wire", "main", "rules", "setting", "traefik",
       "move", "dropTruncate", "admin", "init"} \subseteq Steps
  BY DEF Steps
<1>4. CASE Truncate(c) \/ Snapshot(c) \/ Freeze(c) \/ Wire(c) \/ WriteMain(c)
  BY <1>2, <1>3, <1>4, HalfFails DEF Truncate, Snapshot, Freeze, Wire, WriteMain
<1>13. CASE Reapplied(c) \/ Deleted(c)
  BY <1>2, <1>3, <1>13, HalfFails DEF Reapplied, Deleted
<1>5. CASE ApplyRules(c) \/ ApplySetting(c) \/ Legacy(c) \/ Move(c) \/ DropWrite(c)
  BY <1>2, <1>3, <1>5 DEF ApplyRules, ApplySetting, Legacy, Move, DropWrite
<1>6. CASE AdminCheck(c) \/ Served(c)
  BY <1>2, <1>3, <1>6 DEF AdminCheck, Served
<1>7. CASE Open(c) \/ MigrateCPU(c)
  <2>1. AfterOpen(command[c].req) \in Steps
    BY <1>7, AfterOpening DEF Steps
  <2>. QED
    BY <1>2, <1>3, <1>7, <2>1 DEF Open, MigrateCPU
<1>8. CASE SetHash(c)
  <2>1. CASE Fails(c)
    BY <1>2, <1>3, <2>1
  <2>2. CASE ~Fails(c)
    BY <1>8, <2>2 DEF SetHash
  <2>. QED
    BY <2>1, <2>2
<1>9. CASE Write(c)
  BY <1>1, <1>9 DEF Write, PolicyCommand, Policy
<1>10. CASE Added(c)
  <2>1. CASE Fails(c)
    BY <1>2, <1>3, <2>1
  <2>2. CASE ~Fails(c)
    BY <1>1, <1>10, <2>2, HalfFails DEF Added, Is, PolicyCommand, Policy
  <2>. QED
    BY <2>1, <2>2
<1>11. CASE Crash(c)
  BY <1>1, <1>11 DEF Crash, PolicyCommand
<1>12. CASE ApplyTraefik(c)
  <2>1. PolicyCommand(c)
    <3>1. command[c].at = "traefik"
      BY <1>12 DEF ApplyTraefik, At
    <3>2. command[c].req \in {"install", "set"}
      BY <1>1, <3>1, BusyTypes DEF Typed, Shaped, Shape, Command
    <3>. QED
      BY <1>1, <3>2 DEF PolicyCommand, Policy
  <2>2. CASE Fails(c)
    BY <1>2, <1>3, <2>2
  <2>3. CASE ~Fails(c)
    BY <1>12, <2>1, <2>3 DEF ApplyTraefik, Agreed
  <2>. QED
    BY <2>2, <2>3
<1>. QED
  BY <1>4, <1>5, <1>6, <1>7, <1>8, <1>9, <1>10, <1>11, <1>12, <1>13 DEF Continuing

OpenedTo == {"migrate", "snapshot", "rules", "hash", "serve", "rewire", "add", "del"}

TruncatesTo(c, to) ==
  \/ At(c, "truncate") /\ to = "write"
  \/ At(c, "dropTruncate") /\ to = "dropWrite"

(* An install or a change of the policy puts one datum after the other in  *)
(* place; what is in place stays while no other policy command runs.       *)
LEMMA ApplyingStep ==
  ASSUME Typed, NEW c \in Commands, Continuing(c), GoneOn(c),
         command[c].req \in {"install", "set"}, Applying(c)
  PROVE  Applying(c)'
<1>. PICK v4 : v4 = command[c].cfg.v4
  OBVIOUS
<1>. PICK to : to = command'[c].at
  OBVIOUS
<1>0. TypeOK /\ c \in Busy /\ c \in Busy'
  BY NoneAssumption DEF Typed, GoneOn, Busy, Idle
<1>1. /\ command'[c].cfg = command[c].cfg
      /\ command[c].at \notin Beginnings \cup {"dropWrite"} => FileTells(v4)
      /\ command[c].at \in {"setting", "traefik"} \cup Endings => RulesAgree(v4)
      /\ command[c].at \in {"traefik"} \cup Endings => db.v4 = v4
      /\ command[c].at \in Endings => host.traefik = v4
  BY KeepsItsRecord DEF Applying
<1>2. SUFFICES /\ to \notin Beginnings \cup {"dropWrite"} => FileTells(v4)'
               /\ to \in {"setting", "traefik"} \cup Endings => RulesAgree(v4)'
               /\ to \in {"traefik"} \cup Endings => db'.v4 = v4
               /\ to \in Endings => host'.traefik = v4
  BY <1>1 DEF Applying, FileTells, RulesAgree
<1>3. At(c, to)'
  BY <1>0 DEF At
<1>4. ~Beginning(c)
  BY <1>0, CommandStep DEF Typed, Begun, Busy
<1>5. CASE Truncate(c) /\ TruncatesTo(c, to)
  <2>1. UNCHANGED <<db, host, rules>>
    BY <1>5 DEF Truncate
  <2>. QED
    BY <1>1, <1>5, <2>1 DEF TruncatesTo, Beginnings, Endings, RulesAgree, At
<1>6. CASE Write(c) /\ to = "open"
  <2>1. file' = command[c].cfg /\ command[c].at = "write"
    BY <1>6 DEF Write, At
  <2>2. command[c].cfg \in Record
    BY <1>0, <2>1, Holds DEF Typed
  <2>. QED
    BY <1>6, <2>1, <2>2 DEF FileTells, Endings
<1>7. CASE \/ (Open(c) \/ MigrateCPU(c)) /\ to \in OpenedTo
           \/ (Snapshot(c) \/ Freeze(c) \/ Wire(c) \/ WriteMain(c))
                /\ to \in {"freeze", "wire", "main", "rules"}
  <2>1. command[c].at \in {"open", "migrate", "snapshot", "freeze", "wire", "main"}
    BY <1>7 DEF Open, MigrateCPU, Snapshot, Freeze, Wire, WriteMain, At
  <2>2. file' = file
    BY <1>7 DEF Open, MigrateCPU, Snapshot, Freeze, Wire, WriteMain
  <2>3. to \notin {"setting", "traefik"} \cup Endings
    BY <1>7 DEF Endings, OpenedTo
  <2>. QED
    BY <1>1, <2>1, <2>2, <2>3 DEF Beginnings, FileTells
<1>8. CASE /\ ApplyRules(c) /\ to = "setting"
           /\ rules' = [u \in Users |-> IF rules[u] = None THEN None ELSE command[c].cfg.v4]
  <2>1. command[c].at = "rules" /\ file' = file
    BY <1>8 DEF ApplyRules, At
  <2>. QED
    BY <1>1, <1>8, <2>1 DEF Beginnings, Endings, FileTells, RulesAgree
<1>9. CASE ApplySetting(c) /\ to = "traefik" /\ db' = [db EXCEPT !.v4 = command[c].cfg.v4]
  <2>1. command[c].at = "setting" /\ file' = file /\ rules' = rules
    BY <1>9 DEF ApplySetting, At
  <2>2. db'.v4 = v4
    BY <1>0, <1>9 DEF TypeOK
  <2>. QED
    BY <1>1, <1>9, <2>1, <2>2 DEF Beginnings, Endings, FileTells, RulesAgree
<1>10. CASE /\ ApplyTraefik(c) /\ to = "legacy"
            /\ host' = [host EXCEPT !.traefik = command[c].cfg.v4]
  <2>1. command[c].at = "traefik" /\ UNCHANGED <<file, rules, db>>
    BY <1>10 DEF ApplyTraefik, At
  <2>2. host'.traefik = v4
    BY <1>0, <1>10 DEF TypeOK
  <2>. QED
    BY <1>1, <1>10, <2>1, <2>2 DEF Beginnings, Endings, FileTells, RulesAgree
<1>11. CASE Legacy(c) \/ Move(c) \/ AdminCheck(c)
  <2>1. /\ command[c].at \in {"legacy", "move", "admin"}
        /\ ~ApplySetting(c) /\ ~Truncate(c) /\ ~Write(c) /\ ~DropWrite(c) /\ ~ApplyRules(c)
        /\ ~Added(c) /\ ~Deleted(c) /\ ~ApplyTraefik(c)
    BY <1>11 DEF Legacy, Move, AdminCheck, At, ApplySetting, Truncate, Write, DropWrite, ApplyRules,
                 Added, Deleted, ApplyTraefik
  <2>2. file' = file /\ rules' = rules /\ db'.v4 = db.v4 /\ host'.traefik = host.traefik
    BY <2>1, Frame
  <2>. QED
    BY <1>1, <2>1, <2>2 DEF Beginnings, Endings, FileTells, RulesAgree
<1>12. CASE DropWrite(c)
  <2>1. /\ command[c].at = "dropWrite" /\ UNCHANGED <<db, host, rules>>
        /\ file' = [command[c].cfg EXCEPT !.legacy = FALSE]
    BY <1>12 DEF DropWrite, At
  <2>2. command[c].cfg \in Record
    BY <1>0, <2>1, Holds DEF Typed
  <2>3. file' \in Record /\ file'.v4 = v4
    BY <2>1, <2>2 DEF Record
  <2>. QED
    BY <1>1, <2>1, <2>3 DEF Endings, FileTells, RulesAgree
<1>13. \/ Truncate(c) /\ TruncatesTo(c, to)
       \/ Write(c) /\ to = "open"
       \/ (Open(c) \/ MigrateCPU(c)) /\ to \in OpenedTo
       \/ (Snapshot(c) \/ Freeze(c) \/ Wire(c) \/ WriteMain(c))
            /\ to \in {"freeze", "wire", "main", "rules"}
       \/ /\ ApplyRules(c) /\ to = "setting"
          /\ rules' = [u \in Users |-> IF rules[u] = None THEN None ELSE command[c].cfg.v4]
       \/ ApplySetting(c) /\ to = "traefik" /\ db' = [db EXCEPT !.v4 = command[c].cfg.v4]
       \/ /\ ApplyTraefik(c) /\ to = "legacy"
          /\ host' = [host EXCEPT !.traefik = command[c].cfg.v4]
       \/ Legacy(c) \/ Move(c) \/ AdminCheck(c) \/ DropWrite(c)
  <2>1. (Open(c) \/ MigrateCPU(c)) /\ to = AfterOpen(command[c].req) =>
          to \in OpenedTo
    BY AfterOpening DEF OpenedTo
  <2>. QED
    BY <1>3, <1>4, <2>1, Arrival DEF TruncatesTo, OpenedTo
<1>. QED
  BY <1>5, <1>6, <1>7, <1>8, <1>9, <1>10, <1>11, <1>12, <1>13

LEMMA BeginReq ==
  ASSUME NEW c \in Commands, NEW req, NEW at, NEW cfg, NEW apply, NEW user,
         Begin(c, req, at, cfg, apply, user)
  PROVE  command'[c].req = req
<1>. DEFINE others == {d \in Busy : Policy(command[d].req) /\ Policy(req)}
            new == [req |-> req, at |-> at, cfg |-> cfg, apply |-> apply, met |-> others # {},
                    user |-> user]
<1>1. command'[c] = new
  BY DEF Begin
<1>. QED
  BY <1>1

LEMMA WritersKinds ==
  ASSUME NEW c \in Commands, InstallNew(c) \/ InstallAdopt(c) \/ ConfigSet(c)
  PROVE  command'[c].req \in {"install", "set"}
<1>2. CASE InstallNew(c)
  <2>1. PICK cfg : Begin(c, "install", "truncate", cfg, TRUE, None)
    BY <1>2 DEF InstallNew
  <2>. QED
    BY <2>1, BeginReq
<1>3. CASE InstallAdopt(c)
  <2>1. PICK cfg : Begin(c, "install", "truncate", cfg, TRUE, None)
    BY <1>3 DEF InstallAdopt
  <2>. QED
    BY <2>1, BeginReq
<1>4. CASE ConfigSet(c)
  <2>1. PICK cfg, apply : Begin(c, "set", "truncate", cfg, apply, None)
    BY <1>4 DEF ConfigSet
  <2>. QED
    BY <2>1, BeginReq
<1>. QED
  BY <1>2, <1>3, <1>4

(* A command that begins when all is settled.                              *)
LEMMA BeginBeside ==
  ASSUME Typed, Settled, NEW c \in Commands, Beginning(c)
  PROVE  Beside(c)'
<1>0. TypeOK /\ "truncate" \in Steps /\ "open" \in Steps /\ "add" \in Steps
  BY DEF Typed, Steps
<1>1. UNCHANGED <<file, db, host, rules>>
  BY DEF Beginning, InstallNew, InstallAdopt, ConfigSet, NoteVersion, AdminPasswd, Serve, Reapply,
         Add, Del
<1>2. Settled'
  BY <1>1 DEF Settled, FileTells, InPlace, RulesAgree
<1>3. file # Torn
  BY TornAssumption DEF Settled
<1>4. ASSUME NoteVersion(c)
      PROVE  Beside(c)'
  <2>. DEFINE cfg == [file EXCEPT !.uninstalled = "this"]
  <2>1. file \in Record /\ Begin(c, "note", "truncate", cfg, FALSE, None)
    BY <1>3, <1>4 DEF NoteVersion, Loaded, Settled
  <2>2. cfg \in Record
    BY <2>1 DEF Record, Versions
  <2>3. cfg.v4 = file.v4
    BY <2>1 DEF Record
  <2>. HIDE DEF cfg
  <2>4. command'[c].cfg = cfg /\ command'[c].req = "note"
    BY <1>0, <2>1, <2>2, BeginBegins DEF Kinds
  <2>5. command'[c].cfg.v4 = file.v4
    BY <2>3, <2>4
  <2>6. db.v4 # None => db.v4 = file.v4 /\ InPlace(file.v4)
    BY DEF Settled, FileTells
  <2>. QED
    BY <1>1, <2>1, <2>4, <2>5, <2>6 DEF Beside, InPlace, RulesAgree
<1>5. ASSUME NEW u \in Users, Add(c, u)
      PROVE  Beside(c)'
  <2>1. CASE file # None /\ Begin(c, "add", "open", Loaded, FALSE, u)
    <3>1. file \in Record /\ Begin(c, "add", "open", file, FALSE, u)
      BY <1>3, <2>1 DEF Loaded, Settled
    <3>2. command'[c].cfg = file /\ command'[c].req = "add"
      BY <1>0, <3>1, BeginBegins DEF Kinds
    <3>. QED
      BY <1>1, <1>2, <3>1, <3>2 DEF Beside, FileTells
  <2>2. CASE panel # None /\ Begin(c, "panelAdd", "add", panel, FALSE, u)
    <3>1. panel \in Record
      BY <1>0, <2>2 DEF TypeOK
    <3>2. command'[c].req = "panelAdd"
      BY <1>0, <2>2, <3>1, BeginBegins DEF Kinds
    <3>. QED
      BY <1>2, <3>2 DEF Beside
  <2>. QED
    BY <1>5, <2>1, <2>2 DEF Add
<1>6. CASE InstallNew(c) \/ InstallAdopt(c) \/ ConfigSet(c)
  <2>1. command'[c].req \in {"install", "set"}
    BY <1>6, WritersKinds
  <2>. QED
    BY <2>1 DEF Beside
<1>7. CASE AdminPasswd(c) \/ Serve(c) \/ Reapply(c) \/ \E u \in Users : Del(c, u)
  <2>1. PICK req \in {"passwd", "serve", "reapply", "del", "panelDel"} :
          \E at, cfg, user : Begin(c, req, at, cfg, FALSE, user)
    BY <1>7 DEF AdminPasswd, Serve, Reapply, Del
  <2>2. command'[c].req = req
    BY <2>1, BeginReq
  <2>. QED
    BY <2>2 DEF Beside
<1>. QED
  BY <1>4, <1>5, <1>6, <1>7 DEF Beginning

(* The parts of Agreeing.                                                  *)
MetAll == \A c, d \in Commands : PolicyCommand(c) /\ PolicyCommand(d) /\ c # d => command[c].met
MetTold == \A c \in Commands : PolicyCommand(c) /\ command[c].met => "policy" \in past
AtRest == "policy" \notin past /\ (\A c \in Commands : ~PolicyCommand(c)) => Settled
Unmet(c) == PolicyCommand(c) /\ ~command[c].met =>
              /\ command[c].req \in {"install", "set"} => Applying(c)
              /\ "policy" \notin past => Beside(c)

LEMMA AgreeingParts ==
  /\ Agreeing <=> MetAll /\ MetTold /\ AtRest /\ \A c \in Commands : Unmet(c)
  /\ Agreeing' <=> MetAll' /\ MetTold' /\ AtRest' /\ \A c \in Commands : Unmet(c)'
BY DEF Agreeing, MetAll, MetTold, AtRest, Unmet

(* Where nothing of the policy changes but that users go, what agrees goes *)
(* on agreeing.                                                            *)
PolicyData == <<file, db.v4, host.traefik>>
UsersGo == PolicyData' = PolicyData /\ \A u \in Users : rules'[u] \in {rules[u], None}

LEMMA SettledSame ==
  ASSUME UsersGo, Settled
  PROVE  Settled'
BY DEF UsersGo, PolicyData, Settled, FileTells, InPlace, RulesAgree

LEMMA SameAgrees ==
  ASSUME NEW c \in Commands, UsersGo, command'[c].cfg = command[c].cfg,
         command'[c].req = command[c].req, command'[c].at = command[c].at
  PROVE  /\ Applying(c) => Applying(c)'
         /\ Beside(c) => Beside(c)'
<1>1. /\ file' = file /\ db'.v4 = db.v4 /\ host'.traefik = host.traefik
      /\ \A u \in Users : rules'[u] \in {rules[u], None}
  BY DEF UsersGo, PolicyData
<1>2. Settled => Settled'
  BY SettledSame
<1>3. Applying(c) => Applying(c)'
  BY <1>1 DEF Applying, FileTells, RulesAgree
<1>4. Beside(c) => Beside(c)'
  BY <1>1, <1>2 DEF Beside, FileTells, InPlace, RulesAgree
<1>. QED
  BY <1>3, <1>4

LEMMA BeginMet ==
  ASSUME NEW c \in Commands, NEW req, NEW at, NEW cfg, NEW apply, NEW user,
         Begin(c, req, at, cfg, apply, user)
  PROVE  command'[c].met <=> \E d \in Commands : Policy(req) /\ PolicyCommand(d)
<1>. DEFINE others == {d \in Busy : Policy(command[d].req) /\ Policy(req)}
<1>1. command'[c] = [req |-> req, at |-> at, cfg |-> cfg, apply |-> apply, met |-> others # {},
                     user |-> user]
  BY DEF Begin
<1>2. command'[c].met = (others # {})
  BY <1>1
<1>3. others # {} <=> \E d \in Commands : Policy(req) /\ PolicyCommand(d)
  BY DEF PolicyCommand, Busy
<1>. QED
  BY <1>2, <1>3

LEMMA AgreeingBegin ==
  ASSUME Typed, Agreeing, NEW c \in Commands, Beginning(c)
  PROVE  Agreeing'
<1>0. TypeOK /\ Begun(c) /\ Opened(command'[c])
  BY BeginStep DEF Typed, Beginning
<1>1. MetAll /\ MetTold /\ AtRest /\ \A d \in Commands : Unmet(d)
  BY AgreeingParts
<1>2. UsersGo
  BY DEF UsersGo, PolicyData, Beginning, InstallNew, InstallAdopt, ConfigSet, NoteVersion, AdminPasswd, Serve,
         Reapply, Add, Del
<1>3. PICK req, at, cfg, apply, user : Begin(c, req, at, cfg, apply, user)
  BY DEF Beginning, InstallNew, InstallAdopt, ConfigSet, NoteVersion, AdminPasswd, Serve, Reapply,
         Add, Del
<1>4. /\ command'[c].req = req
      /\ command'[c].met <=> \E d \in Commands : Policy(req) /\ PolicyCommand(d)
  BY <1>0, <1>3, BeginReq, BeginMet
<1>5. /\ \A d \in Busy : \/ Policy(req) /\ PolicyCommand(d) /\ command'[d].met
                         \/ ~(Policy(req) /\ PolicyCommand(d)) /\ command'[d] = command[d]
      /\ \A d \in Commands \ {c} : d \notin Busy => command'[d] = command[d]
      /\ "policy" \in past' <=> \/ "policy" \in past
                                \/ Policy(req) /\ \E d \in Commands : PolicyCommand(d)
  BY <1>0, <1>3, BeginMeets
<1>6. c \in Busy' /\ c \notin Busy /\ ~PolicyCommand(c)
  BY <1>0, NoneAssumption DEF Begun, Busy, Idle, PolicyCommand
<1>7. /\ PolicyCommand(c)' <=> Policy(req)
      /\ \A d \in Commands \ {c} : PolicyCommand(d)' <=> PolicyCommand(d)
  <2>1. PolicyCommand(c)' <=> Policy(req)
    BY <1>4, <1>6 DEF PolicyCommand, Policy
  <2>2. \A d \in Commands \ {c} : PolicyCommand(d)' <=> PolicyCommand(d)
    BY <1>0, OthersStay DEF PolicyCommand, Policy
  <2>. QED
    BY <2>1, <2>2
<1>8. CASE Policy(req) /\ \E d \in Commands : PolicyCommand(d)
  <2>1. "policy" \in past'
    BY <1>5, <1>8
  <2>2. \A d \in Commands : PolicyCommand(d)' => command'[d].met
    BY <1>4, <1>5, <1>7, <1>8 DEF PolicyCommand
  <2>. QED
    BY <2>1, <2>2, AgreeingParts DEF MetAll, MetTold, AtRest, Unmet
<1>9. CASE ~(Policy(req) /\ \E d \in Commands : PolicyCommand(d))
  <2>1. \A d \in Commands \ {c} : command'[d] = command[d]
    BY <1>5, <1>9
  <2>2. "policy" \in past' <=> "policy" \in past
    BY <1>5, <1>9
  <2>3. MetAll' /\ MetTold'
    BY <1>1, <1>4, <1>7, <1>9, <2>1, <2>2 DEF MetAll, MetTold
  <2>4. AtRest'
    BY <1>1, <1>2, <1>6, <1>7, <2>2, SettledSame DEF AtRest
  <2>5. ASSUME NEW d \in Commands \ {c}
        PROVE  Unmet(d)'
    BY <1>1, <1>2, <1>7, <2>1, <2>2, SameAgrees DEF Unmet
  <2>6. Unmet(c)'
    <3>1. ASSUME PolicyCommand(c)', "policy" \notin past'
          PROVE  Beside(c)'
      <4>1. Settled
        BY <1>1, <1>7, <1>9, <2>2, <3>1 DEF AtRest
      <4>. QED
        BY <4>1, BeginBeside
    <3>2. ASSUME command'[c].req \in {"install", "set"}
          PROVE  Applying(c)'
      <4>1. command'[c].at = "truncate"
        BY <1>0, <3>2 DEF Opened, Opening
      <4>. QED
        BY <4>1 DEF Applying, Beginnings, Endings
    <3>. QED
      BY <3>1, <3>2 DEF Unmet
  <2>. QED
    BY <2>3, <2>4, <2>5, <2>6, AgreeingParts
<1>. QED
  BY <1>8, <1>9

(* How a policy command may end with nothing said in past.                 *)
LEMMA GoodEnd ==
  ASSUME Typed, NEW c \in Commands, PolicyCommand(c), Continuing(c), Ended(c),
         "policy" \notin past'
  PROVE  \/ Write(c) /\ command[c].req = "note" /\ "policy" \notin past
         \/ /\ At(c, "traefik") /\ UNCHANGED <<file, db, rules>>
            /\ host' = [host EXCEPT !.traefik = command[c].cfg.v4]
         \/ /\ command[c].at \in {"admin", "init"}
            /\ file' = file /\ host' = host /\ rules' = rules /\ db'.v4 = db.v4
         \/ Added(c) /\ ~HalfRewired(c) /\ "policy" \notin past
<1>0. TypeOK /\ c \in Busy /\ Policy(command[c].req) /\ command'[c] = None /\ c \notin Busy'
  BY DEF Typed, PolicyCommand, Ended, Busy, Idle
<1>1. ~Fails(c) /\ ~GiveUp(c) /\ ~Crash(c)
  BY <1>0 DEF Fails, GiveUp, Crash
<1>2. ASSUME NEW step \in Steps, Goto(c, step) \/ Meet(c, step)
      PROVE  FALSE
  BY <1>0, <1>2, GoesTo
<1>3. {"write", "dropWrite", "migrate", "freeze", "wire", "main", "rules", "setting", "traefik",
       "move", "dropTruncate", "admin", "init"} \subseteq Steps
  BY DEF Steps
<1>4. ~Truncate(c) /\ ~Snapshot(c) /\ ~Freeze(c) /\ ~Wire(c) /\ ~WriteMain(c)
  BY <1>1, <1>2, <1>3, HalfFails DEF Truncate, Snapshot, Freeze, Wire, WriteMain
<1>5. ~ApplyRules(c) /\ ~ApplySetting(c) /\ ~Legacy(c) /\ ~Move(c) /\ ~DropWrite(c)
  BY <1>1, <1>2, <1>3 DEF ApplyRules, ApplySetting, Legacy, Move, DropWrite
<1>6. ~Open(c) /\ ~MigrateCPU(c)
  <2>1. Open(c) \/ MigrateCPU(c) => AfterOpen(command[c].req) \in Steps
    BY AfterOpening DEF Steps
  <2>. QED
    BY <1>1, <1>2, <1>3, <2>1 DEF Open, MigrateCPU
<1>7. ~Served(c) /\ ~Reapplied(c) /\ ~Deleted(c)
  <2>1. At(c, "serve") \/ At(c, "rewire") \/ At(c, "del") => ~Policy(command[c].req)
    BY <1>0, BusyTypes DEF At, Typed, Shaped, Shape, Command, Policy, InstallSteps, SetSteps
  <2>. QED
    BY <1>0, <2>1 DEF Served, Reapplied, Deleted
<1>8. CASE Write(c)
  <2>1. /\ command' = [command EXCEPT ![c] = IF command[c].apply
                                            THEN [command[c] EXCEPT !.at = "open"] ELSE None]
        /\ past \subseteq past'
        /\ ~command[c].apply /\ command[c].req = "set" => "policy" \in past'
        /\ command[c].at = "write"
    BY <1>8 DEF Write, At
  <2>2. ~command[c].apply
    <3>1. ASSUME command[c].apply
          PROVE  FALSE
      <4>1. command' = [command EXCEPT ![c].at = "open"] /\ "open" \in Steps
        BY <2>1, <3>1 DEF Steps
      <4>2. command'[c] \in Command
        BY <1>0, <4>1, StepGoesOn
      <4>. QED
        BY <1>0, <4>2, NoneAssumption
    <3>. QED
      BY <3>1
  <2>3. command[c].req = "note"
    BY <1>0, <2>1, <2>2, BusyTypes DEF Typed, Shaped, Shape, Command
  <2>. QED
    BY <1>8, <2>1, <2>3
<1>9. CASE ApplyTraefik(c)
  BY <1>1, <1>9 DEF ApplyTraefik
<1>10. CASE AdminCheck(c)
  BY <1>10 DEF AdminCheck, At
<1>11. CASE SetHash(c)
  <2>1. command[c].at = "init" /\ UNCHANGED <<file, host, rules>>
    <3>1. ~At(c, "hash")
      BY <1>0, BusyTypes DEF At, Typed, Shaped, Shape, Command, Policy, InstallSteps, SetSteps
    <3>. QED
      BY <1>11, <3>1 DEF SetHash, At
  <2>2. ~ApplySetting(c)
    BY <2>1 DEF ApplySetting, At
  <2>. QED
    BY <2>1, <2>2, Frame
<1>12. CASE Added(c)
  BY <1>1, <1>12, HalfFails DEF Added
<1>. QED
  BY <1>1, <1>4, <1>5, <1>6, <1>7, <1>8, <1>9, <1>10, <1>11, <1>12 DEF Continuing

(* One that met no other leaves all in agreement.                          *)
LEMMA EndSettles ==
  ASSUME Typed, NEW c \in Commands, PolicyCommand(c), Continuing(c), Ended(c),
         "policy" \notin past', Unmet(c), ~command[c].met
  PROVE  Settled'
<1>0. /\ TypeOK /\ c \in Busy /\ command[c] \in Command /\ Shape(command[c])
      /\ command[c].req \in {"install", "set"} => Applying(c)
      /\ "policy" \notin past => Beside(c)
  BY BusyTypes DEF Typed, Shaped, PolicyCommand, Unmet
<1>. PICK v4 : v4 = command[c].cfg.v4
  OBVIOUS
<1>1. CASE Write(c) /\ command[c].req = "note" /\ "policy" \notin past
  <2>1. file' = command[c].cfg /\ command[c].at = "write" /\ UNCHANGED <<db, host, rules>>
    BY <1>1 DEF Write, At
  <2>2. file' \in Record
    BY <1>0, <2>1, Holds DEF Typed
  <2>3. db.v4 # None => db.v4 = file'.v4 /\ InPlace(file'.v4)
    BY <1>0, <1>1, <2>1 DEF Beside
  <2>. QED
    BY <2>1, <2>2, <2>3 DEF Settled, FileTells, InPlace, RulesAgree
<1>2. CASE /\ At(c, "traefik") /\ UNCHANGED <<file, db, rules>>
           /\ host' = [host EXCEPT !.traefik = command[c].cfg.v4]
  <2>1. command[c].at = "traefik"
    BY <1>2 DEF At
  <2>2. command[c].req \in {"install", "set"}
    BY <1>0, <2>1 DEF Shape, Command
  <2>3. FileTells(v4) /\ RulesAgree(v4) /\ db.v4 = v4
    BY <1>0, <2>1, <2>2 DEF Applying, Beginnings
  <2>4. host'.traefik = v4
    BY <1>0, <1>2 DEF TypeOK
  <2>. QED
    BY <1>2, <2>3, <2>4 DEF Settled, FileTells, InPlace, RulesAgree
<1>3. CASE /\ command[c].at \in {"admin", "init"}
           /\ file' = file /\ host' = host /\ rules' = rules /\ db'.v4 = db.v4
  <2>1. command[c].req = "install"
    BY <1>0, <1>3 DEF Shape, Command, SetSteps
  <2>2. FileTells(v4) /\ RulesAgree(v4) /\ db.v4 = v4 /\ host.traefik = v4
    BY <1>0, <1>3, <2>1 DEF Applying, Beginnings, Endings
  <2>. QED
    BY <1>3, <2>2 DEF Settled, FileTells, InPlace, RulesAgree
<1>4. CASE Added(c) /\ ~HalfRewired(c) /\ "policy" \notin past
  <2>1. /\ rules' = [rules EXCEPT ![command[c].user] = v4] /\ command[c].at = "add"
        /\ UNCHANGED <<file, db>>
        /\ command[c].req = "panelAdd" /\ v4 # db.v4 => "policy" \in past'
    BY <1>4 DEF Added, At, Is
  <2>6. host'.traefik = host.traefik
    BY <2>1, Frame DEF ApplyTraefik, At
  <2>2. command[c].req \in {"add", "panelAdd"}
    BY <1>0, <2>1 DEF Shape, Command, InstallSteps, SetSteps
  <2>3. Settled /\ (command[c].req = "add" => FileTells(v4))
    BY <1>0, <1>4, <2>2 DEF Beside
  <2>4. db.v4 # None => v4 = db.v4
    BY <2>1, <2>2, <2>3 DEF Settled, FileTells
  <2>5. db.v4 # None => \A u \in Users : rules'[u] \in {None, db.v4}
    BY <1>0, <2>1, <2>3, <2>4 DEF Settled, InPlace, RulesAgree, TypeOK
  <2>. QED
    BY <2>1, <2>3, <2>5, <2>6 DEF Settled, FileTells, InPlace, RulesAgree
<1>. QED
  BY <1>1, <1>2, <1>3, <1>4, GoodEnd

(* What the rest of the commands do does not concern the policy.           *)
LEMMA BesidePolicy ==
  ASSUME Typed, NEW c \in Busy, ~PolicyCommand(c), Continuing(c)
  PROVE  UsersGo
<1>1. c \in Commands /\ command[c] \in Command /\ Shape(command[c]) /\ TypeOK
  BY BusyTypes DEF Typed, Shaped
<1>2. command[c].req \in {"passwd", "serve", "reapply", "del", "panelDel"}
  BY <1>1 DEF PolicyCommand, Policy, Command
<1>3. command[c].at \in {"open", "migrate", "hash", "serve", "rewire", "del"}
  BY <1>1, <1>2 DEF Shape
<1>4. /\ ~Truncate(c) /\ ~Write(c) /\ ~DropWrite(c) /\ ~ApplySetting(c) /\ ~ApplyTraefik(c)
      /\ ~ApplyRules(c) /\ ~Added(c)
  BY <1>3 DEF At, Truncate, Write, DropWrite, ApplySetting, ApplyTraefik, ApplyRules, Added
<1>5. ASSUME NEW u \in Users
      PROVE  rules'[u] \in {rules[u], None}
  <2>1. CASE Deleted(c)
    BY <1>1, <2>1 DEF Deleted, TypeOK
  <2>2. CASE ~Deleted(c)
    BY <1>1, <1>4, <2>2, Frame
  <2>. QED
    BY <2>1, <2>2
<1>. QED
  BY <1>1, <1>4, <1>5, Frame DEF UsersGo, PolicyData

LEMMA NoteGoesOn ==
  ASSUME Typed, NEW c \in Commands, Continuing(c), GoneOn(c), command[c].req = "note"
  PROVE  /\ command'[c].at = "write" /\ UNCHANGED <<db, host, rules>>
         /\ "policy" \in past => "policy" \in past'
<1>0. TypeOK /\ c \in Busy /\ command'[c] # None
  BY NoneAssumption DEF Typed, GoneOn
<1>1. command[c].at \in {"truncate", "write"} /\ ~command[c].apply
  BY <1>0 DEF Typed, Shaped, Shape
<1>2. ~Crash(c)
  BY <1>0, StepEnds DEF Crash, Ended
<1>3. ~Write(c)
  <2>1. Write(c) => command' = [command EXCEPT ![c] = None]
    BY <1>1 DEF Write
  <2>. QED
    BY <1>0, <2>1, StepEnds DEF Ended
<1>4. Truncate(c)
  BY <1>1, <1>2, <1>3 DEF Continuing, At, Truncate, Open, MigrateCPU, Snapshot, Freeze, Wire, WriteMain,
     ApplyRules, ApplySetting, ApplyTraefik, Legacy, Move, DropWrite, AdminCheck, SetHash, Served,
     Reapplied, Added, Deleted
<1>5. Goto(c, "write") \/ Fails(c)
  BY <1>1, <1>4 DEF Truncate, At
<1>6. Goto(c, "write")
  BY <1>0, <1>5, GivesUp
<1>. QED
  BY <1>0, <1>4, <1>6, GoesTo DEF Truncate, Goto, Steps

LEMMA AddGoesOn ==
  ASSUME Typed, NEW c \in Commands, Continuing(c), GoneOn(c), command[c].req \in {"add", "panelAdd"}
  PROVE  UNCHANGED <<file, db.v4, host, rules>> /\ ("policy" \in past => "policy" \in past')
<1>0. TypeOK /\ c \in Busy /\ command'[c] # None
  BY NoneAssumption DEF Typed, GoneOn
<1>1. command[c].at \in {"open", "migrate", "add"}
  BY <1>0 DEF Typed, Shaped, Shape
<1>2. ~GiveUp(c) /\ ~Fails(c)
  BY <1>0, GivesUp
<1>3. ~Added(c) /\ ~Crash(c)
  <2>1. Added(c) \/ Crash(c) => command' = [command EXCEPT ![c] = None]
    BY <1>2, HalfFails DEF Added, Crash
  <2>. QED
    BY <1>0, <2>1, StepEnds DEF Ended
<1>4. Open(c) \/ MigrateCPU(c)
  BY <1>1, <1>3 DEF Continuing, At, Truncate, Write, Snapshot, Freeze, Wire, WriteMain, ApplyRules,
     ApplySetting, ApplyTraefik, Legacy, Move, DropWrite, AdminCheck, SetHash, Served, Reapplied,
     Deleted
<1>5. UNCHANGED <<file, host, rules>> /\ past \subseteq past'
  BY <1>2, <1>4 DEF Open, MigrateCPU, Goto, Meet
<1>6. ~ApplySetting(c)
  BY <1>1 DEF ApplySetting, At
<1>. QED
  BY <1>5, <1>6, Frame

LEMMA AgreeingContinue ==
  ASSUME Typed, Agreeing, NEW c \in Commands, Continuing(c)
  PROVE  Agreeing'
<1>0. TypeOK /\ (GoneOn(c) \/ Ended(c)) /\ c \in Busy
  BY CommandStep DEF Typed, GoneOn, Ended
<1>1. MetAll /\ MetTold /\ AtRest /\ \A d \in Commands : Unmet(d)
  BY AgreeingParts
<1>2. \A d \in Commands \ {c} : command'[d] = command[d] /\ (PolicyCommand(d)' <=> PolicyCommand(d))
  BY <1>0, NoneAssumption DEF GoneOn, Ended, Same, PolicyCommand, Busy, Idle
<1>3. PolicyCommand(c)' <=> PolicyCommand(c) /\ GoneOn(c)
  <2>1. CASE GoneOn(c)
    <3>1. command'[c].req = command[c].req /\ command'[c] # None
      BY <2>1, KeepsItsRecord, NoneAssumption DEF GoneOn
    <3>. QED
      BY <1>0, <2>1, <3>1 DEF PolicyCommand, Busy, Idle
  <2>2. CASE Ended(c)
    BY <2>2, NoneAssumption DEF Ended, GoneOn, PolicyCommand, Busy, Idle
  <2>. QED
    BY <1>0, <2>1, <2>2
<1>4. GoneOn(c) => /\ command'[c].met = command[c].met /\ command'[c].req = command[c].req
                   /\ command'[c].cfg = command[c].cfg
  BY KeepsItsRecord
<1>5. MetAll'
  BY <1>1, <1>2, <1>3, <1>4 DEF MetAll
<1>6. CASE ~PolicyCommand(c)
  <2>1. "policy" \in past' <=> "policy" \in past
    BY <1>6, PolicyMark
  <2>2. UsersGo
    BY <1>0, <1>6, BesidePolicy
  <2>3. MetTold' /\ AtRest'
    BY <1>1, <1>2, <1>3, <1>6, <2>1, <2>2, SettledSame DEF MetTold, AtRest
  <2>4. ASSUME NEW d \in Commands
        PROVE  Unmet(d)'
    <3>1. CASE d = c
      BY <1>3, <1>6, <3>1 DEF Unmet
    <3>2. CASE d # c
      BY <1>1, <1>2, <2>1, <2>2, <3>2, SameAgrees DEF Unmet
    <3>. QED
      BY <3>1, <3>2
  <2>. QED
    BY <1>5, <2>3, <2>4, AgreeingParts
<1>7. CASE PolicyCommand(c)
  <2>1. \A d \in Commands \ {c} : PolicyCommand(d) => command[d].met /\ command[c].met
    BY <1>1, <1>7 DEF MetAll
  <2>2. command[c].met => "policy" \in past'
    BY <1>1, <1>7, PolicyMark DEF MetTold
  <2>3. MetTold'
    BY <1>2, <1>3, <1>4, <2>1, <2>2 DEF MetTold
  <2>4. AtRest'
    <3>1. SUFFICES ASSUME "policy" \notin past', \A d \in Commands : ~PolicyCommand(d)'
                   PROVE  Settled'
      BY DEF AtRest
    <3>2. Ended(c) /\ ~command[c].met
      BY <1>0, <1>3, <1>7, <2>2, <3>1
    <3>. QED
      BY <1>1, <1>7, <3>1, <3>2, EndSettles
  <2>5. \A d \in Commands \ {c} : Unmet(d)'
    BY <1>2, <2>1 DEF Unmet
  <2>6. Unmet(c)'
    <3>1. SUFFICES ASSUME GoneOn(c), ~command[c].met
                   PROVE  /\ command'[c].req \in {"install", "set"} => Applying(c)'
                          /\ "policy" \notin past' => Beside(c)'
      BY <1>3, <1>4 DEF Unmet
    <3>2. command'[c].req \in {"install", "set"} => Applying(c)'
      BY <1>1, <1>4, <1>7, <3>1, ApplyingStep DEF Unmet
    <3>3. ASSUME "policy" \notin past'
          PROVE  Beside(c)'
      <4>1. CASE command[c].req = "note"
        <5>1. command'[c].at = "write" /\ UNCHANGED <<db, host, rules>> /\ "policy" \notin past
          BY <3>1, <3>3, <4>1, NoteGoesOn
        <5>2. command'[c].cfg = command[c].cfg /\ command'[c].req = "note"
          BY <1>4, <3>1, <4>1
        <5>3. Beside(c)
          BY <1>1, <1>7, <3>1, <5>1 DEF Unmet
        <5>. QED
          BY <4>1, <5>1, <5>2, <5>3 DEF Beside, InPlace, RulesAgree
      <4>2. CASE command[c].req \in {"add", "panelAdd"}
        <5>1. UNCHANGED <<file, db.v4, host, rules>> /\ "policy" \notin past
          BY <3>1, <3>3, <4>2, AddGoesOn
        <5>2. command'[c].cfg = command[c].cfg /\ command'[c].req = command[c].req
          BY <1>4, <3>1
        <5>3. Beside(c)
          BY <1>1, <1>7, <3>1, <5>1 DEF Unmet
        <5>. QED
          BY <4>2, <5>1, <5>2, <5>3 DEF Beside, Settled, FileTells, InPlace, RulesAgree
      <4>3. CASE command[c].req \in {"install", "set"}
        BY <1>4, <3>1, <4>3 DEF Beside
      <4>. QED
        BY <1>7, <4>1, <4>2, <4>3 DEF PolicyCommand, Policy
    <3>. QED
      BY <3>2, <3>3
  <2>. QED
    BY <1>5, <2>3, <2>4, <2>5, <2>6, AgreeingParts
<1>. QED
  BY <1>6, <1>7

LEMMA AgreeingEdit ==
  ASSUME Typed, Agreeing, Edit
  PROVE  Agreeing'
<1>1. /\ UNCHANGED <<db, host, rules, panel, command>> /\ past' = past \cup {"edited"}
      /\ file \in Record /\ file' \in Record /\ file'.v4 = file.v4
  BY DEF Edit, Record
<1>2. Settled' <=> Settled
  BY <1>1 DEF Settled, FileTells, InPlace, RulesAgree
<1>3. \A c \in Commands : (Applying(c)' <=> Applying(c)) /\ (Beside(c)' <=> Beside(c))
  BY <1>1, <1>2 DEF Applying, Beside, FileTells, InPlace, RulesAgree
<1>4. \A c \in Commands : PolicyCommand(c)' <=> PolicyCommand(c)
  BY <1>1 DEF PolicyCommand, Busy, Idle
<1>. QED
  BY <1>1, <1>2, <1>3, <1>4 DEF Agreeing

-----------------------------------------------------------------------------
(* Steps of no command: the panel stops, an operator edits the subnet.     *)
LEMMA NoCommandMoves ==
  ASSUME Typed, PanelStops \/ Edit \/ UNCHANGED vars
  PROVE  /\ UNCHANGED <<db, host, rules, command>>
         /\ past' \in {past, past \cup {"edited"}}
         /\ file' = file \/ "edited" \in past'
         /\ panel' \in {panel, None}
         /\ \/ file' = file
            \/ /\ file \in Record /\ file' \in Record
               /\ file'.v4 = file.v4 /\ file'.legacy = file.legacy /\ file'.born = file.born
               /\ file'.installed = file.installed /\ file'.uninstalled = file.uninstalled
<1>1. CASE PanelStops
  BY <1>1 DEF PanelStops
<1>2. CASE Edit
  BY <1>2 DEF Edit, Record
<1>3. CASE UNCHANGED vars
  BY <1>3 DEF vars
<1>. QED
  BY <1>1, <1>2, <1>3

LEMMA NoCommandHarms ==
  ASSUME Typed, PanelStops \/ Edit \/ UNCHANGED vars
  PROVE  /\ Migration => Migration'
         /\ Freezing => Freezing'
         /\ Unedited => Unedited'
         /\ Moving => Moving'
         /\ Adoption => Adoption'
         /\ Keeping => Keeping'
         /\ Agreeing => Agreeing'
<1>1. /\ UNCHANGED <<db, host, rules, command>>
      /\ past' \in {past, past \cup {"edited"}}
      /\ file' = file \/ "edited" \in past'
      /\ panel' \in {panel, None}
      /\ \/ file' = file
         \/ /\ file \in Record /\ file' \in Record
            /\ file'.v4 = file.v4 /\ file'.legacy = file.legacy /\ file'.born = file.born
            /\ file'.installed = file.installed /\ file'.uninstalled = file.uninstalled
  BY NoCommandMoves
<1>2. Busy' = Busy /\ \A c, step : At(c, step)' <=> At(c, step)
  BY <1>1 DEF Busy, Idle, At
<1>3. Migration => Migration'
  BY <1>1, <1>2 DEF Migration, Alone
<1>4. Freezing => Freezing'
  BY <1>1, <1>2 DEF Freezing, Alone
<1>9. Unedited => Unedited'
  <2>1. file' = file => Held' \subseteq Held
    BY <1>1, <1>2, NoneAssumption DEF Held
  <2>. QED
    BY <1>1, <2>1 DEF Unedited
<1>5. Moving => Moving'
  BY <1>1, <1>2 DEF Moving
<1>6. Adoption => Adoption'
  <2>1. ASSUME file \in Record => Honest(file)
        PROVE  file' \in Record => Honest(file')
    BY <1>1, <2>1 DEF Honest, Origin
  <2>. QED
    BY <1>1, <1>2, <2>1 DEF Adoption
<1>7. Keeping => Keeping'
  <2>1. file # None => file' # None
    BY <1>1, NoneAssumption
  <2>2. /\ file \in Record /\ file.legacy => file' \in Record /\ file'.legacy
        /\ file = Torn => file' = Torn
    BY <1>1, TornAssumption
  <2>. QED
    BY <1>1, <1>2, <2>1, <2>2 DEF Keeping
<1>8. Agreeing => Agreeing'
  <2>1. CASE Edit
    BY <2>1, AgreeingEdit
  <2>2. CASE ~Edit
    <3>1. UsersGo /\ past' = past
      BY <1>1, <2>2 DEF UsersGo, PolicyData, PanelStops, vars
    <3>2. \A c \in Commands : /\ PolicyCommand(c)' <=> PolicyCommand(c)
                              /\ Unmet(c) => Unmet(c)'
      BY <1>1, <1>2, <3>1, SameAgrees DEF PolicyCommand, Unmet
    <3>3. Settled => Settled'
      BY <3>1, SettledSame
    <3>. QED
      BY <1>1, <3>1, <3>2, <3>3, AgreeingParts DEF MetAll, MetTold, AtRest
  <2>. QED
    BY <2>1, <2>2
<1>. QED
  BY <1>3, <1>4, <1>5, <1>6, <1>7, <1>8, <1>9

(* Where it all begins: no command is at work.                             *)
LEMMA Beginning0 ==
  ASSUME Init
  PROVE  /\ Busy = {} /\ panel = None
         /\ db = [snapshot |-> None, v4 |-> None, hash |-> None, scale |-> 0, version |-> 0]
         /\ host = [main |-> None, ndp |-> None, traefik |-> FALSE]
         /\ "torn" \notin past
         /\ file = None \/ (file \in Record /\ Honest(file))
         /\ "legacy" \in past => file \in Record /\ file.legacy
         /\ "policy" \notin past
<1>1. /\ Busy = {} /\ panel = None
      /\ db = [snapshot |-> None, v4 |-> None, hash |-> None, scale |-> 0, version |-> 0]
      /\ host = [main |-> None, ndp |-> None, traefik |-> FALSE]
  BY DEF Init, Busy, Idle
<1>2. past = IF file # None /\ file.legacy THEN {"legacy"} ELSE {}
  BY DEF Init
<1>3. file = None \/ (file \in Record /\ Honest(file))
  <2>1. CASE file # None
    <3>1. PICK origin \in {"none", "old", "this"}, subnet \in Subnets, legacy \in BOOLEAN :
            file = [Default EXCEPT !.subnet = subnet, !.installed = origin, !.legacy = legacy,
                                   !.born = IF origin = "this" THEN "this" ELSE "old"]
      BY <2>1 DEF Init
    <3>2. file \in Record
      BY <3>1 DEF Default, Record, Subnets, Versions
    <3>3. /\ file.installed = origin /\ file.uninstalled = "none"
          /\ file.born = IF origin = "this" THEN "this" ELSE "old"
      BY <3>1 DEF Default
    <3>. QED
      BY <3>2, <3>3 DEF Honest, Origin
  <2>. QED
    BY <2>1
<1>. QED
  BY <1>1, <1>2, <1>3

LEMMA AllBegin ==
  ASSUME Init
  PROVE  Migration /\ Freezing /\ Unedited /\ Moving /\ Adoption /\ Keeping /\ Agreeing
<1>1. /\ Busy = {} /\ panel = None
      /\ db.scale = 0 /\ db.version = 0 /\ db.v4 = None
      /\ host.main = None /\ host.ndp = None /\ db.snapshot = None /\ "torn" \notin past
      /\ file = None \/ (file \in Record /\ Honest(file))
      /\ "legacy" \in past => file \in Record /\ file.legacy
  BY Beginning0
<1>2. \A c, step : ~At(c, step)
  BY <1>1 DEF At
<1>3. \A c : ~PolicyCommand(c)
  BY <1>1 DEF PolicyCommand
<1>4. Migration /\ Freezing /\ Moving
  BY <1>1, <1>2 DEF Migration, Freezing, Moving, Alone
<1>8. Unedited
  <2>1. Held = {r.subnet : r \in {file} \cap Record}
    BY <1>1, NoneAssumption DEF Held
  <2>. QED
    BY <2>1 DEF Unedited
<1>5. Adoption
  BY <1>1, NoneAssumption DEF Adoption
<1>6. Keeping
  BY <1>1, <1>2, NoneAssumption DEF Keeping
<1>7. Agreeing
  BY <1>1, <1>3 DEF Agreeing, Settled
<1>. QED
  BY <1>4, <1>5, <1>6, <1>7, <1>8

-----------------------------------------------------------------------------
(* The CPU column is scaled exactly as often as user_version tells         *)
(* (internal/db migrateCPU), however many processes open the database and  *)
(* wherever they die: unless two met before the transaction.               *)
THEOREM CpuScaled == Spec => []CpuScaledOnce
<1>1. Init => Typed /\ Migration
  BY TypedInit, AllBegin
<1>2. Typed /\ Migration /\ [Next]_vars => Typed' /\ Migration'
  BY TypedStep, MigrationStep, NoCommandHarms, NextSteps
<1>3. Migration => CpuScaledOnce
  BY DEF Migration, CpuScaledOnce
<1>. QED
  BY <1>1, <1>2, <1>3, PTL DEF Spec

(* The nftables main file that `vps install` generates comes from the      *)
(* immutable fields as the first install froze them in the settings,       *)
(* whatever the file says since: unless two installs froze at once. What   *)
(* ipv6-reapply, Add and Del render anew from the live record agrees with  *)
(* them as long as the fields have had one value.                          *)
THEOREM Wired == Spec => []WiredAsSnapshotted
<1>1. Init => Typed /\ Freezing /\ Unedited
  BY TypedInit, AllBegin
<1>2. Typed /\ Freezing /\ Unedited /\ [Next]_vars => Typed' /\ Freezing' /\ Unedited'
  BY TypedStep, FreezingStep, UneditedStep, NoCommandHarms, NextSteps
<1>3. Freezing /\ Unedited => WiredAsSnapshotted
  BY DEF Freezing, Unedited, Held, WiredAsSnapshotted
<1>. QED
  BY <1>1, <1>2, <1>3, PTL DEF Spec

(* migrateLegacyAdminPass never puts the password of the file in the place *)
(* of one set with this release: unless it was set between its look at the *)
(* settings and its write.                                                 *)
THEOREM NeverReverts == Spec => PassNeverReverts
<1>1. Init => Typed /\ Moving
  BY TypedInit, AllBegin
<1>2. Typed /\ Moving /\ [Next]_vars => Typed' /\ Moving'
  BY TypedStep, MovingStep, NoCommandHarms, NextSteps
<1>3. Typed /\ Moving /\ [Next]_vars =>
        [db.hash = "new" /\ "move" \notin past => db'.hash # "legacy"]_vars
  <2>1. SUFFICES ASSUME Typed, Moving, [Next]_vars, db.hash = "new", "move" \notin past
                 PROVE  db'.hash # "legacy"
    OBVIOUS
  <2>2. CASE \E c \in Commands : Beginning(c) \/ Continuing(c)
    BY <2>1, <2>2, MovingStep
  <2>3. CASE PanelStops \/ Edit \/ UNCHANGED vars
    BY <2>1, <2>3, NoCommandMoves
  <2>. QED
    BY <2>1, <2>2, <2>3, NextSteps
<1>. QED
  BY <1>1, <1>2, <1>3, PTL DEF Spec, PassNeverReverts

(* blockUnadoptable lets neither an install wire the host anew nor the     *)
(* panel run on the data of another release, however the file got torn,    *)
(* overwritten or noted: unless an uninstaller of this release signed it.  *)
THEOREM Adopts == Spec => []NeverAdoptsOld
<1>1. Init => Typed /\ Adoption
  BY TypedInit, AllBegin
<1>2. Typed /\ Adoption /\ [Next]_vars => Typed' /\ Adoption'
  BY TypedStep, AdoptionStep, NoCommandHarms, NextSteps
<1>3. ASSUME Typed, Adoption
      PROVE  NeverAdoptsOld
  <2>1. ASSUME NEW c \in Commands, At(c, "wire")
        PROVE  command[c].req = "install"
    <3>1. c \in Busy /\ command[c].at = "wire" /\ command[c] \in Command /\ Shape(command[c])
      BY <1>3, <2>1, BusyTypes DEF At, Typed, Shaped
    <3>. QED
      BY <3>1 DEF Shape, Command, SetSteps
  <2>. QED
    BY <1>3, <2>1 DEF Adoption, NeverAdoptsOld, At
<1>. QED
  BY <1>1, <1>2, <1>3, PTL DEF Spec

(* On its way from config.yaml to the settings the administrator's         *)
(* password is always in one or the other, or about to be written back:    *)
(* unless a file was left, or read, half-written.                          *)
THEOREM PassKept == Spec => []AdminPassKept
<1>1. Init => Typed /\ Keeping
  BY TypedInit, AllBegin
<1>2. Typed /\ Keeping /\ [Next]_vars => Typed' /\ Keeping'
  BY TypedStep, KeepingStep, NoCommandHarms, NextSteps
<1>3. ASSUME Typed, Keeping
      PROVE  AdminPassKept
  <2>1. ASSUME NEW c \in Commands, At(c, "write")
        PROVE  c \in Busy /\ command[c].req \in {"install", "set", "note"}
    <3>1. c \in Busy /\ command[c].at = "write" /\ command[c] \in Command /\ Shape(command[c])
      BY <1>3, <2>1, BusyTypes DEF At, Typed, Shaped
    <3>. QED
      BY <3>1 DEF Shape, Command
  <2>. QED
    BY <1>3, <2>1 DEF Keeping, AdminPassKept, HasLegacy
<1>. QED
  BY <1>1, <1>2, <1>3, PTL DEF Spec

(* When no command that deals with the policy is at work, the file, the    *)
(* setting v4_forward, traefik and the rules of every user tell the same:  *)
(* unless one failed half-way, saved without applying, met another, or the *)
(* panel served a user by a record older than the setting.                 *)
THEOREM PolicyAgreement == Spec => []PolicyAgrees
<1>1. Init => Typed /\ Agreeing
  BY TypedInit, AllBegin
<1>2. Typed /\ Agreeing /\ [Next]_vars => Typed' /\ Agreeing'
  BY TypedStep, AgreeingBegin, AgreeingContinue, NoCommandHarms, NextSteps
<1>3. Agreeing => PolicyAgrees
  BY DEF Agreeing, PolicyAgrees, PolicyCommand, Settled, FileTells, InPlace, RulesAgree
<1>. QED
  BY <1>1, <1>2, <1>3, PTL DEF Spec
=============================================================================
