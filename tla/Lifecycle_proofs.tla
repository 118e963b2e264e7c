------------------------- MODULE Lifecycle_proofs -------------------------
(***************************************************************************)
(* Proofs about Lifecycle for every set of names, indices, ports and ids.  *)
(* Most are about one process (the panel, with however many requests it is *)
(* serving): across processes the addresses do not hold, as the run on     *)
(* Lifecycle_crossprocess.cfg shows. Two are about any number of processes *)
(* that only add users, and the last ones about what an index, a port and  *)
(* a name stand for (Addresses).                                           *)
(***************************************************************************)
EXTENDS Lifecycle, Addresses, FiniteSetTheorems, TLAPS

Steps == AddSteps \cup UndoSteps \cup DelSteps \cup ReinstallSteps

-----------------------------------------------------------------------------
(* Type correctness, for any number of processes.                          *)

(* Moving a request to its next call, or ending it, keeps ops well typed.  *)
LEMMA GotoType ==
  ASSUME TypeOK, NEW op \in ops, NEW s \in Steps, Goto(op, s)
  PROVE  ops' \subseteq Op /\ opMu' \subseteq Processes /\ served' \subseteq Names
BY DEF TypeOK, Goto, Op, Steps

LEMMA UnlockType ==
  ASSUME TypeOK, NEW op \in ops, Unlock(op)
  PROVE  ops' \subseteq Op /\ opMu' \subseteq Processes
BY DEF TypeOK, Unlock

LEMMA ReturnType ==
  ASSUME TypeOK, NEW op \in ops, Return(op)
  PROVE  ops' \subseteq Op /\ opMu' \subseteq Processes /\ served' \subseteq Names
BY UnlockType DEF TypeOK, Return

(* Every step keeps the types.                                             *)
LEMMA StepType ==
  ASSUME TypeOK, [Next]_vars
  PROVE  TypeOK'
<1> USE DEF Steps, AddSteps, UndoSteps, DelSteps, ReinstallSteps
<1>1. CASE Arrive
  <2>1. ASSUME NEW p \in Processes, NEW n \in Names, NEW i \in Idxs,
               NEW s \in Ports, AddPick(p, n, i, s)
        PROVE  TypeOK'
    BY <2>1 DEF AddPick, Begin, TypeOK, Op, stores
  <2>2. ASSUME NEW p \in Processes, NEW r \in users,
               DelLookup(p, r) \/ ReinstallLookup(p, r)
        PROVE  TypeOK'
    BY <2>2 DEF DelLookup, ReinstallLookup, Begin, TypeOK, Op, Row, stores
  <2>3. QED BY <1>1, <2>1, <2>2 DEF Arrive
<1>2. ASSUME NEW op \in ops, AddStep(op) PROVE TypeOK'
  <2>0. op \in Op BY DEF TypeOK
  <2>1. CASE AddCheckLXD(op)
    BY <2>1, GotoType, ReturnType DEF AddCheckLXD, stores, TypeOK
  <2>2. CASE AddLaunch(op)
    BY <2>2, <2>0, GotoType, ReturnType
    DEF AddLaunch, Launched, LaunchFailed, TypeOK, Op, Container
  <2>3. CASE AddProvision(op)
    BY <2>3, GotoType DEF AddProvision, stores, TypeOK
  <2>4. CASE AddWire(op)
    BY <2>4, <2>0, GotoType DEF AddWire, Wired, TypeOK, Op, Row
  <2>5. CASE AddInsert(op)
    <3>1. CASE Goto(op, "undo.wire") /\ UNCHANGED users
      BY <3>1, <2>5, GotoType DEF AddInsert, TypeOK
    <3>2. ASSUME NEW i \in FreshIds,
                 users' = users \cup
                   {[id |-> i, name |-> op.name, idx |-> op.idx, port |-> op.port]},
                 ops' = (ops \ {op}) \cup {[op EXCEPT !.at = "add.rules", !.id = i]},
                 UNCHANGED <<opMu, served>>
          PROVE  TypeOK'
      <4>1. i \in Ids
        BY DEF FreshIds
      <4>2. [id |-> i, name |-> op.name, idx |-> op.idx, port |-> op.port] \in Row
        BY <4>1, <2>0 DEF Op, Row
      <4>3. [op EXCEPT !.at = "add.rules", !.id = i] \in Op
        BY <4>1, <2>0 DEF Op
      <4>4. QED BY <4>2, <4>3, <3>2, <2>5 DEF AddInsert, TypeOK
    <3>3. QED BY <3>1, <3>2, <2>5 DEF AddInsert
  <2>6. CASE AddRules(op)
    BY <2>6, <2>0, GotoType DEF AddRules, Without, TypeOK, Op, Rule
  <2>7. CASE AddReload(op)
    BY <2>7, <2>0, GotoType, UnlockType
    DEF AddReload, Reloaded, ReloadFailed, TypeOK, Op
  <2>8. QED BY <1>2, <2>1, <2>2, <2>3, <2>4, <2>5, <2>6, <2>7 DEF AddStep
<1>3. ASSUME NEW op \in ops, UndoStep(op) PROVE TypeOK'
  BY <1>3, GotoType, ReturnType
  DEF UndoStep, UndoWire, UndoDelete, UndoRules, UndoReload, UndoRow, Unwired,
      Deleted, DeleteFailed, Reloaded, ReloadFailed, Without, TypeOK, Row
<1>4. ASSUME NEW op \in ops, DelStep(op) PROVE TypeOK'
  BY <1>4, GotoType, ReturnType
  DEF DelStep, DelContainer, DelWire, DelRules, DelReload, DelRow, Unwired,
      Deleted, DeleteFailed, Reloaded, ReloadFailed, Without, TypeOK, Row
<1>5. ASSUME NEW op \in ops, ReinstallStep(op) PROVE TypeOK'
  <2>0. op \in Op BY DEF TypeOK
  <2>1. CASE ReinstallDelete(op)
    BY <2>1, GotoType, ReturnType DEF ReinstallDelete, Deleted, DeleteFailed, TypeOK
  <2>2. CASE ReinstallLaunch(op)
    BY <2>2, <2>0, GotoType, ReturnType
    DEF ReinstallLaunch, Launched, LaunchFailed, TypeOK, Op, Container
  <2>3. CASE ReinstallProvision(op)
    BY <2>3, GotoType, ReturnType DEF ReinstallProvision, stores, TypeOK
  <2>4. CASE ReinstallWire(op)
    BY <2>4, <2>0, ReturnType DEF ReinstallWire, Wired, TypeOK, Op, Row
  <2>5. QED BY <1>5, <2>1, <2>2, <2>3, <2>4 DEF ReinstallStep
<1>6. ASSUME NEW op \in ops, Crash(op) PROVE TypeOK'
  BY <1>6, ReturnType DEF Crash, stores, TypeOK
<1>7. CASE UNCHANGED vars
  BY <1>7 DEF vars, TypeOK
<1>8. QED BY <1>1, <1>2, <1>3, <1>4, <1>5, <1>6, <1>7 DEF Next

(* Rows, instances, rules and requests keep their types under every        *)
(* interleaving of any number of processes.                                *)
THEOREM TypeCorrect == Spec => []TypeOK
<1>1. Init => TypeOK
  BY DEF Init, TypeOK
<1>2. TypeOK /\ [Next]_vars => TypeOK'
  BY StepType
<1>3. QED BY <1>1, <1>2, PTL DEF Spec

-----------------------------------------------------------------------------
(* One process: addresses.                                                 *)

OneProcess == \A p, q \in Processes : p = q

RowOf(op) == [id |-> op.id, name |-> op.name, idx |-> op.idx, port |-> op.port]

(* opMu admits one request.                                                *)
Alone ==
  /\ \A a, b \in ops : a = b
  /\ \A a \in ops : a.proc \in opMu

UniqueRows ==
  \A r, s \in users :
    r.id = s.id \/ r.name = s.name \/ r.idx = s.idx \/ r.port = s.port => r = s

UniqueNames ==
  \A c, d \in containers : c.name = d.name => c = d

NoRow(op) ==
  /\ op.id = NoId
  /\ \A r \in users : r.name # op.name /\ r.idx # op.idx /\ r.port # op.port

BeforeInsert == {"add.check", "add.launch", "add.provision", "add.wire", "add.insert"}

(* What the request in progress knows about the rows...                    *)
RowKnown(op) ==
  /\ op.at \in BeforeInsert => NoRow(op)
  /\ op.at \in {"add.rules", "add.reload"} \cup DelSteps \cup ReinstallSteps
       => RowOf(op) \in users
  /\ op.at \in UndoSteps => NoRow(op) \/ RowOf(op) \in users

(* ... and about the instances: the address it is about to use is free.    *)
AddressKnown(op) ==
  /\ op.at = "add.launch" =>
       \A c \in containers : c.name # op.name /\ c.ip # op.idx
  /\ op.at \in {"add.provision", "add.wire", "add.insert"} =>
       \A c \in containers : c.name = op.name <=> c.ip = op.idx

AddressInv ==
  /\ Alone
  /\ UniqueRows
  /\ UniqueNames
  /\ NoSharedAddress
  /\ AddressOfUser
  /\ \A op \in ops : RowKnown(op) /\ AddressKnown(op)

(* The only request either moves on or ends.                               *)
LEMMA Moved ==
  ASSUME TypeOK, Alone, NEW op \in ops, NEW s \in Steps, Goto(op, s)
  PROVE  /\ ops' = {[op EXCEPT !.at = s]}
         /\ Alone'
         /\ \A m \in ops' : /\ m.at = s /\ m.proc = op.proc /\ m.name = op.name
                            /\ m.idx = op.idx /\ m.port = op.port /\ m.id = op.id
<1>1. ops = {op}
  BY DEF Alone
<1>2. ops' = {[op EXCEPT !.at = s]} /\ opMu' = opMu
  BY <1>1 DEF Goto
<1>3. op \in Op
  BY DEF TypeOK
<1>4. QED BY <1>2, <1>3 DEF Alone, Op

LEMMA Ended ==
  ASSUME Alone, NEW op \in ops, Unlock(op)
  PROVE  ops' = {} /\ Alone'
BY DEF Alone, Unlock

(* The invariant over the rows, instances and requests is kept by every    *)
(* call of every handler.                                                  *)
LEMMA AddressStep ==
  ASSUME OneProcess, TypeOK, AddressInv, [Next]_vars
  PROVE  AddressInv'
<1> USE DEF Steps, AddSteps, UndoSteps, DelSteps, ReinstallSteps, BeforeInsert
<1>1. ASSUME NEW p \in Processes, NEW n \in Names, NEW i \in Idxs, NEW s \in Ports,
             AddPick(p, n, i, s)
      PROVE  AddressInv'
  <2>1. ops = {}
    BY <1>1 DEF AddPick, Begin, AddressInv, Alone, OneProcess, TypeOK, Op
  <2>2. QED
    BY <1>1, <2>1
    DEF AddPick, Begin, AddressInv, Alone, stores, UniqueRows, UniqueNames,
        NoSharedAddress, AddressOfUser, RowKnown, NoRow, AddressKnown
<1>2. ASSUME NEW p \in Processes, NEW r \in users,
             DelLookup(p, r) \/ ReinstallLookup(p, r)
      PROVE  AddressInv'
  <2>1. ops = {}
    BY <1>2
    DEF DelLookup, ReinstallLookup, Begin, AddressInv, Alone, OneProcess, TypeOK, Op
  <2>2. [id |-> r.id, name |-> r.name, idx |-> r.idx, port |-> r.port] = r
    BY DEF TypeOK, Row
  <2>3. QED
    BY <1>2, <2>1, <2>2
    DEF DelLookup, ReinstallLookup, Begin, AddressInv, Alone, stores, UniqueRows,
        UniqueNames, NoSharedAddress, AddressOfUser, RowKnown, RowOf, AddressKnown
<1>3. ASSUME NEW op \in ops, AddStep(op) PROVE AddressInv'
  <2>0. op \in Op /\ Alone /\ RowKnown(op) /\ AddressKnown(op)
    BY DEF TypeOK, AddressInv
  <2>1. CASE AddCheckLXD(op)
    BY <2>0, <2>1, Moved, Ended
    DEF AddCheckLXD, Return, AddressInv, stores, UniqueRows, UniqueNames,
        NoSharedAddress, AddressOfUser, RowKnown, NoRow, RowOf, AddressKnown
  <2>2. CASE AddLaunch(op)
    BY <2>0, <2>2, Moved, Ended
    DEF AddLaunch, Launched, LaunchFailed, HasContainer, Return, AddressInv,
        UniqueRows, UniqueNames, NoSharedAddress, AddressOfUser, RowKnown, NoRow,
        RowOf, AddressKnown
  <2>3. CASE AddProvision(op)
    BY <2>0, <2>3, Moved
    DEF AddProvision, AddressInv, stores, UniqueRows, UniqueNames,
        NoSharedAddress, AddressOfUser, RowKnown, NoRow, RowOf, AddressKnown
  <2>4. CASE AddWire(op)
    BY <2>0, <2>4, Moved
    DEF AddWire, AddressInv, UniqueRows, UniqueNames,
        NoSharedAddress, AddressOfUser, RowKnown, NoRow, RowOf, AddressKnown
  <2>5. CASE AddInsert(op)
    <3>1. CASE Goto(op, "undo.wire") /\ UNCHANGED users
      <4>1. op.at = "add.insert" /\ UNCHANGED containers
        BY <2>5 DEF AddInsert
      <4>2. QED
        BY <2>0, <4>1, <3>1, Moved
        DEF AddressInv, UniqueRows, UniqueNames, NoSharedAddress, AddressOfUser,
            RowKnown, NoRow, RowOf, AddressKnown
    <3>2. ASSUME NEW i \in FreshIds,
                 users' = users \cup
                   {[id |-> i, name |-> op.name, idx |-> op.idx, port |-> op.port]},
                 ops' = (ops \ {op}) \cup {[op EXCEPT !.at = "add.rules", !.id = i]},
                 UNCHANGED <<opMu, served>>
          PROVE  AddressInv'
      <4> DEFINE m == [op EXCEPT !.at = "add.rules", !.id = i]
                 row == [id |-> i, name |-> op.name, idx |-> op.idx, port |-> op.port]
      <4>1. ops' = {m}
        BY <2>0, <3>2 DEF Alone
      <4>2. /\ m.at = "add.rules" /\ m.proc = op.proc /\ RowOf(m) = row
        BY <2>0 DEF Op, RowOf
      <4>3. /\ op.at = "add.insert"
            /\ UNCHANGED containers
        BY <2>5 DEF AddInsert
      <4>4. NoRow(op) /\ \A c \in containers : c.name = op.name <=> c.ip = op.idx
        BY <2>0, <4>3 DEF RowKnown, AddressKnown
      <4>5. \A r \in users : r.id # i
        BY DEF FreshIds
      <4>6. Alone'
        BY <2>0, <4>1, <4>2, <3>2 DEF Alone
      <4>7. UniqueRows'
        BY <3>2, <4>4, <4>5 DEF UniqueRows, NoRow, AddressInv
      <4>8. AddressOfUser'
        BY <3>2, <4>3, <4>4 DEF AddressOfUser, AddressInv
      <4>9. \A a \in ops' : RowKnown(a)' /\ AddressKnown(a)'
        BY <4>1, <4>2, <3>2 DEF RowKnown, AddressKnown
      <4>10. QED
        BY <4>3, <4>6, <4>7, <4>8, <4>9 DEF AddressInv, UniqueNames, NoSharedAddress
    <3>3. QED BY <3>1, <3>2, <2>5 DEF AddInsert
  <2>6. CASE AddRules(op)
    BY <2>0, <2>6, Moved
    DEF AddRules, AddressInv, UniqueRows, UniqueNames,
        NoSharedAddress, AddressOfUser, RowKnown, NoRow, RowOf, AddressKnown
  <2>7. CASE AddReload(op)
    BY <2>0, <2>7, Moved, Ended
    DEF AddReload, AddressInv, UniqueRows, UniqueNames,
        NoSharedAddress, AddressOfUser, RowKnown, NoRow, RowOf, AddressKnown
  <2>8. QED BY <1>3, <2>1, <2>2, <2>3, <2>4, <2>5, <2>6, <2>7 DEF AddStep
<1>4. ASSUME NEW op \in ops, UndoStep(op) PROVE AddressInv'
  <2>0. op \in Op /\ Alone /\ RowKnown(op)
    BY DEF TypeOK, AddressInv
  <2>1. CASE UndoWire(op) \/ UndoRules(op) \/ UndoReload(op)
    BY <2>0, <2>1, Moved
    DEF UndoWire, UndoRules, UndoReload, AddressInv, UniqueRows, UniqueNames,
        NoSharedAddress, AddressOfUser, RowKnown, NoRow, RowOf, AddressKnown
  <2>2. CASE UndoDelete(op)
    BY <2>0, <2>2, Moved
    DEF UndoDelete, Deleted, DeleteFailed, AddressInv, UniqueRows, UniqueNames,
        NoSharedAddress, AddressOfUser, RowKnown, NoRow, RowOf, AddressKnown
  <2>3. CASE UndoRow(op)
    BY <2>0, <2>3, Ended
    DEF UndoRow, Return, AddressInv, UniqueRows, UniqueNames,
        NoSharedAddress, AddressOfUser
  <2>4. QED BY <1>4, <2>1, <2>2, <2>3 DEF UndoStep
<1>5. ASSUME NEW op \in ops, DelStep(op) PROVE AddressInv'
  <2>0. op \in Op /\ Alone /\ RowKnown(op)
    BY DEF TypeOK, AddressInv
  <2>1. CASE DelWire(op) \/ DelRules(op) \/ DelReload(op)
    BY <2>0, <2>1, Moved
    DEF DelWire, DelRules, DelReload, AddressInv, UniqueRows, UniqueNames,
        NoSharedAddress, AddressOfUser, RowKnown, NoRow, RowOf, AddressKnown
  <2>2. CASE DelContainer(op)
    BY <2>0, <2>2, Moved, Ended
    DEF DelContainer, Return, Deleted, DeleteFailed, AddressInv, UniqueRows,
        UniqueNames, NoSharedAddress, AddressOfUser, RowKnown, NoRow, RowOf,
        AddressKnown
  <2>3. CASE DelRow(op)
    BY <2>0, <2>3, Ended
    DEF DelRow, Return, AddressInv, UniqueRows, UniqueNames,
        NoSharedAddress, AddressOfUser
  <2>4. QED BY <1>5, <2>1, <2>2, <2>3 DEF DelStep
<1>6. ASSUME NEW op \in ops, ReinstallStep(op) PROVE AddressInv'
  <2>0. op \in Op /\ Alone /\ RowKnown(op)
    BY DEF TypeOK, AddressInv
  <2>1. CASE ReinstallDelete(op)
    BY <2>0, <2>1, Moved, Ended
    DEF ReinstallDelete, Return, Deleted, DeleteFailed, AddressInv, UniqueRows,
        UniqueNames, NoSharedAddress, AddressOfUser, RowKnown, NoRow, RowOf,
        AddressKnown
  <2>2. CASE ReinstallLaunch(op)
    BY <2>0, <2>2, Moved, Ended
    DEF ReinstallLaunch, Launched, LaunchFailed, HasContainer, Return, AddressInv,
        UniqueRows, UniqueNames, NoSharedAddress, AddressOfUser, RowKnown, NoRow,
        RowOf, AddressKnown
  <2>3. CASE ReinstallProvision(op) \/ ReinstallWire(op)
    BY <2>0, <2>3, Moved, Ended
    DEF ReinstallProvision, ReinstallWire, Return, AddressInv, stores, UniqueRows,
        UniqueNames, NoSharedAddress, AddressOfUser, RowKnown, NoRow, RowOf,
        AddressKnown
  <2>4. QED BY <1>6, <2>1, <2>2, <2>3 DEF ReinstallStep
<1>7. ASSUME NEW op \in ops, Crash(op) PROVE AddressInv'
  BY <1>7, Ended
  DEF Crash, Return, AddressInv, stores, UniqueRows, UniqueNames, NoSharedAddress,
      AddressOfUser
<1>8. CASE UNCHANGED vars
  BY <1>8
  DEF vars, AddressInv, Alone, UniqueRows, UniqueNames, NoSharedAddress,
      AddressOfUser, RowKnown, NoRow, RowOf, AddressKnown
<1>9. QED BY <1>1, <1>2, <1>3, <1>4, <1>5, <1>6, <1>7, <1>8 DEF Next, Arrive

LEMMA AddressInvariant ==
  ASSUME OneProcess
  PROVE  Spec => []AddressInv
<1>1. Init => AddressInv
  BY DEF Init, AddressInv, Alone, UniqueRows, UniqueNames, NoSharedAddress, AddressOfUser
<1>2. TypeOK /\ AddressInv /\ [Next]_vars => AddressInv'
  BY AddressStep
<1>3. QED BY <1>1, <1>2, TypeCorrect, PTL DEF Spec

(* Whatever calls of Add, Del and Reinstall fail and wherever the process  *)
(* crashes, no two instances -- leftovers included -- share an IPv4.       *)
THEOREM AddressesNeverShared ==
  ASSUME OneProcess
  PROVE  Spec => []NoSharedAddress
<1>1. AddressInv => NoSharedAddress
  BY DEF AddressInv
<1>2. QED BY <1>1, AddressInvariant, PTL

(* The address of a row is held by that user's container or by nobody.     *)
THEOREM AddressHeldByItsUser ==
  ASSUME OneProcess
  PROVE  Spec => []AddressOfUser
<1>1. AddressInv => AddressOfUser
  BY DEF AddressInv
<1>2. QED BY <1>1, AddressInvariant, PTL

-----------------------------------------------------------------------------
(* One process: DNAT rules.                                                *)

Rules(rows) == {RuleOf(r) : r \in rows}

RulesGone == {"undo.reload", "undo.row", "del.reload", "del.row"}
LoadedGone == {"undo.row", "del.row"}

FilesInv ==
  /\ FilesBelongToUsers
  /\ \A op \in ops : op.at \in RulesGone => \A f \in files : f.name # op.name

LoadedInv ==
  /\ LoadedRulesBelongToUsers
  /\ \A op \in ops : op.at \in LoadedGone => \A k \in kernel : k.name # op.name

(* Deleting the row of a request takes away only the rules of its name.    *)
LEMMA RowGone ==
  ASSUME TypeOK, AddressInv, NEW op \in ops, op.at \in LoadedGone,
         NEW f \in Rules(users), f.name # op.name
  PROVE  f \in Rules({r \in users : r.id # op.id})
<1>1. PICK r \in users : f = RuleOf(r)
  BY DEF Rules
<1>2. r.name # op.name
  BY <1>1 DEF RuleOf
<1>3. NoRow(op) \/ RowOf(op) \in users
  BY DEF AddressInv, RowKnown, LoadedGone, UndoSteps, DelSteps
<1>4. r.id # op.id
  <2>1. CASE NoRow(op)
    BY <2>1, NoIdAssumption DEF NoRow, TypeOK, Row
  <2>2. CASE RowOf(op) \in users
    BY <2>2, <1>2 DEF RowOf, AddressInv, UniqueRows
  <2>3. QED BY <1>3, <2>1, <2>2
<1>5. QED BY <1>1, <1>4 DEF Rules

(* Where a request stands when it has just begun, and after its insert.    *)
LEMMA ArrivedAt ==
  ASSUME Arrive
  PROVE  \A m \in ops' : m \in ops \/ m.at \in {"add.check", "del.delete", "re.delete"}
<1>1. ASSUME NEW p \in Processes, NEW n \in Names, NEW i \in Idxs, NEW s \in Ports,
             AddPick(p, n, i, s)
      PROVE  \A m \in ops' : m \in ops \/ m.at = "add.check"
  BY <1>1 DEF AddPick, Begin
<1>2. ASSUME NEW p \in Processes, NEW r \in users,
             DelLookup(p, r) \/ ReinstallLookup(p, r)
      PROVE  \A m \in ops' : m \in ops \/ m.at \in {"del.delete", "re.delete"}
  BY <1>2 DEF DelLookup, ReinstallLookup, Begin
<1>3. QED BY <1>1, <1>2 DEF Arrive

LEMMA InsertedAt ==
  ASSUME TypeOK, Alone, NEW op \in ops, AddInsert(op)
  PROVE  \A m \in ops' : m.at \in {"add.rules", "undo.wire"}
<1> USE DEF Steps, UndoSteps
<1>1. CASE Goto(op, "undo.wire")
  BY <1>1, Moved
<1>2. ASSUME NEW i \in FreshIds,
             ops' = (ops \ {op}) \cup {[op EXCEPT !.at = "add.rules", !.id = i]}
      PROVE  \A m \in ops' : m.at \in {"add.rules", "undo.wire"}
  <2>1. op \in Op /\ ops' = {[op EXCEPT !.at = "add.rules", !.id = i]}
    BY <1>2 DEF Alone, TypeOK
  <2>2. QED BY <2>1 DEF Op
<1>3. QED BY <1>1, <1>2 DEF AddInsert

(* A rule file is written for a row and removed before it.                 *)
LEMMA FilesStep ==
  ASSUME OneProcess, "unlink" \notin Faults, TypeOK, AddressInv, FilesInv, [Next]_vars
  PROVE  FilesInv'
<1> USE DEF Steps, AddSteps, UndoSteps, DelSteps, ReinstallSteps
<1>0. Alone /\ FilesBelongToUsers
  BY DEF AddressInv, FilesInv
<1>1. CASE Arrive
  <2>1. UNCHANGED <<users, files>>
    BY <1>1 DEF Arrive, AddPick, DelLookup, ReinstallLookup, stores
  <2>2. \A m \in ops' : m \in ops \/ m.at \notin RulesGone
    BY <1>1, ArrivedAt DEF RulesGone
  <2>3. QED BY <2>1, <2>2 DEF FilesInv, FilesBelongToUsers, RulesGone
<1>2. ASSUME NEW op \in ops, AddStep(op) PROVE FilesInv'
  <2>0. op \in Op /\ RowKnown(op)
    BY DEF TypeOK, AddressInv
  <2>1. CASE AddCheckLXD(op) \/ AddLaunch(op) \/ AddProvision(op) \/ AddWire(op)
             \/ AddReload(op)
    BY <1>0, <2>1, Moved, Ended
    DEF AddCheckLXD, AddLaunch, AddProvision, AddWire, AddReload, Return, stores,
        FilesInv, FilesBelongToUsers, RulesGone
  <2>2. CASE AddInsert(op)
    <3>1. users \subseteq users' /\ UNCHANGED files
      BY <2>2 DEF AddInsert
    <3>2. \A m \in ops' : m.at \notin RulesGone
      BY <1>0, <2>2, InsertedAt DEF RulesGone
    <3>3. QED BY <3>1, <3>2 DEF FilesInv, FilesBelongToUsers
  <2>3. CASE AddRules(op)
    <3>1. RowOf(op) \in users
      BY <2>0, <2>3 DEF AddRules, RowKnown
    <3>2. RuleOf(RowOf(op)) = [name |-> op.name, port |-> op.port, ip |-> op.idx]
      BY DEF RuleOf, RowOf
    <3>3. files' \subseteq Rules(users)
      BY <1>0, <2>3, <3>1, <3>2 DEF AddRules, Rules, FilesBelongToUsers, Without
    <3>4. UNCHANGED users /\ \A m \in ops' : m.at \notin RulesGone
      BY <1>0, <2>3, Moved DEF AddRules, RulesGone
    <3>5. QED BY <3>3, <3>4 DEF FilesInv, FilesBelongToUsers, Rules
  <2>4. QED BY <1>2, <2>1, <2>2, <2>3 DEF AddStep
<1>3. ASSUME NEW op \in ops, UndoStep(op) \/ DelStep(op) PROVE FilesInv'
  <2>0. op \in Op
    BY DEF TypeOK
  <2>1. CASE UndoWire(op) \/ UndoDelete(op) \/ DelContainer(op) \/ DelWire(op)
    BY <1>0, <2>1, Moved, Ended
    DEF UndoWire, UndoDelete, DelContainer, DelWire, Return, FilesInv,
        FilesBelongToUsers, RulesGone
  <2>2. CASE UndoRules(op) \/ DelRules(op)
    <3>1. files' = {f \in files : f.name # op.name} /\ UNCHANGED users
      BY <2>2 DEF UndoRules, DelRules, MayFail, Without
    <3>2. \A m \in ops' : m.name = op.name
      BY <1>0, <2>2, Moved DEF UndoRules, DelRules
    <3>3. QED BY <1>0, <3>1, <3>2 DEF FilesInv, FilesBelongToUsers
  <2>3. CASE UndoReload(op) \/ DelReload(op)
    BY <1>0, <2>3, Moved DEF UndoReload, DelReload, FilesInv, FilesBelongToUsers,
       RulesGone
  <2>4. CASE UndoRow(op) \/ DelRow(op)
    <3>1. op.at \in LoadedGone /\ UNCHANGED files
      BY <2>4 DEF UndoRow, DelRow, LoadedGone
    <3>2. ops' = {}
      BY <1>0, <2>4, Ended DEF UndoRow, DelRow, Return
    <3>3. CASE UNCHANGED users
      BY <1>0, <3>1, <3>2, <3>3 DEF FilesInv, FilesBelongToUsers
    <3>4. CASE users' = {r \in users : r.id # op.id}
      <4>1. ASSUME NEW f \in files PROVE f \in Rules(users')
        BY <1>0, <3>1, <3>4, RowGone
        DEF FilesInv, FilesBelongToUsers, Rules, RulesGone, LoadedGone
      <4>2. QED BY <4>1, <3>1, <3>2 DEF FilesInv, FilesBelongToUsers, Rules
    <3>5. QED BY <2>4, <3>3, <3>4 DEF UndoRow, DelRow
  <2>5. QED BY <1>3, <2>1, <2>2, <2>3, <2>4 DEF UndoStep, DelStep
<1>4. ASSUME NEW op \in ops, ReinstallStep(op) \/ Crash(op) PROVE FilesInv'
  BY <1>0, <1>4, Moved, Ended
  DEF ReinstallStep, ReinstallDelete, ReinstallLaunch, ReinstallProvision,
      ReinstallWire, Crash, Return, stores, FilesInv, FilesBelongToUsers, RulesGone
<1>5. CASE UNCHANGED vars
  BY <1>5 DEF vars, FilesInv, FilesBelongToUsers
<1>6. QED BY <1>1, <1>2, <1>3, <1>4, <1>5 DEF Next

(* The loaded ruleset follows: it is reloaded between file and row.        *)
LEMMA LoadedStep ==
  ASSUME OneProcess, "unlink" \notin Faults, "reload" \notin Faults,
         TypeOK, AddressInv, FilesInv, LoadedInv, [Next]_vars
  PROVE  LoadedInv'
<1> USE DEF Steps, AddSteps, UndoSteps, DelSteps, ReinstallSteps
<1>0. Alone /\ FilesBelongToUsers /\ LoadedRulesBelongToUsers
  BY DEF AddressInv, FilesInv, LoadedInv
<1>1. CASE Arrive
  <2>1. UNCHANGED <<users, kernel>>
    BY <1>1 DEF Arrive, AddPick, DelLookup, ReinstallLookup, stores
  <2>2. \A m \in ops' : m \in ops \/ m.at \notin LoadedGone
    BY <1>1, ArrivedAt DEF LoadedGone
  <2>3. QED BY <2>1, <2>2 DEF LoadedInv, LoadedRulesBelongToUsers, LoadedGone
<1>2. ASSUME NEW op \in ops, AddStep(op) PROVE LoadedInv'
  <2>0. op \in Op
    BY DEF TypeOK
  <2>1. CASE AddCheckLXD(op) \/ AddLaunch(op) \/ AddProvision(op) \/ AddWire(op)
             \/ AddRules(op)
    BY <1>0, <2>1, Moved, Ended
    DEF AddCheckLXD, AddLaunch, AddProvision, AddWire, AddRules, Return, stores,
        LoadedInv, LoadedRulesBelongToUsers, LoadedGone
  <2>2. CASE AddInsert(op)
    <3>1. users \subseteq users' /\ UNCHANGED kernel
      BY <2>2 DEF AddInsert
    <3>2. \A m \in ops' : m.at \notin LoadedGone
      BY <1>0, <2>2, InsertedAt DEF LoadedGone
    <3>3. QED BY <3>1, <3>2 DEF LoadedInv, LoadedRulesBelongToUsers
  <2>3. CASE AddReload(op)
    <3>1. kernel' = files /\ UNCHANGED users /\ ops' = {}
      BY <1>0, <2>3, Ended DEF AddReload, Reloaded, ReloadFailed, MayFail
    <3>2. QED BY <1>0, <3>1 DEF LoadedInv, LoadedRulesBelongToUsers, FilesBelongToUsers
  <2>4. QED BY <1>2, <2>1, <2>2, <2>3 DEF AddStep
<1>3. ASSUME NEW op \in ops, UndoStep(op) \/ DelStep(op) PROVE LoadedInv'
  <2>0. op \in Op
    BY DEF TypeOK
  <2>1. CASE UndoWire(op) \/ UndoDelete(op) \/ UndoRules(op) \/ DelContainer(op)
             \/ DelWire(op) \/ DelRules(op)
    BY <1>0, <2>1, Moved, Ended
    DEF UndoWire, UndoDelete, UndoRules, DelContainer, DelWire, DelRules, Return,
        LoadedInv, LoadedRulesBelongToUsers, LoadedGone
  <2>2. CASE UndoReload(op) \/ DelReload(op)
    <3>1. kernel' = files /\ UNCHANGED users
      BY <2>2 DEF UndoReload, DelReload, Reloaded, ReloadFailed, MayFail
    <3>2. \A f \in files : f.name # op.name
      BY <2>2 DEF UndoReload, DelReload, FilesInv, RulesGone
    <3>3. \A m \in ops' : m.name = op.name
      BY <1>0, <2>2, Moved DEF UndoReload, DelReload
    <3>4. QED
      BY <1>0, <3>1, <3>2, <3>3 DEF LoadedInv, LoadedRulesBelongToUsers,
         FilesBelongToUsers
  <2>3. CASE UndoRow(op) \/ DelRow(op)
    <3>1. op.at \in LoadedGone /\ UNCHANGED kernel
      BY <2>3 DEF UndoRow, DelRow, LoadedGone
    <3>2. ops' = {}
      BY <1>0, <2>3, Ended DEF UndoRow, DelRow, Return
    <3>3. CASE UNCHANGED users
      BY <1>0, <3>1, <3>2, <3>3 DEF LoadedInv, LoadedRulesBelongToUsers
    <3>4. CASE users' = {r \in users : r.id # op.id}
      <4>1. ASSUME NEW k \in kernel PROVE k \in Rules(users')
        BY <1>0, <3>1, <3>4, RowGone DEF LoadedInv, LoadedRulesBelongToUsers, Rules
      <4>2. QED BY <4>1, <3>1, <3>2 DEF LoadedInv, LoadedRulesBelongToUsers, Rules
    <3>5. QED BY <2>3, <3>3, <3>4 DEF UndoRow, DelRow
  <2>4. QED BY <1>3, <2>1, <2>2, <2>3 DEF UndoStep, DelStep
<1>4. ASSUME NEW op \in ops, ReinstallStep(op) \/ Crash(op) PROVE LoadedInv'
  BY <1>0, <1>4, Moved, Ended
  DEF ReinstallStep, ReinstallDelete, ReinstallLaunch, ReinstallProvision,
      ReinstallWire, Crash, Return, stores, LoadedInv, LoadedRulesBelongToUsers,
      LoadedGone
<1>5. CASE UNCHANGED vars
  BY <1>5 DEF vars, LoadedInv, LoadedRulesBelongToUsers
<1>6. QED BY <1>1, <1>2, <1>3, <1>4, <1>5 DEF Next

(* Unless the removal of a file itself fails, every rule file on disk      *)
(* describes a current row, across every other failure and crash.          *)
THEOREM FilesFollowUsers ==
  ASSUME OneProcess, "unlink" \notin Faults
  PROVE  Spec => []FilesBelongToUsers
<1>1. Init => FilesInv
  BY DEF Init, FilesInv, FilesBelongToUsers
<1>2. TypeOK /\ AddressInv /\ FilesInv /\ [Next]_vars => FilesInv'
  BY FilesStep
<1>3. FilesInv => FilesBelongToUsers
  BY DEF FilesInv
<1>4. QED BY <1>1, <1>2, <1>3, TypeCorrect, AddressInvariant, PTL DEF Spec

(* Unless a removal or a reload fails, every DNAT rule in force forwards a *)
(* current user's port to that user's address.                             *)
THEOREM LoadedRulesFollowUsers ==
  ASSUME OneProcess, "unlink" \notin Faults, "reload" \notin Faults
  PROVE  Spec => []LoadedRulesBelongToUsers
<1>1. Init => FilesInv /\ LoadedInv
  BY DEF Init, FilesInv, FilesBelongToUsers, LoadedInv, LoadedRulesBelongToUsers
<1>2. TypeOK /\ AddressInv /\ FilesInv /\ LoadedInv /\ [Next]_vars
        => FilesInv' /\ LoadedInv'
  BY FilesStep, LoadedStep
<1>3. LoadedInv => LoadedRulesBelongToUsers
  BY DEF LoadedInv
<1>4. QED BY <1>1, <1>2, <1>3, TypeCorrect, AddressInvariant, PTL DEF Spec

-----------------------------------------------------------------------------
(* One process: blocks.                                                    *)

(* The block a request is about to insert is still free.                   *)
BlockKnown(op) ==
  op.at \in BeforeInsert => \A r \in users : Block[r.name] # Block[op.name]

BlocksInv == BlocksDisjoint /\ \A op \in ops : BlockKnown(op)

(* A request that goes on without a new row keeps its block free.          *)
LEMMA BlockStays ==
  ASSUME TypeOK, Alone, BlocksInv, NEW op \in ops, NEW s \in Steps, Goto(op, s),
         s \in BeforeInsert => op.at \in BeforeInsert, users' \subseteq users
  PROVE  BlocksInv'
<1>1. \A m \in ops' : m.at = s /\ m.name = op.name
  BY Moved
<1>2. BlockKnown(op) /\ BlocksDisjoint
  BY DEF BlocksInv
<1>. QED
  BY <1>1, <1>2 DEF BlocksInv, BlockKnown, BlocksDisjoint

LEMMA BlockLeft ==
  ASSUME Alone, BlocksInv, NEW op \in ops, Unlock(op), users' \subseteq users
  PROVE  BlocksInv'
BY Ended DEF BlocksInv, BlocksDisjoint

LEMMA BlocksStep ==
  ASSUME OneProcess, TypeOK, AddressInv, BlocksInv, [Next]_vars
  PROVE  BlocksInv'
<1> USE DEF Steps, AddSteps, UndoSteps, DelSteps, ReinstallSteps, BeforeInsert
<1>0. Alone
  BY DEF AddressInv
<1>1. ASSUME NEW p \in Processes, NEW n \in Names, NEW i \in Idxs, NEW s \in Ports,
             AddPick(p, n, i, s)
      PROVE  BlocksInv'
  BY <1>1 DEF AddPick, Begin, stores, BlocksInv, BlockKnown, BlocksDisjoint
<1>2. ASSUME NEW p \in Processes, NEW r \in users,
             DelLookup(p, r) \/ ReinstallLookup(p, r)
      PROVE  BlocksInv'
  BY <1>2
  DEF DelLookup, ReinstallLookup, Begin, stores, BlocksInv, BlockKnown, BlocksDisjoint
<1>3. ASSUME NEW op \in ops, AddStep(op) PROVE BlocksInv'
  <2>1. CASE AddCheckLXD(op) \/ AddLaunch(op) \/ AddProvision(op) \/ AddWire(op)
    BY <1>0, <2>1, BlockStays, BlockLeft
    DEF AddCheckLXD, AddLaunch, AddProvision, AddWire, Return, stores
  <2>2. CASE AddRules(op) \/ AddReload(op)
    BY <1>0, <2>2, BlockStays, BlockLeft DEF AddRules, AddReload
  <2>3. CASE AddInsert(op)
    <3>1. CASE Goto(op, "undo.wire") /\ UNCHANGED users
      BY <1>0, <3>1, BlockStays
    <3>2. ASSUME NEW i \in FreshIds,
                 users' = users \cup
                   {[id |-> i, name |-> op.name, idx |-> op.idx, port |-> op.port]}
          PROVE  BlocksInv'
      <4>1. \A r \in users : Block[r.name] # Block[op.name]
        BY <2>3 DEF AddInsert, BlocksInv, BlockKnown
      <4>2. \A m \in ops' : m.at \in {"add.rules", "undo.wire"}
        BY <1>0, <2>3, InsertedAt
      <4>. QED
        BY <3>2, <4>1, <4>2 DEF BlocksInv, BlockKnown, BlocksDisjoint
    <3>. QED
      BY <2>3, <3>1, <3>2 DEF AddInsert
  <2>. QED
    BY <1>3, <2>1, <2>2, <2>3 DEF AddStep
<1>4. ASSUME NEW op \in ops, UndoStep(op) PROVE BlocksInv'
  BY <1>0, <1>4, BlockStays, BlockLeft
  DEF UndoStep, UndoWire, UndoDelete, UndoRules, UndoReload, UndoRow, Return
<1>5. ASSUME NEW op \in ops, DelStep(op) PROVE BlocksInv'
  BY <1>0, <1>5, BlockStays, BlockLeft
  DEF DelStep, DelContainer, DelWire, DelRules, DelReload, DelRow, Return
<1>6. ASSUME NEW op \in ops, ReinstallStep(op) \/ Crash(op) PROVE BlocksInv'
  BY <1>0, <1>6, BlockStays, BlockLeft
  DEF ReinstallStep, ReinstallDelete, ReinstallLaunch, ReinstallProvision, ReinstallWire,
      Crash, Return, stores
<1>7. CASE UNCHANGED vars
  BY <1>7 DEF vars, BlocksInv, BlockKnown, BlocksDisjoint
<1>. QED
  BY <1>1, <1>2, <1>3, <1>4, <1>5, <1>6, <1>7 DEF Next, Arrive

(* checkIPv6BlockCollision reads the table several calls before the row is *)
(* inserted: opMu keeps the block it found free until then, so no two      *)
(* users get one /112, whatever else fails.                                *)
THEOREM BlocksNeverShared ==
  ASSUME OneProcess
  PROVE  Spec => []BlocksDisjoint
<1>1. Init => BlocksInv
  BY DEF Init, BlocksInv, BlocksDisjoint
<1>2. TypeOK /\ AddressInv /\ BlocksInv /\ [Next]_vars => BlocksInv'
  BY BlocksStep
<1>3. BlocksInv => BlocksDisjoint
  BY DEF BlocksInv
<1>4. QED BY <1>1, <1>2, <1>3, TypeCorrect, AddressInvariant, PTL DEF Spec

-----------------------------------------------------------------------------
(* One process: what a created user keeps.                                 *)

HasContainerAt(n, i) == [name |-> n, ip |-> i] \in containers

(* The files are what the next reload puts in force.                       *)
Kept(r) == /\ HasContainerAt(r.name, r.idx)
           /\ V4Forward => RuleOf(r) \in kernel /\ RuleOf(r) \in files
           /\ r.name \in ndp

(* What an Add has put in place so far, for a name not yet reported.       *)
Given(op) ==
  /\ op.name \notin served
  /\ op.at \in {"add.provision", "add.wire", "add.insert", "add.rules", "add.reload"} =>
       HasContainerAt(op.name, op.idx)
  /\ op.at \in {"add.insert", "add.rules", "add.reload"} => op.name \in ndp
  /\ op.at = "add.reload" /\ V4Forward =>
       [name |-> op.name, port |-> op.port, ip |-> op.idx] \in files

ServedInv ==
  /\ \A r \in users : r.name \in served => Kept(r)
  /\ \A op \in ops : Given(op)

(* A call that touches nothing but what belongs to its own name.           *)
Elsewhere(n) ==
  /\ \A r \in users' : r.name # n => r \in users
  /\ \A c \in containers : c.name # n => c \in containers'
  /\ \A f \in files : f.name # n => f \in files'
  /\ \A r \in users : r.name # n /\ r.name \in ndp => r.name \in ndp'
  /\ kernel \subseteq kernel' \/ kernel' = files

LEMMA OthersKept ==
  ASSUME TypeOK, ServedInv, NEW op \in ops, Elsewhere(op.name)
  PROVE  \A r \in users' : r.name \in served => Kept(r)'
<1>1. SUFFICES ASSUME NEW r \in users', r.name \in served
               PROVE  Kept(r)'
  OBVIOUS
<1>2. r.name # op.name
  BY <1>1 DEF ServedInv, Given
<1>3. r \in users /\ Kept(r)
  BY <1>1, <1>2 DEF Elsewhere, ServedInv
<1>4. HasContainerAt(r.name, r.idx)'
  BY <1>2, <1>3 DEF Elsewhere, Kept, HasContainerAt
<1>5. V4Forward => RuleOf(r) \in kernel' /\ RuleOf(r) \in files'
  BY <1>2, <1>3 DEF Elsewhere, Kept, RuleOf
<1>. QED
  BY <1>2, <1>3, <1>4, <1>5 DEF Elsewhere, Kept, RuleOf

(* The request goes on: it alone decides what it has been given.           *)
LEMMA ServedGoes ==
  ASSUME TypeOK, Alone, ServedInv, NEW op \in ops, NEW s \in Steps, Goto(op, s),
         \A r \in users' : r.name \in served => Kept(r)',
         Given([op EXCEPT !.at = s])'
  PROVE  ServedInv'
<1>1. ops' = {[op EXCEPT !.at = s]} /\ served' = served
  BY Moved DEF Goto
<1>. QED
  BY <1>1 DEF ServedInv

LEMMA ServedLeft ==
  ASSUME Alone, NEW op \in ops, Return(op), \A r \in users' : r.name \in served => Kept(r)'
  PROVE  ServedInv'
BY Ended DEF Return, ServedInv

(* The calls of the other handlers, and of the cleanup, give nothing.      *)
LEMMA NothingGiven ==
  ASSUME TypeOK, Alone, ServedInv, NEW op \in ops, Elsewhere(op.name),
         \/ Return(op)
         \/ \E s \in UndoSteps \cup DelSteps \cup ReinstallSteps : Goto(op, s)
  PROVE  ServedInv'
<1>1. \A r \in users' : r.name \in served => Kept(r)'
  BY OthersKept
<1>2. CASE Return(op)
  BY <1>1, <1>2, ServedLeft
<1>3. ASSUME NEW s \in UndoSteps \cup DelSteps \cup ReinstallSteps, Goto(op, s)
      PROVE  ServedInv'
  <2>1. ops' = {[op EXCEPT !.at = s]} /\ served' = served
    BY <1>3, Moved DEF Goto, Steps
  <2>2. op \in Op /\ op.name \notin served
    BY DEF TypeOK, ServedInv, Given
  <2>3. Given([op EXCEPT !.at = s])'
    BY <2>1, <2>2 DEF Given, Op, UndoSteps, DelSteps, ReinstallSteps
  <2>. QED
    BY <1>1, <2>1, <2>3 DEF ServedInv
<1>. QED
  BY <1>2, <1>3

LEMMA ServedAdd ==
  ASSUME OneProcess, TypeOK, AddressInv, ServedInv, NEW op \in ops, AddStep(op)
  PROVE  ServedInv'
<1> USE DEF Steps, AddSteps, UndoSteps
<1>0. op \in Op /\ Alone /\ Given(op) /\ RowKnown(op) /\ op.name \notin served
  BY DEF TypeOK, AddressInv, ServedInv, Given
<1>1. CASE AddCheckLXD(op)
  <2>1. Elsewhere(op.name)
    BY <1>1 DEF AddCheckLXD, stores, Elsewhere
  <2>2. \A r \in users' : r.name \in served => Kept(r)'
    BY <2>1, OthersKept
  <2>3. CASE Return(op)
    BY <1>0, <2>2, <2>3, ServedLeft
  <2>4. CASE Goto(op, "add.launch")
    <3>1. Given([op EXCEPT !.at = "add.launch"])'
      BY <1>0, <2>4 DEF Given, Goto, Op
    <3>. QED
      BY <1>0, <2>2, <2>4, <3>1, ServedGoes
  <2>. QED
    BY <1>1, <2>3, <2>4 DEF AddCheckLXD
<1>2. CASE AddLaunch(op)
  <2>1. Elsewhere(op.name)
    BY <1>2 DEF AddLaunch, Launched, LaunchFailed, Elsewhere
  <2>2. \A r \in users' : r.name \in served => Kept(r)'
    BY <2>1, OthersKept
  <2>3. CASE LaunchFailed(op) /\ Return(op)
    BY <1>0, <2>2, <2>3, ServedLeft
  <2>4. CASE Launched(op) /\ Goto(op, "add.provision")
    <3>1. Given([op EXCEPT !.at = "add.provision"])'
      BY <1>0, <2>4 DEF Given, Goto, Op, Launched, HasContainerAt
    <3>. QED
      BY <1>0, <2>2, <2>4, <3>1, ServedGoes
  <2>. QED
    BY <1>2, <2>3, <2>4 DEF AddLaunch
<1>3. CASE AddProvision(op)
  <2>1. Elsewhere(op.name)
    BY <1>3 DEF AddProvision, stores, Elsewhere
  <2>2. \A r \in users' : r.name \in served => Kept(r)'
    BY <2>1, OthersKept
  <2>3. CASE Goto(op, "undo.wire")
    BY <1>0, <2>1, <2>3, NothingGiven
  <2>4. CASE Goto(op, "add.wire")
    <3>1. Given([op EXCEPT !.at = "add.wire"])'
      BY <1>0, <1>3, <2>4 DEF AddProvision, Given, Goto, Op, stores, HasContainerAt
    <3>. QED
      BY <1>0, <2>2, <2>4, <3>1, ServedGoes
  <2>. QED
    BY <1>3, <2>3, <2>4 DEF AddProvision
<1>4. CASE AddWire(op)
  <2>1. Elsewhere(op.name)
    BY <1>4 DEF AddWire, Wired, Elsewhere
  <2>2. \A r \in users' : r.name \in served => Kept(r)'
    BY <2>1, OthersKept
  <2>3. CASE Goto(op, "undo.wire")
    BY <1>0, <2>1, <2>3, NothingGiven
  <2>4. CASE Wired(op) /\ Goto(op, "add.insert")
    <3>1. Given([op EXCEPT !.at = "add.insert"])'
      BY <1>0, <1>4, <2>4 DEF AddWire, Wired, Given, Goto, Op, HasContainerAt
    <3>. QED
      BY <1>0, <2>2, <2>4, <3>1, ServedGoes
  <2>. QED
    BY <1>4, <2>3, <2>4 DEF AddWire
<1>5. CASE AddInsert(op)
  <2>1. Elsewhere(op.name)
    <3>1. UNCHANGED <<containers, files, kernel, ndp>>
      BY <1>5 DEF AddInsert
    <3>2. \/ UNCHANGED users
          \/ \E i : users' = users \cup
                 {[id |-> i, name |-> op.name, idx |-> op.idx, port |-> op.port]}
      BY <1>5, Zenon DEF AddInsert
    <3>3. \A r \in users' : r.name # op.name => r \in users
      BY <3>2
    <3>. QED
      BY <3>1, <3>3 DEF Elsewhere
  <2>2. \A r \in users' : r.name \in served => Kept(r)'
    BY <2>1, OthersKept
  <2>3. CASE Goto(op, "undo.wire")
    BY <1>0, <2>1, <2>3, NothingGiven
  <2>4. ASSUME NEW i \in FreshIds,
               ops' = (ops \ {op}) \cup {[op EXCEPT !.at = "add.rules", !.id = i]},
               UNCHANGED <<opMu, served>>
        PROVE  ServedInv'
    <3> DEFINE m == [op EXCEPT !.at = "add.rules", !.id = i]
    <3>1. ops' = {m}
      BY <1>0, <2>4 DEF Alone
    <3>2. m.at = "add.rules" /\ m.name = op.name /\ m.idx = op.idx
      BY <1>0 DEF Op
    <3>3. op.at = "add.insert" /\ UNCHANGED <<containers, ndp>>
      BY <1>5 DEF AddInsert
    <3>4. Given(m)'
      BY <1>0, <2>4, <3>2, <3>3 DEF Given, HasContainerAt
    <3>. QED
      BY <2>2, <2>4, <3>1, <3>4 DEF ServedInv
  <2>5. \/ Goto(op, "undo.wire")
        \/ \E i \in FreshIds :
             /\ ops' = (ops \ {op}) \cup {[op EXCEPT !.at = "add.rules", !.id = i]}
             /\ UNCHANGED <<opMu, served>>
    BY <1>5, Zenon DEF AddInsert
  <2>. QED
    BY <2>3, <2>4, <2>5
<1>6. CASE AddRules(op)
  <2>1. Elsewhere(op.name)
    BY <1>6 DEF AddRules, Without, Elsewhere
  <2>2. \A r \in users' : r.name \in served => Kept(r)'
    BY <2>1, OthersKept
  <2>3. CASE Goto(op, "undo.wire")
    BY <1>0, <2>1, <2>3, NothingGiven
  <2>4. CASE /\ files' = IF V4Forward
                           THEN Without(files, op.name) \cup
                                  {[name |-> op.name, port |-> op.port, ip |-> op.idx]}
                           ELSE files
             /\ Goto(op, "add.reload")
    <3>1. Given([op EXCEPT !.at = "add.reload"])'
      BY <1>0, <1>6, <2>4 DEF AddRules, Given, Goto, Op, HasContainerAt
    <3>. QED
      BY <1>0, <2>2, <2>4, <3>1, ServedGoes
  <2>. QED
    BY <1>6, <2>3, <2>4 DEF AddRules
<1>7. CASE AddReload(op)
  <2>1. Elsewhere(op.name) /\ UNCHANGED <<users, containers, files, ndp>> /\ op.at = "add.reload"
    BY <1>7 DEF AddReload, Reloaded, ReloadFailed, Elsewhere
  <2>2. \A r \in users' : r.name \in served => Kept(r)'
    BY <2>1, OthersKept
  <2>3. CASE Goto(op, "undo.wire")
    BY <1>0, <2>1, <2>3, NothingGiven
  <2>4. CASE Reloaded /\ Unlock(op) /\ served' = served \cup {op.name}
    <3>1. ops' = {}
      BY <1>0, <2>4, Ended
    <3>2. ASSUME NEW r \in users', r.name = op.name
          PROVE  Kept(r)'
      <4>1. r = RowOf(op)
        BY <1>0, <2>1, <3>2 DEF RowKnown, AddressInv, UniqueRows, RowOf
      <4>2. r.idx = op.idx /\ RuleOf(r) = [name |-> op.name, port |-> op.port, ip |-> op.idx]
        BY <4>1 DEF RowOf, RuleOf
      <4>3. HasContainerAt(op.name, op.idx)' /\ op.name \in ndp'
        BY <1>0, <2>1 DEF Given, HasContainerAt
      <4>4. V4Forward => RuleOf(r) \in files' /\ RuleOf(r) \in kernel'
        BY <1>0, <2>1, <2>4, <4>2 DEF Given, Reloaded
      <4>. QED
        BY <3>2, <4>2, <4>3, <4>4 DEF Kept, RuleOf
    <3>. QED
      BY <2>2, <2>4, <3>1, <3>2 DEF ServedInv
  <2>. QED
    BY <1>7, <2>3, <2>4 DEF AddReload
<1>. QED
  BY <1>1, <1>2, <1>3, <1>4, <1>5, <1>6, <1>7 DEF AddStep

LEMMA ServedStep ==
  ASSUME OneProcess, TypeOK, AddressInv, ServedInv, [Next]_vars
  PROVE  ServedInv'
<1>0. Alone
  BY DEF AddressInv
<1>1. ASSUME NEW op, Begin(op), UNCHANGED stores, op.at \in {"add.check", "del.delete", "re.delete"}
      PROVE  ServedInv'
  <2>1. served' \subseteq served /\ op.name \notin served' /\ ops' = ops \cup {op}
    BY <1>1 DEF Begin
  <2>2. Given(op)'
    BY <1>1, <2>1 DEF Given
  <2>3. \A m \in ops : Given(m)'
    BY <1>1, <2>1 DEF ServedInv, Given, stores, HasContainerAt
  <2>4. \A r \in users' : r.name \in served' => Kept(r)'
    BY <1>1, <2>1 DEF ServedInv, Kept, stores, HasContainerAt, RuleOf
  <2>. QED
    BY <2>1, <2>2, <2>3, <2>4 DEF ServedInv
<1>2. CASE Arrive
  <2>1. ASSUME NEW p \in Processes, NEW n \in Names, NEW i \in Idxs, NEW s \in Ports,
               AddPick(p, n, i, s)
        PROVE  ServedInv'
    BY <1>1, <2>1 DEF AddPick
  <2>2. ASSUME NEW p \in Processes, NEW r \in users, DelLookup(p, r) \/ ReinstallLookup(p, r)
        PROVE  ServedInv'
    BY <1>1, <2>2 DEF DelLookup, ReinstallLookup
  <2>. QED
    BY <1>2, <2>1, <2>2 DEF Arrive
<1>3. ASSUME NEW op \in ops, AddStep(op) PROVE ServedInv'
  BY <1>3, ServedAdd
<1>4. ASSUME NEW op \in ops, UndoStep(op) PROVE ServedInv'
  <2>1. Elsewhere(op.name)
    BY <1>4
    DEF UndoStep, UndoWire, UndoDelete, UndoRules, UndoReload, UndoRow, Unwired, Deleted,
        DeleteFailed, Without, Reloaded, ReloadFailed, Elsewhere
  <2>2. \/ Return(op)
        \/ \E s \in UndoSteps : Goto(op, s)
    BY <1>4 DEF UndoStep, UndoWire, UndoDelete, UndoRules, UndoReload, UndoRow, UndoSteps
  <2>. QED
    BY <1>0, <2>1, <2>2, NothingGiven
<1>5. ASSUME NEW op \in ops, DelStep(op) PROVE ServedInv'
  <2>1. Elsewhere(op.name)
    BY <1>5
    DEF DelStep, DelContainer, DelWire, DelRules, DelReload, DelRow, Unwired, Deleted,
        DeleteFailed, Without, Reloaded, ReloadFailed, Elsewhere
  <2>2. \/ Return(op)
        \/ \E s \in DelSteps : Goto(op, s)
    BY <1>5 DEF DelStep, DelContainer, DelWire, DelRules, DelReload, DelRow, DelSteps
  <2>. QED
    BY <1>0, <2>1, <2>2, NothingGiven
<1>6. ASSUME NEW op \in ops, ReinstallStep(op) \/ Crash(op) PROVE ServedInv'
  <2>1. Elsewhere(op.name)
    BY <1>6
    DEF ReinstallStep, ReinstallDelete, ReinstallLaunch, ReinstallProvision, ReinstallWire,
        Crash, Launched, LaunchFailed, Wired, Deleted, DeleteFailed, stores, Elsewhere
  <2>2. \/ Return(op)
        \/ \E s \in ReinstallSteps : Goto(op, s)
    BY <1>6
    DEF ReinstallStep, ReinstallDelete, ReinstallLaunch, ReinstallProvision, ReinstallWire,
        Crash, ReinstallSteps
  <2>. QED
    BY <1>0, <2>1, <2>2, NothingGiven
<1>7. CASE UNCHANGED vars
  BY <1>7 DEF vars, ServedInv, Given, Kept, HasContainerAt, RuleOf
<1>. QED
  BY <1>2, <1>3, <1>4, <1>5, <1>6, <1>7 DEF Next

(* A user whose Add has returned a result keeps its container, its rule in *)
(* force and its NDP rule until a request names it, whatever requests for  *)
(* other users do, fail, roll back or leave behind.                        *)
THEOREM CreatedUsersKept ==
  ASSUME OneProcess
  PROVE  Spec => []CreatedUsersServed
<1>1. Init => ServedInv
  BY DEF Init, ServedInv
<1>2. TypeOK /\ AddressInv /\ ServedInv /\ [Next]_vars => ServedInv'
  BY ServedStep
<1>3. ServedInv => CreatedUsersServed
  BY DEF ServedInv, Kept, HasContainerAt, CreatedUsersServed
<1>4. QED BY <1>1, <1>2, <1>3, TypeCorrect, AddressInvariant, PTL DEF Spec
-----------------------------------------------------------------------------
(* Any number of processes that add users: what the roll back leaves.      *)

CreatorsRollBack == Kinds \subseteq {"add"} /\ {"launch", "delete", "crash"} \cap Faults = {}

(* Nobody but adders and their roll backs is at work, each on a row of its *)
(* own, once it has one.                                                   *)
OwnRows ==
  /\ \A op \in ops : /\ op.at \in AddSteps \cup UndoSteps
                     /\ op.at \in {"add.rules", "add.reload"} => RowOf(op) \in users
  /\ \A a, b \in ops : a.id = b.id => a = b \/ a.id = NoId

(* A container has a row that no request will take away, or a request that *)
(* has launched it and will remove it or leave it such a row.              *)
Launchers == {"add.provision", "add.wire", "add.insert", "add.rules", "add.reload",
              "undo.wire", "undo.delete"}
Accounted(c) ==
  \/ \E op \in ops : op.at \in Launchers /\ op.name = c.name /\ op.idx = c.ip
  \/ \E r \in users : r.name = c.name /\ r.idx = c.ip /\ \A op \in ops : op.id # r.id

UniqueIdx == \A r, s \in users : r.idx = s.idx => r = s

OrphanInv == OwnRows /\ UniqueIdx /\ \A c \in containers : Accounted(c)

(* What becomes of a request that goes on, and of what rests on it.        *)
LEMMA CreatorMoves ==
  ASSUME TypeOK, OrphanInv, NEW op \in ops, NEW s \in AddSteps \cup UndoSteps, Goto(op, s),
         UNCHANGED users, s \in {"add.rules", "add.reload"} => RowOf(op) \in users,
         \A c \in containers' :
           c \in containers \/ (s \in Launchers /\ op.name = c.name /\ op.idx = c.ip),
         op.at \in Launchers => s \in Launchers \/ \A c \in containers' : c.name # op.name
  PROVE  OrphanInv'
<1>. DEFINE m == [op EXCEPT !.at = s]
<1>1. ops' = (ops \ {op}) \cup {m}
  BY DEF Goto
<1>2. /\ m.at = s /\ m.name = op.name /\ m.idx = op.idx /\ m.id = op.id /\ m.port = op.port
      /\ RowOf(m) = RowOf(op)
  BY DEF TypeOK, Op, RowOf
<1>. HIDE DEF m
<1>3. OwnRows'
  BY <1>1, <1>2 DEF OrphanInv, OwnRows, RowOf
<1>4. ASSUME NEW c \in containers' PROVE Accounted(c)'
  <2>1. CASE s \in Launchers /\ op.name = c.name /\ op.idx = c.ip
    BY <1>1, <1>2, <2>1 DEF Accounted
  <2>2. CASE c \in containers
    <3>1. Accounted(c)
      BY <2>2 DEF OrphanInv
    <3>. QED
      BY <1>1, <1>2, <3>1 DEF Accounted
  <2>. QED
    BY <2>1, <2>2
<1>. QED
  BY <1>3, <1>4 DEF OrphanInv, UniqueIdx

(* A request ends that launched nothing, or whose row stays.               *)
LEMMA CreatorEnds ==
  ASSUME TypeOK, OrphanInv, NEW op \in ops, Unlock(op), UNCHANGED containers,
         \/ op.at \notin Launchers /\ users' \subseteq users /\ \A r \in users : r.id # op.id => r \in users'
         \/ op.at = "add.reload" /\ UNCHANGED users
  PROVE  OrphanInv'
<1>1. ops' = ops \ {op}
  BY DEF Unlock
<1>2. \A a \in ops' : a.id = op.id => a.id = NoId
  BY <1>1 DEF OrphanInv, OwnRows
<1>3. OwnRows'
  <2>1. ASSUME NEW a \in ops', a.at \in {"add.rules", "add.reload"} PROVE RowOf(a) \in users'
    <3>1. RowOf(a) \in users /\ RowOf(a).id = a.id
      BY <1>1, <2>1 DEF OrphanInv, OwnRows, RowOf
    <3>2. a.id # NoId
      BY <3>1, NoIdAssumption DEF TypeOK, Row
    <3>. QED
      BY <1>2, <3>1, <3>2
  <2>. QED
    BY <1>1, <2>1 DEF OrphanInv, OwnRows
<1>4. ASSUME NEW c \in containers' PROVE Accounted(c)'
  <2>1. c \in containers /\ Accounted(c)
    BY <1>4 DEF OrphanInv
  <2>2. ASSUME op.at = "add.reload", UNCHANGED users, op.name = c.name, op.idx = c.ip
        PROVE  Accounted(c)'
    <3>1. /\ RowOf(op) \in users /\ RowOf(op).id = op.id
          /\ RowOf(op).name = c.name /\ RowOf(op).idx = c.ip
      BY <2>2 DEF OrphanInv, OwnRows, RowOf
    <3>2. op.id # NoId
      BY <3>1, NoIdAssumption DEF TypeOK, Row
    <3>. QED
      BY <1>2, <2>2, <3>1, <3>2 DEF Accounted
  <2>3. ASSUME NEW r \in users, r.name = c.name, r.idx = c.ip, \A a \in ops : a.id # r.id
        PROVE  Accounted(c)'
    BY <1>1, <2>3 DEF Accounted
  <2>4. ASSUME NEW a \in ops, a # op, a.at \in Launchers, a.name = c.name, a.idx = c.ip
        PROVE  Accounted(c)'
    BY <1>1, <2>4 DEF Accounted
  <2>. QED
    BY <2>1, <2>2, <2>3, <2>4 DEF Accounted
<1>5. UniqueIdx'
  BY DEF OrphanInv, UniqueIdx
<1>. QED
  BY <1>3, <1>4, <1>5 DEF OrphanInv

LEMMA OrphanStep ==
  ASSUME CreatorsRollBack, TypeOK, OrphanInv, [Next]_vars
  PROVE  OrphanInv'
<1>. USE DEF AddSteps, UndoSteps, Launchers
<1>0. \A op \in ops : op.at \in AddSteps \cup UndoSteps
  BY DEF OrphanInv, OwnRows
<1>1. ASSUME NEW p \in Processes, NEW n \in Names, NEW i \in Idxs, NEW s \in Ports,
             AddPick(p, n, i, s)
      PROVE  OrphanInv'
  <2>. DEFINE m == [proc |-> p, at |-> "add.check", name |-> n, idx |-> i, port |-> s, id |-> NoId]
  <2>1. ops' = ops \cup {m} /\ UNCHANGED <<users, containers>>
    BY <1>1 DEF AddPick, Begin, stores
  <2>2. m.at = "add.check" /\ m.id = NoId
    OBVIOUS
  <2>3. \A r \in users : r.id # NoId
    BY NoIdAssumption DEF TypeOK, Row
  <2>. HIDE DEF m
  <2>4. OwnRows' /\ UniqueIdx'
    BY <2>1, <2>2 DEF OrphanInv, OwnRows, UniqueIdx, RowOf
  <2>5. \A c \in containers' : Accounted(c)'
    BY <2>1, <2>2, <2>3 DEF OrphanInv, Accounted
  <2>. QED
    BY <2>4, <2>5 DEF OrphanInv
<1>2. ~(\E p \in Processes, r \in users : DelLookup(p, r) \/ ReinstallLookup(p, r))
  BY DEF CreatorsRollBack, DelLookup, ReinstallLookup
<1>3. ASSUME NEW op \in ops, AddStep(op) PROVE OrphanInv'
  <2>1. CASE AddCheckLXD(op)
    BY <2>1, CreatorMoves, CreatorEnds DEF AddCheckLXD, Return, stores
  <2>2. CASE AddLaunch(op)
    BY <2>2, CreatorMoves, CreatorEnds
    DEF AddLaunch, Launched, LaunchFailed, MayFail, CreatorsRollBack, Return
  <2>3. CASE AddProvision(op)
    BY <2>3, CreatorMoves DEF AddProvision, stores
  <2>4. CASE AddWire(op)
    BY <2>4, CreatorMoves DEF AddWire
  <2>5. CASE AddInsert(op)
    <3>1. CASE Goto(op, "undo.wire") /\ UNCHANGED users
      BY <2>5, <3>1, CreatorMoves DEF AddInsert
    <3>2. ASSUME \A r \in users : r.name # op.name /\ r.idx # op.idx /\ r.port # op.port,
                 NEW i \in FreshIds,
                 users' = users \cup
                   {[id |-> i, name |-> op.name, idx |-> op.idx, port |-> op.port]},
                 ops' = (ops \ {op}) \cup {[op EXCEPT !.at = "add.rules", !.id = i]}
          PROVE  OrphanInv'
      <4>. DEFINE m == [op EXCEPT !.at = "add.rules", !.id = i]
                  row == [id |-> i, name |-> op.name, idx |-> op.idx, port |-> op.port]
      <4>1. /\ ops' = (ops \ {op}) \cup {m} /\ users' = users \cup {row} /\ UNCHANGED containers
            /\ op.at = "add.insert"
        BY <2>5, <3>2 DEF AddInsert
      <4>2. /\ m.at = "add.rules" /\ m.name = op.name /\ m.idx = op.idx /\ m.id = i
            /\ RowOf(m) = row /\ row.idx = op.idx
        BY DEF TypeOK, Op, RowOf
      <4>3. (\A r \in users : r.id # i) /\ (\A a \in ops : a.id # i)
        BY DEF FreshIds
      <4>. HIDE DEF m, row
      <4>4. OwnRows'
        BY <4>1, <4>2, <4>3 DEF OrphanInv, OwnRows, RowOf
      <4>5. UniqueIdx'
        BY <3>2, <4>1, <4>2 DEF OrphanInv, UniqueIdx
      <4>6. \A c \in containers' : Accounted(c)'
        BY <4>1, <4>2, <4>3 DEF OrphanInv, Accounted
      <4>. QED
        BY <4>4, <4>5, <4>6 DEF OrphanInv
    <3>. QED
      BY <2>5, <3>1, <3>2 DEF AddInsert
  <2>6. CASE AddRules(op)
    BY <2>6, CreatorMoves DEF AddRules, OrphanInv, OwnRows
  <2>7. CASE AddReload(op)
    BY <2>7, CreatorMoves, CreatorEnds DEF AddReload
  <2>. QED
    BY <1>3, <2>1, <2>2, <2>3, <2>4, <2>5, <2>6, <2>7 DEF AddStep
<1>4. ASSUME NEW op \in ops, UndoStep(op) PROVE OrphanInv'
  <2>1. CASE UndoWire(op) \/ UndoRules(op) \/ UndoReload(op)
    BY <2>1, CreatorMoves DEF UndoWire, UndoRules, UndoReload
  <2>2. CASE UndoDelete(op)
    BY <2>2, CreatorMoves DEF UndoDelete, Deleted, DeleteFailed, MayFail, CreatorsRollBack
  <2>3. CASE UndoRow(op)
    BY <2>3, CreatorEnds DEF UndoRow, Return
  <2>. QED
    BY <1>4, <2>1, <2>2, <2>3 DEF UndoStep
<1>5. ASSUME NEW op \in ops, DelStep(op) \/ ReinstallStep(op) PROVE FALSE
  BY <1>0, <1>5
  DEF DelStep, DelContainer, DelWire, DelRules, DelReload, DelRow, ReinstallStep,
      ReinstallDelete, ReinstallLaunch, ReinstallProvision, ReinstallWire
<1>6. ~(\E op \in ops : Crash(op))
  BY DEF Crash, MayFail, CreatorsRollBack
<1>7. CASE UNCHANGED vars
  BY <1>7 DEF vars, OrphanInv, OwnRows, UniqueIdx, Accounted, RowOf
<1>. QED
  BY <1>1, <1>2, <1>3, <1>4, <1>5, <1>6, <1>7 DEF Next, Arrive

(* The panel and the CLI may add users at once, of the same name or index, *)
(* and fail at any call that is rolled back: what is left when all have    *)
(* ended is instances of users, each with the address of its row           *)
(* (mgr.go:38-39).                                                         *)
THEOREM RollBackLeavesNoOrphan ==
  ASSUME CreatorsRollBack
  PROVE  Spec => []NoOrphans
<1>1. Init => OrphanInv
  BY DEF Init, OrphanInv, OwnRows, UniqueIdx
<1>2. OrphanInv => NoOrphans
  BY DEF OrphanInv, Accounted, NoOrphans, Settled
<1>. QED
  BY <1>1, <1>2, OrphanStep, TypeCorrect, PTL DEF Spec

(* Nor do two instances share an address then: the column is UNIQUE, and   *)
(* who loses the race for the index removes the instance it launched.      *)
THEOREM CreatorsSettle ==
  ASSUME CreatorsRollBack
  PROVE  Spec => []AddressesSettle
<1>1. Init => OrphanInv
  BY DEF Init, OrphanInv, OwnRows, UniqueIdx
<1>2. TypeOK /\ OrphanInv => AddressesSettle
  <2>1. ASSUME TypeOK, OrphanInv, ops = {}, NEW c \in containers, NEW d \in containers, c.ip = d.ip
        PROVE  c = d
    <3>1. PICK r \in users : r.name = c.name /\ r.idx = c.ip
      BY <2>1 DEF OrphanInv, Accounted
    <3>2. PICK s \in users : s.name = d.name /\ s.idx = d.ip
      BY <2>1 DEF OrphanInv, Accounted
    <3>3. r = s
      BY <2>1, <3>1, <3>2 DEF OrphanInv, UniqueIdx
    <3>. QED
      BY <2>1, <3>1, <3>2, <3>3 DEF TypeOK, Container
  <2>. QED
    BY <2>1 DEF AddressesSettle, Settled, NoSharedAddress
<1>. QED
  BY <1>1, <1>2, OrphanStep, TypeCorrect, PTL DEF Spec

-----------------------------------------------------------------------------
(* What an index, a port and a name stand for (Addresses): what different  *)
(* users are given never overlaps, for all 200 indices, all 2000 SSH ports *)
(* and every hash of a name. That is what lets Lifecycle take an index for *)
(* an address and the hash of a name for a /112.                           *)

(* ContainerIP gives different indices different addresses, none of which  *)
(* is the network, the broadcast address or the gateway: its byte          *)
(* conversion never wraps.                                                 *)
THEOREM AddressPerIndex ==
  ASSUME NEW subnet, subnet.ones = 24, NEW i \in Indices, NEW j \in Indices
  PROVE  /\ ContainerIP(subnet, i)[2] \in 2..254
         /\ ContainerIP(subnet, i) # GatewayFromSubnet(subnet)
         /\ ContainerIP(subnet, i) = ContainerIP(subnet, j) => i = j
<1>1. \A k \in Indices : (k + 1) % 256 = k + 1
  BY DEF Indices, MaxUsers
<1>2. /\ ContainerIP(subnet, i) = <<subnet.net, i + 1>>
      /\ ContainerIP(subnet, j) = <<subnet.net, j + 1>>
  BY <1>1 DEF ContainerIP
<1>3. i \in 1..200 /\ j \in 1..200
  BY DEF Indices, MaxUsers
<1>. QED
  BY <1>2, <1>3 DEF GatewayFromSubnet

(* The blocks of two indices do not meet, and no block meets the range of  *)
(* the SSH ports.                                                          *)
THEOREM PortBlocksApart ==
  ASSUME NEW i \in Indices, NEW j \in Indices, i # j
  PROVE  LET b == UserPorts(StartPort(i), PortsPerUser) IN
         /\ b \cap UserPorts(StartPort(j), PortsPerUser) = {}
         /\ b \cap SSHPorts = {}
<1>1. i \in 1..200 /\ j \in 1..200
  BY DEF Indices, MaxUsers
<1>2. \A k \in 1..200 : \A p :
        p \in UserPorts(StartPort(k), PortsPerUser) <=>
          p \in Int /\ 9900 + k * 100 <= p /\ p <= 9999 + k * 100
  BY DEF UserPorts, StartPort, PortsPerUser, UserPortBase
<1>3. UserPorts(StartPort(i), PortsPerUser)
        \cap UserPorts(StartPort(j), PortsPerUser) = {}
  BY <1>1, <1>2
<1>4. UserPorts(StartPort(i), PortsPerUser) \cap SSHPorts = {}
  <2>1. \A p \in SSHPorts : p \in Int /\ p >= 30000
    BY DEF SSHPorts, SSHPortBase, SSHPortCount
  <2>2. \A p \in UserPorts(StartPort(i), PortsPerUser) : p \in Int /\ p < 30000
    BY <1>1, <1>2
  <2>. QED
    BY <2>1, <2>2
<1>. QED
  BY <1>3, <1>4

(* The rules that WriteUser renders for two users whose rows satisfy the   *)
(* UNIQUE columns idx and ssh_port never compete for a port of the host.   *)
THEOREM ForwardsApart ==
  ASSUME NEW u \in [idx : Indices, port : SSHPorts],
         NEW v \in [idx : Indices, port : SSHPorts],
         u.idx # v.idx, u.port # v.port
  PROVE  /\ ForwardedTCP(u) \cap ForwardedTCP(v) = {}
         /\ ForwardedUDP(u) \cap ForwardedUDP(v) = {}
<1>1. /\ u.idx \in Indices /\ v.idx \in Indices
      /\ u.port \in SSHPorts /\ v.port \in SSHPorts
  OBVIOUS
<1>2. /\ ForwardedUDP(u) \cap ForwardedUDP(v) = {}
      /\ ForwardedUDP(u) \cap SSHPorts = {}
      /\ ForwardedUDP(v) \cap SSHPorts = {}
  BY <1>1, PortBlocksApart DEF ForwardedUDP
<1>3. /\ ForwardedTCP(u) = {u.port} \cup ForwardedUDP(u)
      /\ ForwardedTCP(v) = {v.port} \cup ForwardedUDP(v)
  BY DEF ForwardedTCP, ForwardedUDP
<1>. QED
  BY <1>1, <1>2, <1>3

(* Of the ruleset in force: no host port is forwarded to two addresses.    *)
Forwards(f) == ForwardedTCP([idx |-> f.ip, port |-> f.port])
HostPortsApart ==
  \A f, g \in kernel : f # g => Forwards(f) \cap Forwards(g) = {}

(* With the indices and the SSH ports of the program, and unless a removal *)
(* or a reload fails: whatever Adds, Dels and Reinstalls have come and     *)
(* gone, no two loaded rules compete for a TCP port of the host. (The      *)
(* panel's own port is not among what is kept apart: panel.listen is any.) *)
THEOREM LoadedForwardsApart ==
  ASSUME OneProcess, "unlink" \notin Faults, "reload" \notin Faults,
         Idxs \subseteq Indices, Ports \subseteq SSHPorts
  PROVE  Spec => []HostPortsApart
<1>1. ASSUME TypeOK, AddressInv, LoadedRulesBelongToUsers PROVE HostPortsApart
  <2>1. ASSUME NEW r \in users, NEW s \in users, r # s
        PROVE  Forwards(RuleOf(r)) \cap Forwards(RuleOf(s)) = {}
    <3>1. r \in Row /\ s \in Row /\ r.idx # s.idx /\ r.port # s.port
      BY <1>1, <2>1 DEF TypeOK, AddressInv, UniqueRows
    <3>2. /\ [idx |-> r.idx, port |-> r.port] \in [idx : Indices, port : SSHPorts]
          /\ [idx |-> s.idx, port |-> s.port] \in [idx : Indices, port : SSHPorts]
      BY <3>1 DEF Row
    <3>. QED
      BY <3>1, <3>2, ForwardsApart DEF Forwards, RuleOf
  <2>. QED
    BY <1>1, <2>1 DEF LoadedRulesBelongToUsers, HostPortsApart
<1>. QED BY <1>1, TypeCorrect, AddressInvariant, LoadedRulesFollowUsers, PTL

(* allocSSHPort's count of the used ports refuses exactly when none is     *)
(* free, and it never returns one that is used.                            *)
THEOREM PortFoundIfAny ==
  ASSUME NEW used \in SUBSET SSHPorts
  PROVE  /\ AllocSSHPort(used) # {}
         /\ \A p \in AllocSSHPort(used) : p # NoPort => p \in SSHPorts \ used
         /\ NoPort \in AllocSSHPort(used) <=> used = SSHPorts
<1>1. SSHPorts = 30000..31999
  BY DEF SSHPorts, SSHPortBase, SSHPortCount
<1>2. IsFiniteSet(SSHPorts) /\ Cardinality(SSHPorts) = 2000
  <2>. DEFINE first == SSHPortBase
              last == SSHPortBase + SSHPortCount - 1
  <2>1. first \in Int /\ last \in Int /\ last - first + 1 = 2000 /\ first <= last
    BY DEF SSHPortBase, SSHPortCount
  <2>2. SSHPorts = first .. last
    BY DEF SSHPorts
  <2>. HIDE DEF first, last
  <2>. QED
    BY <2>1, <2>2, FS_Interval
<1>3. /\ IsFiniteSet(used) /\ Cardinality(used) \in Nat
      /\ Cardinality(used) <= 2000
      /\ Cardinality(used) = 2000 => used = SSHPorts
  BY <1>2, FS_Subset, FS_CardinalityType
<1>4. NoPort \notin SSHPorts
  BY <1>1 DEF NoPort
<1>5. Cardinality(used) >= 2000 <=> used = SSHPorts
  BY <1>2, <1>3
<1>6. AllocSSHPort(used) = IF used = SSHPorts THEN {NoPort} ELSE SSHPorts \ used
  BY <1>5 DEF AllocSSHPort, SSHPortCount
<1>. QED
  BY <1>4, <1>6

(* NextFreeIdx returns an unused index as long as there is one.            *)
THEOREM IndexFoundIfAny ==
  ASSUME NEW used
  PROVE  /\ NextFreeIdx(used) # {}
         /\ \A i \in NextFreeIdx(used) : i # 0 => i \in Indices \ used
         /\ 0 \in NextFreeIdx(used) <=> Indices \subseteq used
BY DEF NextFreeIdx, Indices, MaxUsers

(* An offset below 65536 carries into no other group.                      *)
LEMMA Remainder ==
  ASSUME NEW k \in Int, NEW n \in Int, 0 <= k, k < n
  PROVE  k % n = k /\ k \div n = 0
<1>1. k % n = k
  BY SMTT(60)
<1>2. k \div n = 0
  BY SMTT(60)
<1>. QED
  BY <1>1, <1>2

LEMMA HostCountType == HostCount \in Nat /\ HostCount > 1
BY DEF HostCount

LEMMA OffsetInPrefix ==
  ASSUME NEW net, NEW h \in Hashes, NEW k \in Hosts
  PROVE  /\ AddHostOffset(BlockIP(net, h), k) = [net |-> net, hash |-> h, host |-> k]
         /\ IPv6Network(net) = BlockIP(net, 0)
<1>1. k \in Int /\ 0 <= k /\ k < HostCount /\ HostCount \in Int /\ h \in Nat
  BY HostCountType DEF Hosts, Hashes
<1>2. k % HostCount = k /\ k \div HostCount = 0
  BY <1>1, Remainder
<1>3. BlockIP(net, h) = [net |-> net, hash |-> h, host |-> 0]
  BY DEF BlockIP, IPv6Network
<1>4. IPv6Network(net) = BlockIP(net, 0)
  BY DEF BlockIP, IPv6Network
<1>5. AddHostOffset(BlockIP(net, h), k)
        = [net |-> net, hash |-> h + (0 + k) \div HostCount,
           host |-> (0 + k) % HostCount]
  BY <1>3 DEF AddHostOffset
<1>6. 0 + k = k /\ h + 0 = h
  BY <1>1
<1>7. AddHostOffset(BlockIP(net, h), k) = [net |-> net, hash |-> h, host |-> k]
  BY <1>2, <1>5, <1>6
<1>. QED
  BY <1>4, <1>7

(* A container's primary address lies in its own block.                    *)
THEOREM PrimaryInBlock ==
  ASSUME NEW net, NEW h \in Hashes
  PROVE  IPv6Addr(net, h) \in IPv6Block(net, h)
<1>1. 1 \in Hosts
  BY HostCountType DEF Hosts
<1>2. IPv6Addr(net, h) = [net |-> net, hash |-> h, host |-> 1]
  BY <1>1, OffsetInPrefix DEF IPv6Addr
<1>. QED
  BY <1>1, <1>2 DEF IPv6Block

(* The bridge's gateway, whichever addresses of the prefix the host sees   *)
(* in use, is none of them, and belongs to the block of hash 0 and to no   *)
(* other.                                                                  *)
THEOREM GatewayInFirstBlock ==
  ASSUME NEW net, NEW inUse, NEW h \in Hashes, NEW gw \in BridgeGateway(net, inUse)
  PROVE  /\ gw \notin inUse
         /\ gw \in IPv6Block(net, h) <=> h = 0
<1>1. PICK k \in FirstFree(net, inUse) : gw = AddHostOffset(IPv6Network(net), k)
  BY DEF BridgeGateway
<1>2. k \in 1 .. HostCount - 1 /\ gw \notin inUse
  BY <1>1 DEF FirstFree
<1>3. k \in Hosts /\ 0 \in Hashes
  BY <1>2, HostCountType DEF Hosts, Hashes
<1>4. gw = [net |-> net, hash |-> 0, host |-> k]
  BY <1>1, <1>3, OffsetInPrefix
<1>. QED
  BY <1>2, <1>3, <1>4 DEF IPv6Block

(* checkIPv6BlockCollision compares where blocks start; that is enough for *)
(* a new user's block to meet no other user's, and not to hold the gateway.*)
(* It refuses nothing but a taken hash and the block of the gateway.       *)
THEOREM CollisionCheckSound ==
  ASSUME NEW net, NEW h \in Hashes, NEW others \in SUBSET Hashes, NEW inUse
  PROVE  /\ CheckIPv6BlockCollision(net, h, others, inUse) =>
              /\ \A g \in others : IPv6Block(net, g) \cap IPv6Block(net, h) = {}
              /\ IPv6Block(net, h) \cap BridgeGateway(net, inUse) = {}
         /\ h \notin others /\ h # 0 =>
              CheckIPv6BlockCollision(net, h, others, inUse)
<1>1. \A g \in Hashes : BlockIP(net, g) = [net |-> net, hash |-> g, host |-> 0]
  BY DEF BlockIP, IPv6Network
<1>2. ASSUME CheckIPv6BlockCollision(net, h, others, inUse), NEW g \in others
      PROVE  IPv6Block(net, g) \cap IPv6Block(net, h) = {}
  <2>1. g # h
    BY <1>2 DEF CheckIPv6BlockCollision
  <2>. QED
    BY <2>1 DEF IPv6Block
<1>3. ASSUME CheckIPv6BlockCollision(net, h, others, inUse)
      PROVE  IPv6Block(net, h) \cap BridgeGateway(net, inUse) = {}
  BY <1>3 DEF CheckIPv6BlockCollision
<1>4. ASSUME h \notin others, h # 0
      PROVE  CheckIPv6BlockCollision(net, h, others, inUse)
  <2>1. \A g \in others : BlockIP(net, g) # BlockIP(net, h)
    BY <1>1, <1>4
  <2>2. \A gw \in BridgeGateway(net, inUse) : gw \notin IPv6Block(net, h)
    BY <1>4, GatewayInFirstBlock
  <2>. QED
    BY <2>1, <2>2 DEF CheckIPv6BlockCollision
<1>. QED
  BY <1>2, <1>3, <1>4
=============================================================================
