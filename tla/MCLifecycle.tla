---------------------------- MODULE MCLifecycle ----------------------------
(***************************************************************************)
(* Instances of Lifecycle for TLC.                                         *)
(***************************************************************************)
EXTENDS Lifecycle, TLC

CONSTANTS
  panel, cli,        \* processes
  alice, bob, carol, \* user names
  id1, id2, id3, id4 \* row ids

(* alice and carol hash to the same /112.                                  *)
CollidingBlocks == [n \in Names |-> IF n = bob THEN 2 ELSE 1]
DistinctBlocks == [n \in Names |-> CASE n = alice -> 1 [] n = bob -> 2 [] OTHER -> 3]

AllFaults == FaultKinds
NotUnlink == FaultKinds \ {"unlink"}
NotUnlinkReload == FaultKinds \ {"unlink", "reload"}
NoLeaks == FaultKinds \ {"launch", "delete", "crash"}
NoFaults == {}
RolledBack == {"provision", "wire", "insert", "rules", "create"}

IdSymmetry == Permutations(Ids)
=============================================================================
