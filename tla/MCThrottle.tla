----------------------------- MODULE MCThrottle -----------------------------
(***************************************************************************)
(* Instances of Throttle for TLC.                                          *)
(***************************************************************************)
EXTENDS Throttle, TLC

CONSTANTS
  alice, bob, \* users
  disk        \* a request that grows a disk

AllHappenings == Happenings
AllFaults == {"prime", "usage", "lxd", "reply"}
=============================================================================
