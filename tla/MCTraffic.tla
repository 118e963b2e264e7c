----------------------------- MODULE MCTraffic -----------------------------
(***************************************************************************)
(* Instances of Traffic for TLC.                                           *)
(***************************************************************************)
EXTENDS Traffic, TLC

CONSTANTS
  alice,            \* a user
  panel, cli,       \* processes
  loop, page, show  \* samplers: the background loop, a page, `vps show`

SameProcess == [s \in Samplers |-> panel]
OwnProcess == [s \in Samplers |-> IF s = show THEN cli ELSE panel]

(* Containers that, once up, are never stopped, reinstalled or deleted.    *)
UndisturbedSpec ==
  Init /\ [][Next /\ \A n \in Names : instance[n] = "running" => instance'[n] = "running"]_vars
=============================================================================
