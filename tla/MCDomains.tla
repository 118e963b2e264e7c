----------------------------- MODULE MCDomains -----------------------------
(***************************************************************************)
(* Instances of Domains for TLC.                                           *)
(***************************************************************************)
EXTENDS Domains, TLC

CONSTANTS
  alice, bob,        \* accounts
  example, another,  \* domain names
  h1, h2,            \* handlers
  i1, i2, i3         \* row ids

AllFaults == FaultKinds
Symmetry == Permutations(Ids) \cup Permutations(Users) \cup Permutations(DomainNames) \cup Permutations(Handlers)
=============================================================================
