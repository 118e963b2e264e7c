---------------------------- MODULE MCInstances ----------------------------
(***************************************************************************)
(* Instances of Instances for TLC. Integers have 13 bits.                  *)
(***************************************************************************)
EXTENDS Instances, TLC

CONSTANTS
  c1, c2, \* containers
  h1, h2  \* handlers

Typed(form, n) == [form |-> form, n |-> n]
Half == <<5, 512, 1>>
Form(cpu, mem, disk, traffic) ==
  [cpu |-> cpu, mem |-> mem, disk |-> disk, traffic |-> traffic]
OneCore == Typed("digits", 1)
HalfACore == Typed("decimal", 5)
(* All grows; all back as at first, but a disk that has grown; the rest as *)
(* it is.                                                                  *)
SomeForms ==
  {Form(OneCore, Typed("G", 1), Typed("digits", 2), Typed("digits", 7)),
   Form(HalfACore, Typed("M", 512), Typed("digits", 1), Typed("digits", 0)),
   Form(None, Typed("G", 1), Typed("digits", 2), None)}
OneOption == {"isolation"}
AllFaults == FaultKinds
Errors == FaultKinds \ {"crash"}
Quotas == {"panel", "cli", "limit"}
Switches == {"power", "harden", "repair", "guest"}
Symmetry == Permutations(Containers) \cup Permutations(Handlers)
=============================================================================
