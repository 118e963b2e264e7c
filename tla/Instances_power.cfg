SPECIFICATION Spec
CONSTANTS
  c1 = c1
  c2 = c2
  h1 = h1
  h2 = h2
  None = None
  Refused = Refused
  MaxInt = 4095
  Handlers = {h1, h2}
  Containers = {c1, c2}
  Kinds <- Switches
  Options <- OneOption
  FirstQuota <- Half
  Forms <- SomeForms
  Faults <- AllFaults
SYMMETRY Symmetry
INVARIANTS
  PowerAsAsked
PROPERTIES
  RepairEndsServing
