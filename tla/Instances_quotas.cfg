SPECIFICATION Spec
CONSTANTS
  c1 = c1
  c2 = c2
  h1 = h1
  h2 = h2
  None = None
  Refused = Refused
  MaxInt = 4095
  Handlers = {h1, h2}
  Containers = {c1}
  Kinds <- Quotas
  Options <- OneOption
  FirstQuota <- Half
  Forms <- SomeForms
  Faults <- Errors
SYMMETRY Symmetry
INVARIANTS
  TypeOK
  QuotasFollowRow
  LimitKept
PROPERTIES
  AllOrNothing
  DiskOnlyGrows
