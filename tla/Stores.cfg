SPECIFICATION Spec
CONSTANTS
  l1 = l1
  l2 = l2
  w1 = w1
  w2 = w2
  i1 = i1
  i2 = i2
  Logins = {l1, l2}
  Writers = {w1, w2}
  IPs = {i1, i2}
  Limit = 2
  Window = 2
  MaxIPs = 1
  Retention = 2
  MaxTime = 3
  MaxRows = 4
  None = None
  Faults = {"db"}
SYMMETRY Perms
CHECK_DEADLOCK FALSE
INVARIANTS
  AttemptsBounded
  NewestRowsKept
PROPERTIES
  RefusedOnlyWhenSpent
