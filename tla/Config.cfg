SPECIFICATION Spec
CONSTANTS
  c1 = c1
  c2 = c2
  u1 = u1
  None = None
  Torn = Torn
  Commands = {c1, c2}
  Users = {u1}
  MaxCommands = 3
  Faults = {"step", "crash", "edit"}
SYMMETRY Perms
CHECK_DEADLOCK FALSE
INVARIANTS
  TypeOK
  NeverAdoptsOld
  WiredAsSnapshotted
  AdminPassKept
  
  CpuScaledOnce
PROPERTIES
  PassNeverReverts
