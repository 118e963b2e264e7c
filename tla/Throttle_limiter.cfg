SPECIFICATION FairSpec
CONSTANTS
  alice = alice
  bob = bob
  disk = disk
  NotPrimed = NotPrimed
  Names = {alice}
  Handlers = {disk}
  MaxUsed = 2
  Kinds <- AllHappenings
  Faults <- AllFaults
INVARIANTS
  MarksTellTruth
PROPERTIES
  OverIsLimited
  UnderIsReleased
