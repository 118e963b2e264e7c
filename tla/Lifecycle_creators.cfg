SPECIFICATION Spec
CONSTANTS
  panel = panel
  cli = cli
  alice = alice
  bob = bob
  carol = carol
  id1 = id1
  id2 = id2
  id3 = id3
  id4 = id4
  Processes = {panel, cli}
  Names = {alice, bob}
  Idxs = {1, 2}
  Ports = {1, 2}
  Ids = {id1, id2, id3, id4}
  NoId = NoId
  Block <- DistinctBlocks
  GatewayBlock = 9
  V4Forward = TRUE
  Kinds = {"add"}
  Faults <- RolledBack
SYMMETRY IdSymmetry
INVARIANTS
  AddressesSettle
  NoOrphans
CHECK_DEADLOCK FALSE
