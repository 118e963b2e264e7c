SPECIFICATION Spec
CONSTANTS
  panel = panel
  cli = cli
  alice = alice
  bob = bob
  carol = carol
  id1 = id1
  id2 = id2
  id3 = id3
  id4 = id4
  Processes = {panel}
  Names = {alice, bob, carol}
  Idxs = {1, 2}
  Ports = {1, 2}
  Ids = {id1, id2, id3, id4}
  NoId = NoId
  Block <- CollidingBlocks
  GatewayBlock = 2
  V4Forward = TRUE
  Kinds = {"add", "del", "reinstall"}
  Faults <- NotUnlinkReload
SYMMETRY IdSymmetry
INVARIANTS
  TypeOK
  NoSharedAddress
  AddressOfUser
  FilesBelongToUsers
  LoadedRulesBelongToUsers
  BlocksDisjoint
  CreatedUsersServed
