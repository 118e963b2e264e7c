SPECIFICATION Spec
CONSTANTS
  alice = alice
  bob = bob
  example = example
  another = another
  i1 = i1
  i2 = i2
  i3 = i3
  h1 = h1
  h2 = h2
  None = None
  Handlers = {h1, h2}
  Users = {alice, bob}
  DomainNames = {example}
  Ids = {i1, i2, i3}
  Faults <- AllFaults
SYMMETRY Symmetry
INVARIANTS
  TypeOK
  FilesFollowRows
PROPERTIES
  TableImplementsOwnership
