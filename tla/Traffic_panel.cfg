SPECIFICATION FairSpec
CONSTANTS
  panel = panel
  cli = cli
  loop = loop
  page = page
  show = show
  alice = alice
  NoRow = NoRow
  Processes = {panel}
  Samplers = {loop, page}
  ProcessOf <- SameProcess
  Names = {alice}
  MaxCarried = 3
  MaxMonth = 1
  Faults = {"list", "apply"}
INVARIANTS
  TypeOK
  NeverDoubleCounted
PROPERTIES
  MonthNeverGoesBack
  CatchesUp
