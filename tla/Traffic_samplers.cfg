SPECIFICATION UndisturbedSpec
CONSTANTS
  panel = panel
  cli = cli
  loop = loop
  page = page
  show = show
  alice = alice
  NoRow = NoRow
  Processes = {panel, cli}
  Samplers = {loop, show}
  ProcessOf <- OwnProcess
  Names = {alice}
  MaxCarried = 3
  MaxMonth = 0
  Faults = {}
INVARIANT
  NeverDoubleCounted
