SPECIFICATION FairSpec
CONSTANTS
  Processes = {child, heir}
  Child = child
  PipeBytes = 1
  MaxStdio = 2
  MaxPrinted = 3
INVARIANTS ResultTellsAll NobodyIsCutOff
PROPERTIES WritersGetOn WaitsOnlyForHolders
