CONSTANTS
  h1 = h1
  h2 = h2
  Handlers = {h1, h2}
  MaxCmds = 3
  Lengths <- LongAndSingle
  Capacity = 1
  Output = 2
  FirstReads = {FALSE, TRUE}
  Faults = {"nofork"}
SPECIFICATION Spec
INVARIANTS
  TypeOK
  OwnEnds
  EndsReturned
PROPERTIES
  WaitedForAll
  IsolatedPipelinesReturn
CHECK_DEADLOCK FALSE
