CONSTANTS
  h1 = h1
  h2 = h2
  Handlers = {h1, h2}
  MaxCmds = 2
  Lengths <- Pairs
  Capacity = 1
  Output = 2
  FirstReads = {FALSE}
  Faults = {}
SPECIFICATION Spec
PROPERTY PipelinesReturn
CHECK_DEADLOCK FALSE
