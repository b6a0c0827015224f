CONSTANTS
  MaxProcs = 5
  MaxCmds = 2
  MaxText = 1
  Block = 2
  Scripts <- NotFound
  Kinds = {"pipe"}
  Echo <- SomeEcho
  Statuses = {0}
  Faults = {}
SPECIFICATION Spec
INVARIANT ChildrenCompleteFirst
CHECK_DEADLOCK FALSE
