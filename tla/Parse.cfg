CONSTANTS
  CmdMax = 2
  ArgvMax = 7
  Lines <- SomeLines
  Faults = {"nomem"}
SPECIFICATION Spec
INVARIANTS
  TypeOK
  ArgvEnded
PROPERTIES
  ParsesTheLine
  ParserEnds
CHECK_DEADLOCK FALSE
