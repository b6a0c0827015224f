CONSTANTS
  MaxProcs = 5
  MaxCmds = 3
  MaxText = 1
  Block = 2
  Scripts <- SomeScripts
  Kinds = {"file", "pipe", "tty"}
  Echo <- SomeEcho
  Statuses = {0, 3}
  Faults = {"nofork", "nopipe"}
SPECIFICATION Spec
INVARIANTS
  TypeOK
  CopiesHarmless
  Reaped
  EndsClosed
  RcIsLast
PROPERTIES
  NoLineSkipped
  InputEnds
CHECK_DEADLOCK FALSE
