CONSTANTS
  Size = 5
  Top = 6
  Strings <- SomeStrings
  Rewrites <- SomeRewrites
  Unknown = {"a", " "}
SPECIFICATION Spec
INVARIANTS
  TypeOK
  SetupIsRight
  CountIsRight
  PrintIsRight
  ReverseIsRight
  ReplaceIsRight
PROPERTY StaysInBuffer
CHECK_DEADLOCK FALSE
