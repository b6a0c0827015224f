CONSTANTS
  Procs = {p1, p2}
  MaxId = 2
  MaxGpa = 1
  Span = 8
  Ids <- SomeIds
  Gpas = {1, 2}
  Faults = {"noopen", "nowrite"}
SPECIFICATION HSpec
INVARIANTS
  TypeOK
  RecordsInPlace
PROPERTIES
  AnswersWereTrue
  CommandsEnd
