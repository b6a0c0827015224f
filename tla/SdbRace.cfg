CONSTANTS
  Procs = {p1, p2}
  MaxId = 2
  MaxGpa = 1
  Span = 8
  Ids = {1}
  Gpas = {0, 1}
  Faults = {}
SPECIFICATION Spec
PROPERTY AddNeverReplaces
