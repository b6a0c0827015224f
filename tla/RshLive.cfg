CONSTANTS
  Clients = {c1, c2}
  None = None
  Backlog = 1
  Lines = {"cd", "program", "stop-server"}
  Faults = {}
SPECIFICATION Spec
PROPERTIES
  ThreadedAnswers
  AnswersOnceUsersLeave
  StopHonoured
