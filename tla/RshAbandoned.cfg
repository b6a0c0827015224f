CONSTANTS
  Clients = {c1, c2}
  None = None
  Backlog = 1
  Lines = {"stop-server", "cd"}
  Faults = {}
SPECIFICATION Spec
INVARIANT AcceptedAreServed
