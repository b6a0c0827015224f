CONSTANTS
  Clients = {c1, c2}
  None = None
  Backlog = 1
  Lines = {"program"}
  Faults = {"kill"}
SPECIFICATION Spec
INVARIANT SendErrorsReturn
