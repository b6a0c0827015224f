CONSTANTS
  Clients = {c1, c2}
  None = None
  Backlog = 1
  Lines = {"exit", " exit", "stop-server", " stop-server", "unparsable", "cd", "program"}
  Faults = {"kill", "nomem", "nothread", "noaccept", "nopipe", "noboot"}
SPECIFICATION Spec
SYMMETRY ClientSymmetry
INVARIANTS
  TypeOK
  ActiveIsCounted
  SocketsOwned
  LockStep
  OnlyKilledClientsReset
PROPERTIES
  OrderlyStop
  ServiceSpec
