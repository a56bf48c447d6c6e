CONSTANTS
  Requests = {r1, r2, r3}
  Clients = {c1, c2}
  None = None
  Gate = Gate
  MaxDepth = 3
  HandlersMayBlock = FALSE
SPECIFICATION Spec
INVARIANTS
  NoLostWakeup
PROPERTIES
  ImplementsService
