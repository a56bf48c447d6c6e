CONSTANTS
  Requests = {r1, r2, r3}
  Clients = {c1}
  None = None
  Gate = Gate
  MaxDepth = 3
  HandlersMayBlock = TRUE
SPECIFICATION FairSpec
INVARIANTS
  LinkedOnce
  BlockedKeepsRequest
  GateCallerServed
  InOrder
  StopLeaksNothing
PROPERTIES
  BlockedReturns
  SubmittedCompletes
