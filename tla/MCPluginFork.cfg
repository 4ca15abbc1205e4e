SPECIFICATION Spec
CONSTANTS
  p1 = p1
  p2 = p2
  Process = {p1, p2}
  First = p1
  Pid = {1, 2}
  Correlated = TRUE
  MaxAdapters = 2
INVARIANTS
  ServingIsOwned
  RegisteredServes
PROPERTY FailedStopsRecover
CHECK_DEADLOCK FALSE
