SPECIFICATION Spec
CONSTANTS
  Contexts = {c1, c2}
  Observers = {c1}
  NodeNames = {"/n"}
  KnownTypes = {}
  Requests <- MCRequests
  Tasks = {t1}
  Waits = {w1}
  WaitsIn <- MCWaitsIn
  WaitsFor <- MCWaitsFor
  TokensFail = TRUE
  MaxNodes <- MCMaxNodes
  MaxMade = 3
  MaxLosses = 1
  None = None
CHECK_DEADLOCK FALSE
INVARIANTS CacheIsGraph NoMissedEntity
PROPERTY WaitResolves
