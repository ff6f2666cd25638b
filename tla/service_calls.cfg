\* Two callers share a client and one has a client of another DDS vendor.
SPECIFICATION LiveSpec
CONSTANTS
  c1 = c1
  c2 = c2
  k1 = k1
  k2 = k2
  k3 = k3
  Clients = {c1, c2}
  Callers = {k1, k2, k3}
  ClientOf <- SharedAndOwn
  FastDdsClients = {c2}
  Server = Server
  Mapping = "Enhanced"
  None = None
  MaxCalls <- RepeatOne
CHECK_DEADLOCK FALSE
INVARIANTS
  TypeOK
  ResponseIsMine
  DistinctIds
PROPERTY
  CallAnswered
