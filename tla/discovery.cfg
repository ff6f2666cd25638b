\* Three waits for one endpoint, two remote endpoints, channels for one event.
SPECIFICATION LiveSpec
CONSTANTS
  l1 = l1
  Locals = {l1}
  Remotes = {r1, r2}
  Waits = {w1, w2, w3}
  LocalOf <- OneEndpoint
  Capacity = 1
  MaxEvents = 2
CHECK_DEADLOCK FALSE
INVARIANTS
  NoLostWakeup
  OpenReceiversKept
  MapIsCurrent
PROPERTY
  MatchEndsWait
