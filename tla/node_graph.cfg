\* Two nodes that share a name, a third in another Context, two endpoints each.
SPECIFICATION LiveSpec
CONSTANTS
  n1 = n1
  n2 = n2
  n3 = n3
  c1 = c1
  c2 = c2
  talker = talker
  viewer = viewer
  Contexts = {c1, c2}
  Nodes = {n1, n2, n3}
  Names = {talker, viewer}
  ContextOf <- TwoAndOne
  NameOf <- Namesakes
  NoEntry = NoEntry
  Nothing = Nothing
  WritesFail = TRUE
  Spun = {n3}
  Depth = 1
  MaxEndpoints = 2
CHECK_DEADLOCK FALSE
INVARIANTS
  NoGhosts
  EndpointsAnnounced
  CaughtUp
PROPERTY
  DroppedForgotten
