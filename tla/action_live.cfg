\* One task at a time, fair; the client asks for every result.
SPECIFICATION LiveSpec
CONSTANTS
  GoalIds = {g1, g2}
  Tasks = {t1}
  Times = {1}
  None = None
  MaxSends = 1
  MaxResultReqs = 1
  MaxCancels = 1
  MaxFeedback = 0
  WritesFail = FALSE
  KeepsHandles = TRUE
  CancelExclusive = TRUE
CHECK_DEADLOCK FALSE
INVARIANTS
  StatusTopicAgrees
PROPERTY
  ExecutingGoalSettles
