\* A goal finishes while the application decides about its cancel request.
SPECIFICATION Spec
CONSTANTS
  GoalIds = {g1}
  Tasks = {t1, t2}
  Times = {1}
  None = None
  MaxSends = 1
  MaxResultReqs = 1
  MaxCancels = 1
  MaxFeedback = 0
  WritesFail = FALSE
  KeepsHandles = TRUE
  CancelExclusive = FALSE
SYMMETRY TaskSymmetry
VIEW ViewWithoutTopic
CHECK_DEADLOCK FALSE
INVARIANT
  FlushLooksDone
