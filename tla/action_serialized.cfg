\* Two tasks and a goal id that is used again; cancel requests are answered apart from results.
SPECIFICATION Spec
CONSTANTS
  GoalIds = {g1}
  Tasks = {t1, t2}
  Times = {1, 2}
  None = None
  MaxSends = 2
  MaxResultReqs = 2
  MaxCancels = 2
  MaxFeedback = 0
  WritesFail = TRUE
  KeepsHandles = TRUE
  CancelExclusive = TRUE
SYMMETRY TaskSymmetry
VIEW ViewWithoutTopic
CHECK_DEADLOCK FALSE
INVARIANTS
  FlushLooksDone
  ResultIsFinalStatus
PROPERTIES
  ImplementsLifecycle
  StartedFirst
