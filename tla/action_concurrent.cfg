\* Two tasks, two goals, every call at any time.
SPECIFICATION Spec
CONSTANTS
  GoalIds = {g1, g2}
  Tasks = {t1, t2}
  Times = {1}
  None = None
  MaxSends = 1
  MaxResultReqs = 1
  MaxCancels = 1
  MaxFeedback = 1
  WritesFail = TRUE
  KeepsHandles = FALSE
  CancelExclusive = FALSE
SYMMETRY Symmetry
VIEW ViewWithoutTopic
CHECK_DEADLOCK FALSE
INVARIANTS
  TypeOK
  AcceptedBeforeResult
  ResultAnswersItsRequest
PROPERTY
  FeedbackStopsAtResult
