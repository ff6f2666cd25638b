\* One application task and remote requests on use_sim_time and one more parameter.
SPECIFICATION LiveSpec
CONSTANTS
  speed = speed
  Names = {use_sim_time, speed}
  SimTime = use_sim_time
  Values = {true, false, text}
  Booleans = {true, false}
  False = false
  Valid <- NoText
  Undeclared = Undeclared
  Tasks = {app}
  Spinner = spinner
  MaxCalls = 2
  MaxRequests = 1
CHECK_DEADLOCK FALSE
INVARIANTS
  OnlyValidated
  ListenerAgrees
  EffectAgrees
PROPERTIES
  EventKindRight
  UndeclaredStays
  RequestsAnswered
