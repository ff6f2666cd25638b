SPECIFICATION Spec
CONSTANTS
  Services = {"send_goal", "get_result", "cancel_goal"}
  Servers = {"send_goal", "get_result", "cancel_goal"}
  ServiceOf <- MCServiceOf
  k1 = k1
  k2 = k2
  Callers = {k1, k2}
  ClientOf <- MCClientOf
  Forms <- MCForms
  MaxCalls <- MCMaxCalls
  Publishers = {"feedback", "status"}
  Subscriptions = {"feedback", "status"}
  Hears <- MCHears
  Threads = {"application"}
  MaxFeedback = 1
  None = None
CHECK_DEADLOCK FALSE
INVARIANTS ReplyIsMine NotStranded
PROPERTY CallReturns
