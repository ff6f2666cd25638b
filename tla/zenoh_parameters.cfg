SPECIFICATION Spec
CONSTANTS
  Services = {"get_parameters", "get_parameter_types", "set_parameters",
              "set_parameters_atomically", "list_parameters", "describe_parameters"}
  Servers = {"get_parameters", "get_parameter_types", "set_parameters",
             "set_parameters_atomically", "list_parameters", "describe_parameters"}
  ServiceOf <- MCServiceOf
  k1 = k1
  k2 = k2
  Callers = {k1, k2}
  ClientOf <- MCClientOf
  Forms <- MCForms
  MaxCalls <- MCMaxCalls
  Publishers = {"events"}
  Subscriptions = {"listener"}
  Hears <- MCHears
  Threads = {"spin", "application"}
  Initial <- MCInitial
  Names = {"a", "b", "use_sim_time"}
  TypeOf <- MCTypeOf
  StartsWith <- MCStartsWith
  Asks <- MCAsks
  Impatient = {k2}
  Reads <- MCReads
  Writes <- MCWrites
  LocalWrites <- MCLocalWrites
  MaxSets = 1
  None = None
CHECK_DEADLOCK FALSE
INVARIANTS RepliesTrue EventsAgree
PROPERTY SpinAnswers
