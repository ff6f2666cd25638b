SPECIFICATION ConversionsSpec
CHECK_DEADLOCK FALSE
CONSTANTS
  Giga = 3
  SecMin <- MCSecMin
  SecMax = 3
  NanoMax = 7
  LongMax = 50
  Ticks = 7
  Words = {"a", "_b", "1a", "a__b", "_action", "feedback", "get_parameters", "get_parameter_types", "set_parameters",
    "set_parameters_atomically", "list_parameters", "describe_parameters"}
  Starts = {"a", "_b", "a__b", "a-b", "_action", "feedback", "get_parameters", "get_parameter_types", "set_parameters",
    "set_parameters_atomically", "list_parameters", "describe_parameters"}
  Doubles = {"a__b"}
  Numbers = {0, 1}
  Decimal <- MCDecimal
  GuidLength = 2
  GidLength = 3
  KnownTypes <- MCKnownTypes
  Nanos <- MCNanos
  StampTicks <- MCStampTicks
  Tokens = {"", "a", "_b", "1a", "a__b", "a-b"}
  MaxTokens = 4
  Depths = {0, 1, 5}
  Lengths = {0, 1, 4, 11, 13, 60}
  Octets = {0, 1, 2}
INVARIANTS TimesAgree NamesAgree EncodingsAgree
