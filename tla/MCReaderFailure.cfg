SPECIFICATION Spec
CONSTANTS
  Connector = "console"
  StreamLen = 2
  Prompts = {2}
  Messages = {}
  Cap = 1
  Size = 1
  MaxCalls = 1
  MaxPrepends = 0
CHECK_DEADLOCK FALSE
INVARIANTS FailureIsReported
