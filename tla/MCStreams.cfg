SPECIFICATION Spec
CONSTANTS
  StreamLen = 4
  Prompts = {1, 4}
  Messages = {3}
  Cap = 1
  Size = 2
  MaxCalls = 2
  MaxPrepends = 1
  TmpCap = 2
  OutCap = 1
  Addresses = 2
  MaxPhrases = 2
CHECK_DEADLOCK FALSE
INVARIANTS ReadsExact PipelineExact
PROPERTIES StopsAtFirstPrompt ReadsEnd ImplementsFifo
