CONSTANTS
  EchoForms = {"redraw"}
  MaxPrints = 1
  Asked <- NoAsks
  Quirks = {}
  MaxCommands = 1
  Texts = {t1}
  CmdQuestions <- Q1
  Callbacks <- NoSeq
  MaxRepeated = 2
  CbLimit = 2
  LoginInsteadEOF = TRUE
  HasCmdTimeout = TRUE
SPECIFICATION Spec
PROPERTIES
  PromptBeforeEchoContinues
