CONSTANTS
  EchoForms = {"plain"}
  MaxPrints = 1
  Asked <- AllAsks
  Quirks = {"echoes answers"}
  MaxCommands = 1
  Texts = {t1}
  CmdQuestions <- Q1
  Callbacks <- Cb12
  MaxRepeated = 2
  CbLimit = 2
  LoginInsteadEOF = FALSE
  HasCmdTimeout = FALSE
SPECIFICATION Spec
PROPERTIES
  CallbackLimitIsPerRun
