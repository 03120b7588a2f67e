CONSTANTS
  EchoForms = {"plain", "redraw"}
  MaxPrints = 1
  Asked <- SameQuestion
  Quirks = {"close", "logout"}
  MaxCommands = 2
  Texts = {t1}
  CmdQuestions <- Q1
  Callbacks <- Cb1
  MaxRepeated = 2
  CbLimit = 2
  LoginInsteadEOF = TRUE
  HasCmdTimeout = FALSE
SPECIFICATION FairSpec
PROPERTIES
  ExecuteReturns
