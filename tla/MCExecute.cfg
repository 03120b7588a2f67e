CONSTANTS
  EchoForms = {"plain", "esc", "redraw"}
  MaxPrints = 1
  Asked <- OneOfEach
  Quirks = {"echoes answers", "errors", "logout", "close"}
  MaxCommands = 2
  Texts = {t1, t2}
  CmdQuestions <- Q1
  Callbacks <- Cb12
  MaxRepeated = 1
  CbLimit = 2
  LoginInsteadEOF = TRUE
  HasCmdTimeout = TRUE
SPECIFICATION Spec
INVARIANTS TypeOK ResultExact NoForeignOutput RepeatedAnswersBounded
PROPERTIES CallbackGetsItsText NoAnswerBeforeEcho EchoErrorOrder
  ImplementsSession
