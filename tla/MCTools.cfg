SPECIFICATION MCSpec
CONSTANTS
  Endpoints = 2
  RedirectLimit = 1
  MaxConns = 3
  MaxSpeed = 3
  Wanted = 2
  Groups = 2
  Payloads <- SomePayloads
  MaxRequests = 2
  EomWindow = 2
  HeaderWindow = 4
  MaxBuffer = 3
  MaxTlsConns = 3
  MaxTlsMessages = 2
  ChunkSize = 2
  MaxRounds = 2
  MaxPhrases = 4
CHECK_DEADLOCK FALSE
INVARIANTS ConsoleWorks NetconfWorks TlsAgree TlsEnds ConnSafe
  CheckerRight
PROPERTY ScreenExact
