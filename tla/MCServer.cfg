SPECIFICATION MCSpec
CONSTANTS
  Conns = {c1, Back}
  Back = Back
  NoConn = NoConn
  Handlers = {1, 2, 3}
  NoHandler = 0
  NoParams = NoParams
  MaxCmds = 2
  Limit = 2
  MaxAdds = 5
  MaxClock = 2
CHECK_DEADLOCK FALSE
INVARIANTS HandedOffStaysOpen NoLeak CloseSweepsAll ShutdownIsGraceful
  HandlersClean TraceHoldsNewest
PROPERTIES StopsEnd ImplementsOwnership OneSource
