SPECIFICATION MCSpec
CONSTANTS
  Connectors = {c1, c2}
  NoConn = NoConn
  ControlFile = FALSE
  Endpoints = 2
  MaxConns = 3
  Addresses = 2
  Forwarding = TRUE
  MaxCmds = 2
  Files = {f1, f2}
  Dir = dir
  InDir = {d1}
CHECK_DEADLOCK FALSE
INVARIANTS TunnelSafe CmdSafe TransferExact
PROPERTIES ForgottenOnlyInRace TunnelLive CmdEnds
