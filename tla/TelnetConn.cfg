\* One client sends up to three frames: half a line, a line ended by CR LF, or
\* one that completes a line and holds another; or one of two telnet events.
CONSTANTS
  a = a
  cr = cr
  lf = lf
  gmcpOn = gmcpOn
  otherCmd = otherCmd
  CR = cr
  NL = lf
  DoGmcp = gmcpOn
  Char <- MCChar
  Telnet <- MCTelnet
  DataFrames <- MCDataFrames
  MaxFrames = 3
SPECIFICATION Spec
INVARIANTS TypeOK InOrder ClosedIsFinal ReapedDrained ClosedIsFlushed LinesAreWhole
PROPERTIES StreamSpec HangUpEndsAll
CHECK_DEADLOCK FALSE
