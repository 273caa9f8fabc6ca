SPECIFICATION FairSpec
CONSTANTS
  Conns = {c1, c2, c3}
  None = None
  GenSpan = 2
  OverflowChecks = FALSE
  NHandlers = 2
  NBufs = 1
  BufSize = 2
  HdrSize = 1
  SqEntries = 3
  MaxStream = 1
  RecvErrnos = {}
  MaxFaults = 0
  EnterFails = FALSE
PROPERTIES
  ConnectionsEnd
  ImplementsServer
  ServesEveryone
CHECK_DEADLOCK FALSE
