SPECIFICATION Spec
CONSTANTS
  Conns = {c1, c2}
  None = None
  GenSpan = 8
  OverflowChecks = TRUE
  NHandlers = 1
  NBufs = 1
  BufSize = 2
  HdrSize = 1
  SqEntries = 3
  MaxStream = 1
  RecvErrnos = {4}
  MaxFaults = 2
  EnterFails = FALSE
INVARIANTS
  ClosesOwnClient
CHECK_DEADLOCK FALSE
