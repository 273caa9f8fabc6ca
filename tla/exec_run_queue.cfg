SPECIFICATION Spec
CONSTANTS
  Conns = {c1, c2, c3}
  None = None
  GenSpan = 8
  OverflowChecks = TRUE
  NHandlers = 1
  NBufs = 1
  BufSize = 2
  HdrSize = 1
  SqEntries = 2
  MaxStream = 0
  RecvErrnos = {}
  MaxFaults = 0
  EnterFails = FALSE
INVARIANTS
  RunQueueSuffices
CHECK_DEADLOCK FALSE
