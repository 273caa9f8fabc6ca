SPECIFICATION Spec
CONSTANTS
  Conns = {c1}
  None = None
  GenSpan = 8
  OverflowChecks = TRUE
  NHandlers = 1
  NBufs = 1
  BufSize = 2
  HdrSize = 1
  SqEntries = 2
  MaxStream = 2
  RecvErrnos = {}
  MaxFaults = 0
  EnterFails = FALSE
INVARIANTS
  OffsetInBuffer
CHECK_DEADLOCK FALSE
