SPECIFICATION Spec
CONSTANTS
  Conns = {c1}
  None = None
  GenSpan = 8
  OverflowChecks = TRUE
  NHandlers = 1
  NBufs = 1
  BufSize = 2
  HdrSize = 1
  SqEntries = 2
  MaxStream = 1
  RecvErrnos = {104}
  MaxFaults = 1
  EnterFails = FALSE
INVARIANTS
  BufferIsValid
CHECK_DEADLOCK FALSE
