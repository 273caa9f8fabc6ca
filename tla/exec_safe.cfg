SPECIFICATION Spec
CONSTANTS
  Conns = {c1, c2, c3, c4}
  None = None
  GenSpan = 8
  OverflowChecks = TRUE
  NHandlers = 2
  NBufs = 1
  BufSize = 4
  HdrSize = 2
  SqEntries = 3
  MaxStream = 3
  RecvErrnos = {113}
  MaxFaults = 1
  EnterFails = FALSE
SYMMETRY ClientSymmetry
INVARIANTS
  TypeOK
  NoPanic
  OneContinuation
  ListenerArmed
  CompletionQueueSuffices
  ReceivedIsStream
  RequestsReachOwnPeer
  BuffersConserved
CHECK_DEADLOCK FALSE
