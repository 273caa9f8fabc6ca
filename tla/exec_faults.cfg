SPECIFICATION Spec
CONSTANTS
  Conns = {c1, c2, c3}
  None = None
  GenSpan = 3
  OverflowChecks = TRUE
  NHandlers = 2
  NBufs = 1
  BufSize = 2
  HdrSize = 1
  SqEntries = 6
  MaxStream = 1
  RecvErrnos = {4, 9, 113, 104}
  MaxFaults = 2
  EnterFails = TRUE
SYMMETRY ClientSymmetry
INVARIANTS
  NoUnreachable
  NoLostMachine
  BuffersConserved
  SlotsAccountedFor
CHECK_DEADLOCK FALSE
