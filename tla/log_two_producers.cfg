SPECIFICATION Spec
CONSTANTS
  Producers = {p1, p2}
  BufSize = 3
  MAX_LOG_LINE = 1
  MaxMessage = 1
  MaxPushes = 2
  MayPanic = FALSE
INVARIANTS
  NeverSameIndex
