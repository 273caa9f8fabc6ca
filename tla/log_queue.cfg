SPECIFICATION FairSpec
CONSTANTS
  Producers = {p1}
  BufSize = 3
  MAX_LOG_LINE = 2
  MaxMessage = 2
  MaxPushes = 4
  MayPanic = TRUE
INVARIANTS
  TypeOK
  MutualExclusion
  StreamIntact
  NothingLostOnPanic
  OnlyLoggedBytes
PROPERTIES
  ImplementsLogQueue
  PushReturns
