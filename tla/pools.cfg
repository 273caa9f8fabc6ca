SPECIFICATION Spec
CONSTANTS
  GenSpan = 3
  Capacity = 7
  IndexSpan = 4
  ID = 2
  Objects = {o1, o2}
  None = None
INVARIANTS
  TypeOK
  FreeExact
PROPERTIES
  ImplementsRegistry
CHECK_DEADLOCK FALSE
