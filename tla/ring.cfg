SPECIFICATION Spec
CONSTANTS
  Size = 4
  Values = {a, b, c}
  Uninit = Uninit
INVARIANTS
  TypeOK
  WindowExact
PROPERTIES
  ImplementsFifo
