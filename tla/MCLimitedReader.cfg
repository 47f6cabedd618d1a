CONSTANTS
  SrcLen = 5
  Limit = 7
  MaxUsize = 8
  MaxCall = 3
  MaxStart = 6
SPECIFICATION Spec
INVARIANTS
  TypeOK
  WindowInside
PROPERTIES
  DeliversInOrder
  ImplementsBoundedSource
