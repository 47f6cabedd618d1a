CONSTANTS
  Node <- MCNode
  Roots <- MCRoots
  Kids <- MCKids
  Height <- MCHeight
  Own <- MCOwn
  Static <- MCStatic
  Opens <- MCOpens
  Elem <- MCElem
  MaxSays = 3
  WordMax = 15
  MaxRoom = 8
SPECIFICATION Spec
INVARIANT TypeOK
INVARIANT StaysInside
INVARIANT NoHoles
INVARIANT FinishedLast
PROPERTY ImplementsOutput
CHECK_DEADLOCK FALSE
