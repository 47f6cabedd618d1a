CONSTANTS
  Node <- MCNode
  Roots <- MCRoots
  Kids <- MCKids
  Height <- MCHeight
  Own <- MCOwn
  Static <- MCStatic
  Opens <- MCOpens
  Elem <- MCElem
  MaxSays = 3
  WordMax = 3
  MaxRoom = 3
SPECIFICATION Spec
INVARIANT StaysInside
CHECK_DEADLOCK FALSE
