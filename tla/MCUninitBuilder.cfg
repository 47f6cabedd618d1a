CONSTANTS
  NumFields = 4
  Parts <- MCParts
  BitSets = {2, 4}
  Reinit = FALSE
SPECIFICATION Spec
INVARIANTS
  TypeOK
  DropsInitialized
  NothingLeaks
  CompleteWhenFinished
CHECK_DEADLOCK FALSE
