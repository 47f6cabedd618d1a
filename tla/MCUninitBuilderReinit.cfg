CONSTANTS
  NumFields = 4
  Parts <- MCParts
  BitSets = {2, 4}
  Reinit = TRUE
SPECIFICATION Spec
INVARIANT DropsInitialized
CHECK_DEADLOCK FALSE
