CONSTANTS
  Byte = {0, 1}
  Zero = 0
  Garbage = Garbage
  MaxCap = 4
  MaxUsize = 5
  MaxChunk = 2
SPECIFICATION Spec
INVARIANTS
  TypeOK
  InitializedBelowLen
  WindowIsSafe
PROPERTIES
  DisturbsOnlyItsRange
  ImplementsSparseFile
CHECK_DEADLOCK FALSE
