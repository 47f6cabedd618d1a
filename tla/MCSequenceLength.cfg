CONSTANTS
  Base = 4
  SingleByteMax = 0
  Widths <- MCWidths
  WordBytes = {2, 3}
  Lengths <- MCLengths
  Sizes = {0, 1, 3}
  Limits = {4, 15}
  BitsPerByte = 2
SPECIFICATION Spec
INVARIANT SameLength
INVARIANT ReadsBack
INVARIANT AllocationBounded
INVARIANT CapacityIsExact
CHECK_DEADLOCK FALSE
