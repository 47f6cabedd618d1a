CONSTANTS
  Base = 256
  SingleByteMax = 250
  Widths <- MCWidths
  Targets <- MCTargets
  MaxCalls = 2
  MaxFaultyCalls = 1
  LenEncodings <- MCLenEncodings
  TagEncodings <- MCTagEncodings
  Limits <- MCLimits
  Schemas <- MCSchemas
  Values <- MCValues
  Integers <- MCIntegers
  Owned <- MCOwned
  Foreign <- MCForeign
  Trailing <- MCTrailing
  Damage <- MCDamage
  MaxDamaged = 3
  Addresses <- MCAddresses
SPECIFICATION Spec
INVARIANT SizeIsExact
INVARIANT RoundTrip
INVARIANT NeverAnotherValue
INVARIANT CutIsAnError
INVARIANT DecodedIsSane
INVARIANT ZeroCopyAgrees
CHECK_DEADLOCK FALSE
