CONSTANTS
  Lock = {"m", "r"}
  Shared = {"r"}
  Fields <- MCFields
  Serializer = {s1}
  Mutator = {t}
  MaxCount = 1
  MaxChanges = 2
SPECIFICATION Spec
INVARIANT SizeIsExact
CHECK_DEADLOCK FALSE
