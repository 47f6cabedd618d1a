CONSTANTS
  Lock = {"m", "r"}
  Shared = {"r"}
  Fields <- MCFields
  Serializer = {s1, s2}
  Mutator = {t}
  MaxCount = 1
  MaxChanges = 2
SPECIFICATION Spec
INVARIANTS
  NeverTorn
  ExposesOnlyWritten
PROPERTY Terminates
CHECK_DEADLOCK FALSE
