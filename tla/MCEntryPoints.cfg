CONSTANTS
  Schemas <- MCSchemas
  MaxGiven = 9
  MaxLimit = 12
SPECIFICATION Spec
INVARIANT PathsAgree
INVARIANT LegacyDecodes
INVARIANT CutFieldIsDefault
INVARIANT ExactIsWhole
CHECK_DEADLOCK FALSE
