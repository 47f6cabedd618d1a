CONSTANTS
  Node <- MCNode
  Kids <- MCKidsOf
  Kind <- MCKind
  Height <- MCHeight
  Roots <- MCRoots
  Owning <- MCOwning
  MaxAttempts = 2
SPECIFICATION Spec
INVARIANTS
  TypeOK
  NoInvalidDrop
  OneOwner
  NothingLeaks
PROPERTY ImplementsAtomic
CHECK_DEADLOCK FALSE
