CONSTANTS
  Count = 3
  Widths <- MCWidths
  Modules <- MCModules
  Capacity = 6
  MaxDepth = 5
  WordMax = 44
  MaxStack = 11
SPECIFICATION FairSpec
INVARIANTS
  TypeOK
  IdentityIsEquality
  ResolutionIsMeaning
  WidthIsExact
  FiniteIsAccepted
  RingsAreFound
PROPERTY CheckEnds
CHECK_DEADLOCK FALSE
