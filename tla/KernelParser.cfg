CONSTANTS
  MaxNesting = 3
  MaxExpressions = 5
  MaxFields = 2
  MaxArms = 2
  FieldNames = {"x", "y"}
  CaseNames = {"A", "B"}
  Variants <- TwoCases
  Families <- AllFamilies
SPECIFICATION FairSpec
INVARIANTS
  TypeOK
  ChildrenPrecede
  BodyIsTree
  NestingBalanced
  OverrunIsNested
PROPERTY ParseEnds
CHECK_DEADLOCK FALSE
