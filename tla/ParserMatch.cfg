CONSTANTS
  MaxNesting = 3
  MaxExpressions = 5
  MaxFields = 2
  MaxArms = 2
  FieldNames = {"x"}
  CaseNames = {"A", "B"}
  Variants <- OneOrTwoCases
  Families <- NestedMatches
SPECIFICATION Spec
INVARIANT MatchesAreExhaustive
CHECK_DEADLOCK FALSE
