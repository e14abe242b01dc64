SPECIFICATION Spec
CONSTANTS
  Sources <- MCSources
  MaxNumber = 25
INVARIANTS
  TypeOK
  LineAndColumn
PROPERTIES
  ImplementsGrammar
  CallReturns
