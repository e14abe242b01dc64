CONSTANTS
  Count = 3
  Builtin = {2}
  Modules <- MCModules
SPECIFICATION FairSpec
INVARIANTS
  TypeOK
  TableIsCanonical
  PlainOrderIsAdmitted
  OrderIsTopological
  PlainIsNeverRecursive
PROPERTY LayoutEnds
CHECK_DEADLOCK FALSE
