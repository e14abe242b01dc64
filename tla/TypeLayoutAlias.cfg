CONSTANTS
  Count = 3
  Builtin = {}
  Modules <- MixedModules
SPECIFICATION Spec
INVARIANT OrderIsAdmitted
CHECK_DEADLOCK FALSE
