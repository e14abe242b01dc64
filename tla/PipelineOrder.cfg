SPECIFICATION Spec
CONSTANTS
  Declarations <- SwappedDeclarations
  Kernels <- SwappedKernels
  Sample <- MCSample
  Lengths <- MCLengths
  Profile <- MCProfile
  StrayTags = {0, 1}
  EnvCapacity = 7
  WordMax = 550
INVARIANT CostIsSchedule
CHECK_DEADLOCK FALSE
