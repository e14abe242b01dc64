SPECIFICATION Spec
CONSTANTS
  Declarations <- MCDeclarations
  Kernels <- MCKernels
  Sample <- MCSample
  Lengths <- MCLengths
  Profile <- MCProfile
  StrayTags = {0, 1}
  EnvCapacity = 7
  WordMax = 550
INVARIANTS
  TypeOK
  AcceptedIsAdmitted
  CostIsSchedule
  PremisesInOrder
  MeaningKept
CHECK_DEADLOCK FALSE
