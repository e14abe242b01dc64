SPECIFICATION ProjectionSpec
CONSTANTS
  Declarations <- ProjectedDeclarations
  Kernels <- ProjectedKernels
  Sample <- ProjectedSample
  Lengths <- ProjectedLengths
  Profile <- MCProfile
  StrayTags = {0, 1}
  TypeOrder <- ProjectedOrder
  Lower <- ProjectedLower
  Capacity <- SmallCapacity
  EnvCapacity = 7
  WordMax = 60000
INVARIANTS
  ProjectionTypeOK
  ArenasHoldTree
  RefusedExactly
  CompilesExactly
  ProjectionDecides
CHECK_DEADLOCK FALSE
