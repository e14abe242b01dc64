SPECIFICATION ProjectionSpec
CONSTANTS
  Declarations <- ProjectedDeclarations
  Kernels <- ProjectedKernels
  Sample <- ProjectedSample
  Lengths <- ProjectedLengths
  Profile <- MCProfile
  StrayTags = {0, 1}
  TypeOrder <- ProjectedOrder
  Lower <- ProjectedLower
  Capacity <- SmallCapacity
  EnvCapacity = 7
  WordMax = 60000
INVARIANT GroupsAsTree
CHECK_DEADLOCK FALSE
