CONSTANTS
  Count = 1
  Widths <- MCWidths
  Modules <- RingModules
  Capacity = 128
  MaxDepth = 32
  WordMax = 65535
  MaxStack = 100
SPECIFICATION Spec
INVARIANT NeverCrashes
CHECK_DEADLOCK FALSE
