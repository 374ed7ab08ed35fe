SPECIFICATION Spec
CONSTANTS
  Sizes <- SizesArg
INVARIANTS
  PaddedAsStandard
CHECK_DEADLOCK FALSE
