SPECIFICATION Spec
CONSTANTS
  MAX_BLOCK_SIZE = 4
  Content = {zero, one}
  Zeroed = zero
  zero = zero
  one = one
INVARIANTS
  TypeOK
  RefusesOnlyAtTheLimits
PROPERTY ImplementsBlockQueue
