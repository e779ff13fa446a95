SPECIFICATION Spec
CONSTANTS
  Capacity = 5
  NoByte = 0
  Bytes = {0, 1}
  Sizes = {1, 2, 4}
INVARIANT TypeOK
PROPERTY ImplementsLinearQueue
CHECK_DEADLOCK FALSE
