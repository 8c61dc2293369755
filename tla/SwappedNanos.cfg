SPECIFICATION Spec
CONSTANTS
  None = None
  MaxBlocks = 4
  Captures <- SwappedFiles
  Capacity = 3
  Word = 16
  ActiveTimeout = 1000000
  InactiveTimeout = 500000
INVARIANT TimestampsAreMicroseconds
CHECK_DEADLOCK FALSE
