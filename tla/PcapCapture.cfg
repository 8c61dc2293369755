SPECIFICATION Spec
CONSTANTS
  None = None
  MaxBlocks = 5
  Captures <- Files
  Capacity = 3
  Word = 16
  ActiveTimeout = 1000000
  InactiveTimeout = 500000
INVARIANTS
  TypeOK
  ConvertedMeansWholeFile
  PacketsAreDecoded
PROPERTIES
  Terminates
  ImplementsFlowTable
CHECK_DEADLOCK FALSE
