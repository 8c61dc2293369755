SPECIFICATION Spec
CONSTANTS
  None = None
  NaN = NaN
  Inf = Inf
  NegInf = NegInf
  MaxInt64 = 3000000
  Threshold = 2
  MaxInt32 = 100
  Files <- SmallFiles
  Aliases <- SmallAliases
  Divisors <- SmallDivisors
  Passthrough <- SmallPassthrough
  Words <- SmallWords
INVARIANTS
  CountersAreRead
  PortsAreRead
  DurationsAreSeconds
  ProtocolsAreRead
  LabelsSurvive
  SoundTablesConvert
  CanonicalIsAFixedPoint
CHECK_DEADLOCK FALSE
