SPECIFICATION Spec
CONSTANTS
  None = None
  NaN = NaN
  Inf = Inf
  NegInf = NegInf
  MaxInt64 = 3000000
  Threshold = 2
  MaxInt32 = 100
  Files <- NotANumberFiles
  Aliases <- SmallAliases
  Divisors <- SmallDivisors
  Passthrough <- SmallPassthrough
  Words <- SmallWords
INVARIANT CountersAreNotInvented
CHECK_DEADLOCK FALSE
