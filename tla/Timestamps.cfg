SPECIFICATION Spec
CONSTANTS
  None = None
  NaN = NaN
  Inf = Inf
  NegInf = NegInf
  MaxInt64 = 2000000
  Columns <- SmallColumns
  Threshold = 2
INVARIANTS
  OneOrderForAll
  SoundDatesConvert
  EpochsAreRight
CHECK_DEADLOCK FALSE
