SPECIFICATION Spec
CONSTANTS
  None = None
  Bad = Bad
  Texts <- SmallTexts
  Threshold = 4000
  MaxInt32 = 100
INVARIANTS
  ConvertedMeansEverything
  IntactTextsConvert
  TimesAreRight
  SummaryAddsUp
CHECK_DEADLOCK FALSE
