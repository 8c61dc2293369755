SPECIFICATION Spec
CONSTANTS
  None = None
  Paths = {p1, p2}
  Sources <- SmallSources
  Seconds = {0, 1, 2}
  Word = 16
  Million = 3
  MaxRuns = 3
INVARIANTS
  ReadableMeansWhole
  SuccessMeansWhole
  LossIsCovered
CHECK_DEADLOCK FALSE
