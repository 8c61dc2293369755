SPECIFICATION Spec
CONSTANTS
  None = None
  Codecs <- SmallCodecs
  Files <- AllFiles
  V1Start = 2
  HeaderLength = 1
  MaxCompressed = 3
  MaxDecompressed = 3
  DefaultLz4 = 3
  MinLz4 = 2
  Word = 1024
  Thousand = 10
INVARIANT ConvertedMeansPromisedBlocks
CHECK_DEADLOCK FALSE
