CONSTANTS
  N = 2
  ChunkSize = 5
  MaxTries = 2
  MaxFaults = 0
  MinTokens = 2
  StopWords <- MCStopWords
  Languages <- MCLanguages
  LengthBounds <- MCLengthBounds
  KeyHash <- MCKeyHash
  Inputs <- MCThreeChunks
SPECIFICATION PipelineSpec
INVARIANT WholeInputCounted
