CONSTANTS
  N = 2
  ChunkSize = 5
  MaxTries = 2
  MaxFaults = 2
  MinTokens = 2
  StopWords <- MCStopWords
  Languages <- MCLanguages
  LengthBounds <- MCLengthBounds
  KeyHash <- MCKeyHash
  Inputs <- MCInputs
SPECIFICATION PipelineSpec
INVARIANTS PipelineTypeOK ResultIsReference KeysReducedWhole TotalsAccountedFor
  InputsAreWhole FailedLoadsLeaveNothing OldOrNew
