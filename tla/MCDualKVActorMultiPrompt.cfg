SPECIFICATION Spec
CONSTANTS
  NumPrompts = 4
  N = 2
  DP = 2
  PpoMiniBatch = 4
  MicroBatch = 4
  LogProbMicroBatch = 2
  PpoEpochs = 2
  RespLength = 2
  PromptLen <- MCPromptLen
  RespLens <- MCRespLens
INVARIANT
  StandardResults
CHECK_DEADLOCK FALSE
