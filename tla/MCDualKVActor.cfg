SPECIFICATION Spec
CONSTANTS
  NumPrompts = 4
  N = 2
  DP = 2
  PpoMiniBatch = 3
  MicroBatch = 1
  LogProbMicroBatch = 2
  PpoEpochs = 2
  RespLength = 2
  PromptLen <- MCPromptLen
  RespLens <- MCRespLens
INVARIANTS
  TypeOK
  SamePromptMicroBatches
  StandardResults
  GradientIsMiniBatch
  EveryRowEveryEpoch
  ReplicasAgree
PROPERTIES
  StepEnds
CHECK_DEADLOCK FALSE
