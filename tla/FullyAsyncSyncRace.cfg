CONSTANTS
  MaxQueueSize = 3
  TotalRolloutSteps = 5
  PendingSize = 6
  MaxConcurrentSamples = 1
  MaxRequiredSamples = 3
  PartialRollout = FALSE
  RequiredSamples = 1
  TriggerParameterSyncStep = 1
  TestFreq = 1
SPECIFICATION PromptSpec
INVARIANTS NoGenerationDuringSync
