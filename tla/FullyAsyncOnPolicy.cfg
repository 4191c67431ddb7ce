CONSTANTS
  MaxQueueSize = 2
  TotalRolloutSteps = 5
  PendingSize = 3
  MaxConcurrentSamples = 2
  MaxRequiredSamples = 2
  PartialRollout = TRUE
  RequiredSamples = 1
  TriggerParameterSyncStep = 2
  TestFreq = 2
SPECIFICATION Spec
INVARIANTS NoGenerationDuringSync
PROPERTIES TrainsEverySample ImplementsPipeline
