CONSTANTS
  MaxQueueSize = 2
  TotalRolloutSteps = 5
  PendingSize = 6
  MaxConcurrentSamples = 2
  MaxRequiredSamples = 2
  PartialRollout = FALSE
  RequiredSamples = 1
  TriggerParameterSyncStep = 1
  TestFreq = 1
SPECIFICATION Spec
INVARIANTS LagBound ProcessorSurvives
