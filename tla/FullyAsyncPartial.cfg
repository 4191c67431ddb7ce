CONSTANTS
  MaxQueueSize = 3
  TotalRolloutSteps = 3
  PendingSize = 1
  MaxConcurrentSamples = 2
  MaxRequiredSamples = 3
  PartialRollout = TRUE
  RequiredSamples = 2
  TriggerParameterSyncStep = 1
  TestFreq = 1
SPECIFICATION Spec
INVARIANTS TypeOK OnePlace
PROPERTIES Terminates
