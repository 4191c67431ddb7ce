SPECIFICATION TrainingSpec
CONSTANTS
  Ranks = {r1, r2}
  MaxStep = 6
  Configs <- MCConfigs
  Batches = 2
  TotalEpochs = 2
  MaxCrashes = 2
  PromptLength = 2
  ResponseLength = 3
  Servers = 2
  CacheSize = 2
  ObservationLengths = {1}
  Gamma = 2
  Lambda = 3
INVARIANTS
  ResumeSafe
  BatchesInOrder
  OffPolicyLag
  ValidatedWeights
  EndsAtLastStep
  KeepBound
  RowsExact
  NoEmptyRequest
  StickySession
  AdvantagesOfGenerated
PROPERTIES
  Ends
