SPECIFICATION Spec
CONSTANTS
  Prompts = {1, 2, 3}
  MaxRows = 4
  RespLength = 2
  PromptLens_ = {1, 2}
  World = 4
  SP = 2
  MaxTokenLen = 4
  MicroBatchSize = 2
  Lengths = {1, 2, 4}
  Sizes = {3, 6}
INVARIANTS
  MultiGroupParity
  RowsReturned
  NoRankRaises
  RanksBalanced
  MicroBatchesBalanced
PROPERTIES
  CallReturns
CHECK_DEADLOCK FALSE
