SPECIFICATION Spec
CONSTANTS
  Jobs <- FewKVHeads
  RespLength = 2
INVARIANTS
  SameAsOneDevice
CHECK_DEADLOCK FALSE
