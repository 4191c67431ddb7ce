SPECIFICATION Spec
CONSTANTS
  Jobs <- FusedJobs
  RespLength = 2
INVARIANTS
  SameAsOneDevice
CHECK_DEADLOCK FALSE
