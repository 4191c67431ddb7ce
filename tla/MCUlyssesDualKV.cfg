SPECIFICATION Spec
CONSTANTS
  Jobs <- MCJobs
  RespLength = 2
INVARIANTS
  SameAsOneDevice
  GradientAsOneDevice
PROPERTIES
  Finishes
CHECK_DEADLOCK FALSE
