SPECIFICATION Spec
CONSTANTS
  Capacity = 1
  VmisMayFail = TRUE
  OthersMayDelete = FALSE
  CallsMayFail = TRUE
  BatchSize = 1
  MaxVMs = 1
PROPERTY FailedVMIIsNoTimeout
