SPECIFICATION FairSpec
CONSTANTS
  Capacity = 3
  VmisMayFail = TRUE
  OthersMayDelete = FALSE
  CallsMayFail = FALSE
  BatchSize = 2
  MaxVMs = 0
PROPERTIES
  Termination
  StuckFinalizersGo
