SPECIFICATION Spec
CONSTANTS
  Capacity = 4
  VmisMayFail = TRUE
  OthersMayDelete = TRUE
  CallsMayFail = TRUE
  BatchSize = 2
  MaxVMs = 3
INVARIANTS
  MaxWithinLimits
  LoadBounded
  RampIsClean
  LeakIsReported
PROPERTIES
  CountIsExact
  CancelIsNoCapacity
  ImplementsProbe
