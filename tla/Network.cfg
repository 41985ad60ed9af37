SPECIFICATION FairSpec
CONSTANTS
  LastJob = 4
  LastCase = 2
  CallsMayFail = TRUE
  PodsMayFail = FALSE
INVARIANTS
  TypeOK
  BetweenTwoPods
  EvidenceKept
  PassIsMeasured
PROPERTY NetworkEnds
