SPECIFICATION FairSpec
CONSTANTS
  LastJob = 1
  CallsMayFail = TRUE
  PodsMayFail = TRUE
INVARIANTS
  PassIsComplete
  MonitorsARun
PROPERTY KBenchEnds
