SPECIFICATION FairSpec
CONSTANTS
  LastJob = 1
  CallsMayFail = TRUE
  PodsMayFail = TRUE
  EtcdPods = {etcd1, etcd2}
  RangeDuration = 2
  WaitTimeout = 4
INVARIANTS
  TypeOK
  PassIsEarned
  LoadsAsTold
PROPERTIES
  BenchEnds
  QueriesSeeThisRun
