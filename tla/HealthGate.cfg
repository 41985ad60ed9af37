SPECIFICATION FairSpec
CONSTANTS
  node1 = node1
  etcd = etcd
  virt = virt
  Nodes <- MCNodes
  Services <- MCServices
  Harvester <- MCHarvester
  Etcd <- MCEtcd
  MaxUid = 1
  MaxRestarts = 1
  CallsMayFail = TRUE
INVARIANT TypeOK
PROPERTIES
  LastingFaultStops
  CheckEnds
  UnhealthyIsReal
