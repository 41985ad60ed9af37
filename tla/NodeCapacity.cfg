SPECIFICATION FairSpec
CONSTANTS
  Nodes = {n1, n2}
  Leftovers = {n1}
  LastPod = 2
  CallsMayFail = TRUE
INVARIANTS
  InventoryComplete
  OneRowPerNode
  PassIsRead
PROPERTY NodesEnd
