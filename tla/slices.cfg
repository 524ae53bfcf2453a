SPECIFICATION FairSpec
CONSTANTS
  Nodes = {1, 2, 3}
  d1 = d1
  NADs = {d1, d2}
  Confs <- AllConfs
  Subnets <- Subnets2
  Unnamed = Unnamed
  Pods = {1, 2}
  Free = Free
  None = None
  Environments <- Situations
  net = net
  r1 = r1
  r2 = r2
  r3 = r3
INVARIANT UniqueAddress
INVARIANT OneSlicePerNode
PROPERTY PublishedSlicesMatchSpec
PROPERTY SlicesSettle
CHECK_DEADLOCK FALSE
