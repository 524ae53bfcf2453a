SPECIFICATION FairSpec
CONSTANTS
  c1 = c1
  c2 = c2
  Calls = {c1, c2, c3}
  Pod <- SharedPod
  LeaseTicks = 2
  RenewTicks = 2
  MaxFaults = 1
  None = None
INVARIANT Serialised
INVARIANT NoAbandonedLease
PROPERTY CallsReturn
CHECK_DEADLOCK FALSE
