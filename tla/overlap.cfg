\* Overlapping pools of three pods, no failures, attempts enough for the contention.
SPECIFICATION Spec
CHECK_DEADLOCK FALSE
CONSTANTS
  a1 = a1  a2 = a2  a3 = a3
  r1 = r1  r2 = r2  r3 = r3
  u1 = u1  u2 = u2  u3 = u3
  p1 = p1  p2 = p2
  x1 = x1  x2 = x2  x3 = x3
  None = None  NoUID = NoUID
  Attachments = {a1, a2, a3}
  Refs = {r1, r2, r3}
  UIDs = {u1, u2, u3}
  Pools = {p1, p2}
  IPs = {x1, x2}
  Ref <- ThreePods
  PodUID <- OneNoUID
  Preferred <- PrefersX2
  Ranges <- Mixed
  Candidates <- Overlap
  OverlappingRanges = TRUE
  DatastoreRetries = 12
  RollbackRetries = 8
  MaxFaults = 0
  MaxDels = 1
INVARIANTS UpIsBacked FailedLeavesNothing NoDuplicateIP UpIsReserved GoneIsUnreserved
