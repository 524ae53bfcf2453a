\* As many foreign reservations as there are attempts.
SPECIFICATION Spec
CHECK_DEADLOCK FALSE
CONSTANTS
  a1 = a1  a2 = a2  a3 = a3
  r1 = r1  r2 = r2  r3 = r3
  u1 = u1  u2 = u2  u3 = u3
  p1 = p1  p2 = p2
  x1 = x1  x2 = x2  x3 = x3
  None = None  NoUID = NoUID
  Attachments = {a1, a2, a3}
  Refs = {r1, r2, r3}
  UIDs = {u1, u2, u3}
  Pools = {p1, p2}
  IPs = {x1, x2, x3}
  Ref <- ThreePods
  PodUID <- OwnUIDs
  Preferred <- NoPreference
  Ranges <- TwoInOne
  Candidates <- Wide
  OverlappingRanges = TRUE
  DatastoreRetries = 3
  RollbackRetries = 2
  MaxFaults = 0
  MaxDels = 1
INVARIANT NoDuplicateIP
