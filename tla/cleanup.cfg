SPECIFICATION FairSpec
CONSTANTS
  Pods = {p1}
  EmptyRef = e
  BadRef = bad
  IfNames = {n1}
  Keys = {1, 2}
  Environments <- Cleanups
  MaxUID = 2
  MaxSandbox = 2
  None = None
PROPERTY EntriesReleased
PROPERTY ReservationsReleased
PROPERTY DeletionEnds
PROPERTY StatusConverges
CHECK_DEADLOCK FALSE
