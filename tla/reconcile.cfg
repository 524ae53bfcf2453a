SPECIFICATION Spec
CONSTANTS
  Pods = {p1, p2}
  EmptyRef = e
  BadRef = bad
  IfNames = {n1}
  Keys = {1}
  Environments <- Races
  MaxUID = 2
  MaxSandbox = 2
  None = None
SYMMETRY PodNames
PROPERTY DeletesWhatItJudged
PROPERTY PublishedStatus
PROPERTY LiveReservationKept
CHECK_DEADLOCK FALSE
