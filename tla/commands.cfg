SPECIFICATION SpecParts
CONSTANTS
  MaxIP = 15
  FirstV6 = 8
  Absent = Absent
  Zero = Zero
  Bad = Bad
  Failed = Failed
  s1 = s1
  s2 = s2
  Sandboxes = {s1, s2, s3}
  Environments <- Occasions
  p1 = p1
  p2 = p2
  lan = lan
  None = None
  Nil = Nil
  Width4 = 4
  Width6 = 5
  MaxInt32 = 9
  MaxNodeSliceSubnets = 4
  MaxEntries = 3
INVARIANTS CheckExact BoolsOverride AddressesApart
INVARIANTS LookupExact NothingLeft SlicesPartition StatusExact
CHECK_DEADLOCK FALSE
