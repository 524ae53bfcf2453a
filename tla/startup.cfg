SPECIFICATION SpecParts
CONSTANTS
  Replicas = {r1, r2}
  Flags <- SomeFlags
  Service = Service
  Blank = Blank
  Bad = Bad
  NoSecret = NoSecret
  NoFile = NoFile
  NoConfig = NoConfig
  None = None
  MaxExpiries = 1
  MaxCrashes = 1
  Partial = Partial
  Full = Full
  Width4 = 4
  Width6 = 5
  MaxPrefix = 5
  MaxNodeSliceSubnets = 4
  a = a
  b = b
  Pods = {a, b}
  Keys = {0, 1}
  PoolRange <- Range
  NADs <- Divisions
  UserPools <- Pools
  UserSlicePools <- SlicePools
  UserReservations <- Reservations
  MaxEdits = 2
  MaxOutages = 1
  Environments <- SomeEnvironments
  Versions <- TwoVersions
  Empty = Empty
  NoSlash = NoSlash
  BadKey = BadKey
INVARIANTS ReadyMeansRegistered InstalledComplete StoredIsAdmissible
PROPERTIES CertificateKept PartsSettle
CHECK_DEADLOCK FALSE
