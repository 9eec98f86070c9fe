CONSTANTS
  KvKeys = {"k1", "k2", "k3"}
  Group <- MCGroup
  Values = {"v"}
  Writers = {x1, x2}
  Capacity = 2
  PerGroup = 1
  HeldMax = 3
  Origins <- MCOrigins
  Ips <- MCIps
  PublicSuffixes <- MCPublicSuffixes
  Responses <- MCResponses
  Records <- MCRecords
  JarTasks = {x1, x2}
  MaxCookies = 2
  MaxPerDomain = 1
  MaxExpiry = 2
  MaxSeq = 3
  JarMaxTime = 1
  Domains = {"top", "sub"}
  Parents <- MCParents
  HstsTasks = {x1, x2}
  MaxAge = 1
  HstsMaxTime = 1
  AltTasks = {x1, x2}
  MaxLease = 2
  MaxAges = {0, 1, 3}
  AltMaxTime = 2
  RouteReqs = {x1, x2}
  HeadStart = 1
  RouteBounds = {2}
  FailureTtl = 1
  RouteMaxTime = 2
  Unbounded = Unbounded
SPECIFICATION StoresSpec
SYMMETRY StoresSymmetry
INVARIANTS StoresAreSound LastWordIsKept RouteHolds JarHolds
PROPERTIES KnownUntilExpired QuicAloneDoesNotFail
CHECK_DEADLOCK FALSE
