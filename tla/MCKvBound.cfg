CONSTANTS
  KvKeys = {"k1", "k2", "k3"}
  Group <- MCGroup
  Values = {"v"}
  Writers = {w1}
  Capacity = 2
  PerGroup = 1
  HeldMax = 3
  Origins = {}
  Ips = {}
  PublicSuffixes = {}
  Responses = {}
  Records = {}
  JarTasks = {}
  MaxCookies = 1
  MaxPerDomain = 1
  MaxExpiry = 0
  MaxSeq = 0
  JarMaxTime = 0
  Domains = {}
  Parents <- MCParents
  HstsTasks = {}
  MaxAge = 0
  HstsMaxTime = 0
  AltTasks = {}
  MaxLease = 0
  MaxAges = {}
  AltMaxTime = 0
  RouteReqs = {}
  HeadStart = 0
  RouteBounds = {}
  FailureTtl = 0
  RouteMaxTime = 0
  Unbounded = Unbounded
SPECIFICATION StoresSpec
INVARIANTS PerDomainIsExact
CHECK_DEADLOCK FALSE
