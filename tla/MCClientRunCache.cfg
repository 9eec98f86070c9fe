CONSTANTS
  Hosts = {"a", "b"}
  Asks <- DigestAsks
  Storable <- Home
  Serves <- MCServes
  Shared <- NoShared
  CacheSize = 1
  Limit = 1
  MaxAttempts = 1
SPECIFICATION ClientSpec
INVARIANTS ServedToItsOwner
CHECK_DEADLOCK FALSE
