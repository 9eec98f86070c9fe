CONSTANTS
  Hosts = {"a", "b"}
  Asks <- MCAsks
  Storable <- MCStorable
  Serves <- MCServes
  Shared <- MCShared
  CacheSize = 1
  Limit = 2
  MaxAttempts = 2
SPECIFICATION ClientLiveSpec
INVARIANTS OperationIsSound CredentialsStayHome CookiesStayHome
PROPERTIES TooEarlyIsNotRepeatedEarly AttemptsAdvance EveryOperationEnds
CHECK_DEADLOCK FALSE
