CONSTANTS
  Callers = {r1, r2}
  Conns = {c1, c2}
  NoConn = NoConn
  Keys = {"h2"}
  H2Keys = {"h2"}
  IdleTimeout = 2
  MaxIdle = 1
  MaxTime = 4
SPECIFICATION ReaperLiveSpec
INVARIANT PoolSafe
PROPERTIES KeepsLiveEntries ExpiredIsReaped
CHECK_DEADLOCK FALSE
