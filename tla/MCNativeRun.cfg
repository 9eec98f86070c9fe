CONSTANTS
  r1 = r1  r2 = r2  c1 = c1  c2 = c2  a = a  b = b
  Reqs <- MCReqs
  Conns <- MCConns
  NoConn = NoConn
  Parts = {a, b}
  H2Parts = {a}
  Asks <- MCAsks
  IdleTimeout = 1
  MaxIdle = 1
  MaxTime = 1
SYMMETRY Interchangeable
SPECIFICATION NRSpec
INVARIANTS NRSafe AtMostOnce ExclusiveClosesOnce
PROPERTY UnsentIsRetried
