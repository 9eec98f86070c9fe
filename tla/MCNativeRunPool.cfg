CONSTANTS
  r1 = r1  r2 = r2  c1 = c1  c2 = c2  a = a  b = b
  Reqs <- MCReqs
  Conns = {c1}
  NoConn = NoConn
  Parts = {a}
  H2Parts = {a}
  Asks <- OneAsk
  IdleTimeout = 1
  MaxIdle = 1
  MaxTime = 2
SPECIFICATION NRSpec
PROPERTY UsesPoolAsAllowed
