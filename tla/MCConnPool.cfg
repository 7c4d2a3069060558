\* Two deliveries, two keys, slots and connections that age.
CONSTANTS
  u1 = u1  u2 = u2  k1 = k1  k2 = k2  x1 = x1  x2 = x2  h1 = h1  h2 = h2
  None = None
  User <- MCUser2
  Key <- MCKey2
  Conn <- MCConn2
  Chan <- MCChan2
  MaxKeys = 1
  MaxConnsPerKey = 1
  MaxConnLifetime = 0
  StaleKeyLifetime = 1
  MaxTime = 2
SPECIFICATION FairSpec
INVARIANTS ConnectionsKept
PROPERTIES CloseReturns
CHECK_DEADLOCK FALSE
