CONSTANTS
  NoConn = NoConn
  Conns = {c1, c2}
  MaxConnections = 2
  MaxPanics = 0
SPECIFICATION Spec
INVARIANT StopClosesAll
CHECK_DEADLOCK FALSE
