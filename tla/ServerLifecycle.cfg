CONSTANTS
  NoConn = NoConn
  Conns = {c1, c2}
  MaxConnections = 1
  MaxPanics = 1
SPECIFICATION FairSpec
INVARIANTS PermitsAccounted LimitHolds WgAccounted NoOrphanSocket StopLeavesNobody
PROPERTIES ImplementsSlots DisconnectReleases StopDrainsRegistered StartReturns
CHECK_DEADLOCK FALSE
