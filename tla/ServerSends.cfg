CONSTANTS
  NoOne = NoOne
  Cleaner = Cleaner
  Conns = {c1}
  Callers = {w1}
  QueueSize = 2
  Delays = {TRUE, FALSE}
  MaxTroubles = 1
  MaxStops = 1
SPECIFICATION FairSpec
PROPERTIES SendReturns DeadLoopIsUnregistered CleanerEndsAfterStop
CHECK_DEADLOCK FALSE
