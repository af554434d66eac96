CONSTANTS
  NoOne = NoOne
  Writers = {w1, w2}
  Delays = {0, 3}
  QueueSize = 3
  MaxMessages = 6
SPECIFICATION FairSpec
INVARIANTS InOrder AllAccounted
PROPERTIES DropsUnderPressure SendsAreSpaced EachIsHandled
CHECK_DEADLOCK FALSE
