CONSTANTS
  Bytes = {0, 1, 9}
  Schemes <- MCSchemes
  StartBufSize = 4
  MaxTokenSize = 8
  MaxInt = 100000
  MaxBytes = 5
SPECIFICATION FairSpec
INVARIANTS PendingIsUnread NeverBuffers TokenIsFrame PanicsNeedFragileRule
PROPERTIES EveryByteReported
CHECK_DEADLOCK FALSE
