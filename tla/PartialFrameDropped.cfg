CONSTANTS
  Bytes = {0, 1, 9}
  Schemes <- MCUsual
  StartBufSize = 4
  MaxTokenSize = 8
  MaxInt = 100000
  MaxBytes = 6
SPECIFICATION Spec
PROPERTIES WaitConsumesNothing
CHECK_DEADLOCK FALSE
