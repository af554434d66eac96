CONSTANTS
  NoTable = NoTable
  Goroutines = {g1, g2}
  Names = {"modbus", "genibus", "dnp"}
  Chunks <- SomeChunks
  MaxFed = 3
  StoresInOrder = TRUE
SPECIFICATION TablesSpec
INVARIANTS TableIsThere ChecksumIsRemainder DigestIsRunning
CHECK_DEADLOCK FALSE
