CONSTANTS
  Protocols <- MCProtocols
  Nodes <- MCNodes
  CrcNames <- Names
  KnownCrcs <- Keyed
  Checksum <- Checksum16
SPECIFICATION Spec
INVARIANTS PatchesStayInPlace FieldsComputed RoundTrip BitFieldsDecode
CHECK_DEADLOCK FALSE
