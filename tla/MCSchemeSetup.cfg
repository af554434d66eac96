CONSTANTS
  Fields <- MCFields
  Schemes <- MCSchemes
  MaxDepth = 8
  MaxSetups = 2
SPECIFICATION Spec
INVARIANTS SetupChecksAll StopsForAReason NodesAreExpansion DefaultsReadBack
CHECK_DEADLOCK FALSE
