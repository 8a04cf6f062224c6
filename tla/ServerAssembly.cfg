SPECIFICATION Spec
CONSTANTS
  Streams <- MCStreams
  HALF = 8
  MAX_BUFFER = 8
  Struct <- MCStruct
INVARIANTS TakenApart NoMixture ServesWhileWhole
CHECK_DEADLOCK FALSE
