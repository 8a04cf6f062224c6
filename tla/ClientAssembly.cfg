SPECIFICATION Spec
CONSTANTS
  Streams <- MCStreams
  BUF_SIZE = 8
INVARIANTS NothingWithheld
PROPERTIES Assembles
CHECK_DEADLOCK FALSE
