SPECIFICATION Spec
CONSTANTS
  w1 = w1
  w2 = w2
  Players = 2
  Worker = {w1, w2}
  MaxRaces = 2
INVARIANTS ChainsCounted SleptThrough
PROPERTIES KeepsStrolling
CHECK_DEADLOCK FALSE
