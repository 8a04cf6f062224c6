SPECIFICATION Spec
CONSTANTS
  MAX_USER = 1
  Account = {a}
  Nobody = nobody
  Workers = 1
  Requests = {"LOGIN", "LOGOUT", "CCU_TEST", "MOVE", "ATTACK"}
  MaxBatch = 2
  MaxPending = 2
INVARIANTS TypeOK Registered SaveOwed
PROPERTIES LoginAnswered SlotFreed
CHECK_DEADLOCK FALSE
