SPECIFICATION Spec
CONSTANTS
  MAX_USER = 1
  Account = {a, b}
  Nobody = nobody
  Workers = 1
  Requests = {"LOGIN"}
  MaxBatch = 1
  MaxPending = 1
INVARIANTS OwnRow
CHECK_DEADLOCK FALSE
