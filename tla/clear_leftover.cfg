\* A request that the server holds while the clear holds the storage.
SPECIFICATION Spec
CONSTANTS
  MaxClears = 1
  MaxRun = 1
  MaxSeq = 1
  Deaths = {}
INVARIANT ClearedStaysCleared
CHECK_DEADLOCK FALSE
