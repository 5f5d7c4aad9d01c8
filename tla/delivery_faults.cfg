\* Lost answers, restarts, overflows, refused and unreadable batches.
SPECIFICATION Spec
CONSTANTS
  w1 = w1
  Windows <- OneWindow
  NoWindow = NoWindow
  MaxEvents = 2
  Capacity = 2
  Tolerance = 0
  MaxTime = 1
  MaxRun = 3
  MaxSeq = 1
  Occurring = {"content", "decay", "stop"}
INVARIANTS StoredInOrder Chained NeverRefusedForPlace Accounted CaughtUp
PROPERTY ImplementsEventLog
CHECK_DEADLOCK FALSE
