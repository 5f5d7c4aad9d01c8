\* Dropped batches against the recorded runs and gaps, and the spool that drains under
\* the worker's retries.
SPECIFICATION FairSpec
CONSTANTS
  w1 = w1
  Windows <- OneWindow
  NoWindow = NoWindow
  MaxEvents = 2
  Capacity = 1
  Tolerance = 0
  MaxTime = 3
  MaxRun = 3
  MaxSeq = 1
  Occurring = {"content", "input"}
INVARIANT DroppedIsMissing
PROPERTY Drains
CHECK_DEADLOCK FALSE
