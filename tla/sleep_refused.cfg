\* A repair between a sleep and its detection.
SPECIFICATION Spec
CONSTANTS
  w1 = w1
  Windows <- OneWindow
  NoWindow = NoWindow
  MaxEvents = 1
  Capacity = 2
  Tolerance = 0
  MaxTime = 3
  MaxRun = 2
  MaxSeq = 2
  Occurring = {"sleep", "content"}
INVARIANT RefusedOnlyForContent
CHECK_DEADLOCK FALSE
