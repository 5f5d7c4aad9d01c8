\* A wall clock that goes back, within the tolerance and beyond it.
SPECIFICATION Spec
CONSTANTS
  w1 = w1
  Windows <- OneWindow
  NoWindow = NoWindow
  MaxEvents = 2
  Capacity = 1
  Tolerance = 1
  MaxTime = 3
  MaxRun = 2
  MaxSeq = 2
  Occurring = {"clock", "sleep", "update", "input"}
INVARIANT RefusedOnlyForContent
CHECK_DEADLOCK FALSE
