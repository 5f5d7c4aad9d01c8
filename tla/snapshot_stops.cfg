\* Crashes with readers in the way, I/O errors, and decay.
SPECIFICATION Spec
CONSTANTS
  Pics = {p, q}
  Days = {1, 2}
  MaxSlots = 3
  Old = 2
  Files = {1, 2, 3}
  MaxErrors = 2
  FaultSets = {{"crash", "busy"}, {"io"}, {"decay"}}
INVARIANTS EveryPictureThere DeletedIsGone SettledIsClean
PROPERTY NoneSpoiled
CHECK_DEADLOCK FALSE
