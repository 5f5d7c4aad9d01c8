\* One snapshot of the older version, an interrupted migration and a file that rots.
SPECIFICATION Spec
CONSTANTS
  Pics = {p}
  Days = {1}
  MaxSlots = 1
  Old = 1
  Files = {1, 2}
  MaxErrors = 1
  FaultSets = {{"crash", "decay"}}
PROPERTY OriginalsRetained
CHECK_DEADLOCK FALSE
