\* The safety copy of an upgrade is torn by a full disk or a stop.
SPECIFICATION DatasetSpec
CONSTANTS
  Directories = {home, other}
  Home = home
  NoFile = NoFile
  Torn = Torn
  MaxStops = 2
  MaxJobs = 2
INVARIANT ReadableIsOpened
CHECK_DEADLOCK FALSE
