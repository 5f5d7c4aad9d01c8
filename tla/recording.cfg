\* The collector's parts and the snapshot schedule, one per behaviour.
SPECIFICATION RecordingSpec
CONSTANTS
  a = a
  b = b
  win = win
  Parts = {"input", "observer", "policy", "schedule", "live", "spool"}
  App = {a, b}
  Win = {win}
  Dialog = {}
  Key = {k}
  Button = {}
  None = None
  Rules <- MCRules
  MinuteLength = 2
  MaxWall = 2
  MaxPress = 2
  MaxChange = 2
  MaxSamples = 1
  MaxBuckets = 1
  MaxKeys = 1
  Tolerance = 1
  Handle = {h1, h2}
  Process <- MCProcess
  PidOf <- MCPidOf
  Parent <- MCParent
  FactsOf <- MCFactsOf
  Look <- MCLook
  Absent = Absent
  MaxEvents = 2
  MaxHappen = 3
  Application = {a}
  Entry = {win}
  AppOf <- MCAppOf
  Pause = {1}
  Retry = 1
  Nil = Nil
  MaxClock = 1
  MaxTurn = 3
  Shown = {"a"}
  Interval = {1, 2}
  NoOne = NoOne
  SleepGap = 0
  MaxTime = 3
  MaxAct = 2
  LastMinuteOfInput = 3
  MaxTyped = 2
  MaxStops = 1
  KeptFor = 2
  Near = 2
  Ranges <- MCRanges
  NoPreview = NoPreview
  Cells = 3
  MaxLength = 2
  MaxRecords = 3
  MaxGen = 6
  FaultSets <- MCFaultSets
INVARIANTS RecordingTypeOK Conserved NeverMisattributed SeesTheDesktop ToldIsFiltered PolicyArrives EverySlotTold NothingPrivate ShownOnce
PROPERTY ImplementsDurableQueue
CHECK_DEADLOCK FALSE
