\* The core's and the window's views of the data, one per behaviour.
SPECIFICATION ViewsSpec
CONSTANTS
  Parts = {"cache", "dataset", "rows", "shown", "days", "panel", "application"}
  Labelled = Labelled
  Unlabelled = Unlabelled
  NoApplication = NoApplication
  CacheSize = 3
  Starts = {2, 5}
  MinuteLength = 2
  LastTick = 6
  MaxSpans = 2
  MaxCacheSteps = 4
  Directories = {home, other, third}
  Home = home
  NoFile = NoFile
  Torn = Torn
  MaxStops = 2
  MaxJobs = 3
  Apps = {1, 2}
  Nobody = Nobody
  Lost = Lost
  Brief = 2
  Join = 3
  MinMissing = 2
  DayLength = 6
  MaxGaps = 1
  MaxLate = 1
  Noon = 2
  LongBreak = 2
  Recent = 2
  LockedTicks = {2}
  AsleepTicks = {3, 4}
  MaxChoices = 3
  MaxTogether = 5
  NoRequest = NoRequest
  Nowhere = Nowhere
  DaysPerLoad = 1
  SearchDays = 2
  Around = 1
  MaxOldest = 3
  MaxRestarts = 2
  MaxScrolls = 1
  MaxSlots = 2
  MaxPictures = 2
  MaxClears = 1
  NoSlot = NoSlot
  Omitted = Omitted
  NoDecode = NoDecode
  MaxTime = 4
  MaxUses = 2
  MaxCuts = 2
  DeletedStretches <- MCStretches
  Open = Open
INVARIANTS ViewsTypeOK CacheIsExact DatasetWhole  HistoryIsShown HistoryIsTrue PreviewIsChosen OnlyTheStretchIsGone
CHECK_DEADLOCK FALSE
