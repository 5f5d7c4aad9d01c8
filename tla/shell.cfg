\* What goes on around the data, one part per behaviour.
SPECIFICATION ShellSpec
CONSTANTS
  Parts = {"clear", "life", "rules", "statistics", "schema"}
  MaxClears = 1
  MaxRun = 2
  MaxSeq = 2
  Deaths = {"core"}
  MaxDeaths = 2
  Applications = {1, 2, 3}
  Relabelled = {{2, 3}}
  Nothing = Nothing
  MaxTurns = 3
  Ranges = {1, 2}
  None = None
  Failed = Failed
  MaxChanges = 1
  MaxMoves = 2
  Programs = {"a", "b"}
  MaxWrites = 2
  NoBackup = NoBackup
INVARIANTS ShellTypeOK  MergedAgree StatisticsAreCurrent NothingRefused
PROPERTIES PauseEnds CollectorComesBack QuitSettles KeepsAllItCan
CHECK_DEADLOCK FALSE
