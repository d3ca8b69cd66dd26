CONSTANTS
  RowShapes <- MCRows
  MaxQueue = 4
  FragCaps = {0, 1, 2, 3}
  ByteCaps = {0, 2, 3}
  MaxReports = 2
  MaxClock = 2
  Uuids = {"m", "n", "o"}
  MaxLaunches = 3
  MaxTasks = 2
  Workers = {"c1", "c2"}
  NoWorker = "none"
  MaxBreaches = 1
SPECIFICATION ServicesSpec
INVARIANTS
  Partition LatestWins CapsHold
  LogAgrees OperatorStands
  Awaited ReceiptTrue
  DeadNotAtWork
PROPERTIES DropSpares
CHECK_DEADLOCK FALSE
