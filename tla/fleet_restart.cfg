CONSTANTS
  Daemons = {d1}
  MaxInc = 2
  MaxHits = 5
  Adverse = {"crash", "stop", "pause", "error", "fatal", "kill", "resume",
             "close", "foreign", "slow", "stall", "pend"}
CHECK_DEADLOCK FALSE
SPECIFICATION Spec
INVARIANTS RowTruth
