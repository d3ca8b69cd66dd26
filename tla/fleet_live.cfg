CONSTANTS
  Daemons = {d1, d2}
  MaxInc = 3
  MaxHits = 1
  Adverse = {"crash", "stop", "pause", "error", "fatal", "kill", "store"}
CHECK_DEADLOCK FALSE
SPECIFICATION FairSpec
PROPERTIES InFlight FencedStops RunsAgain
