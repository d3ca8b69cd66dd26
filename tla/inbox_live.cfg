CONSTANTS
  Kind = "fundi"
  Msgs <- DirectMsgs
  Legacy = {}
  Threads = {t1, t2}
  MaxRows = 2
  MaxFrames = 3
  WireCap = 1
  Adverse = {"crash", "budget"}
  MaxHits = 2
SPECIFICATION FairFundiSpec
PROPERTIES EventuallyRun
CHECK_DEADLOCK FALSE
