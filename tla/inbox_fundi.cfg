CONSTANTS
  Kind = "fundi"
  Msgs <- MixedMsgs
  Legacy = {}
  Threads = {t1, t2}
  MaxRows = 2
  MaxFrames = 3
  WireCap = 2
  Adverse = {"crash", "fatal", "kill", "resume", "refuse", "close", "budget", "append", "terminate"}
  MaxHits = 2
SPECIFICATION FundiSpec
SYMMETRY ThreadSymmetry
INVARIANTS OneCopy NothingStranded RunOnce
PROPERTIES ImplementsMailbox
CHECK_DEADLOCK FALSE
