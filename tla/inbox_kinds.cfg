CONSTANTS
  Kind = "fundi"
  Msgs <- AllMsgs
  Legacy <- AllOld
  Threads = {t1, t2}
  MaxRows = 2
  MaxFrames = 3
  WireCap = 2
  Adverse = {}
  MaxHits = 2
SPECIFICATION KindsSpec
SYMMETRY ThreadSymmetry
INVARIANTS TypeOK DeliveryInv FundiAcked KindsRunOnce
PROPERTIES DirectOrder
CHECK_DEADLOCK FALSE
