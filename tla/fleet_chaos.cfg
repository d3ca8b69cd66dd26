CONSTANTS
  Daemons = {d1, d2}
  MaxInc = 3
  MaxHits = 2
  Adverse = {"crash", "stop", "pause", "error", "fatal", "kill", "resume",
             "close", "foreign", "stall", "query", "store"}
CHECK_DEADLOCK FALSE
SYMMETRY MCSymmetry
SPECIFICATION Spec
INVARIANTS OneEngine SlotHeld Tracked
PROPERTIES WritesInOrder
