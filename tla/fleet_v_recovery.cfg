CONSTANTS
  Daemons = {d1}
  MaxInc = 2
  MaxHits = 2
  Adverse = {"crash"}
CHECK_DEADLOCK FALSE
SPECIFICATION Spec
INVARIANTS NoChildLost
