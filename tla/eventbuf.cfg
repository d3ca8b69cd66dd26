CONSTANTS
  Sources = {"sub"}
  Eligible = {"sub"}
  Ops <- AllOps
  StoreFails = TRUE
  Exits = 1
  Debounce = 2
  MaxWait = 3
  MaxPush = 2
  LastPush = 3
SPECIFICATION FairSpec
INVARIANTS NoLostWakeup OrphanOnce Ceiling
PROPERTIES EventuallyFlushed
CHECK_DEADLOCK FALSE
