CONSTANTS
  Exec = "exec"
  Sessions = {"s1", "s2"}
  Conns = {"a", "b", "t", "u"}
  IdOf <- MCIdOf
  NoConn = "none"
  MaxFlips = 2
  Handles = {"j", "k"}
  SubCapacity = 1
  MaxFaults = 1
  NoHandle = "none"
  MaxInstant = 2
  MaxFailures = 2
SPECIFICATION WorkSpec
INVARIANT LiveNotParked
CHECK_DEADLOCK FALSE
