SPECIFICATION TimeSpec
CONSTANTS
  None = None
  Miner = {m}
  Handler = {a}
  Calls = {"exact", "increase", "interval", "reset"}
  ExclusiveReset = TRUE
  Start = {0, 2}
  MaxTime = 3
CHECK_DEADLOCK FALSE
PROPERTIES
  ExactUsed
  Increasing
