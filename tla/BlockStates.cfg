SPECIFICATION StatesFairSpec
CONSTANTS
  None = None
  Limits = {1, 3}
  DiskLimits = {0, 3}
  MinHistoryLimit = 2
  IntervalLimit = 4
  Reinsert = FALSE
  MaxInserts = 6
INVARIANTS
  Bounded
  NewestKept
PROPERTIES
  InsertSettles
