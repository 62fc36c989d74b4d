SPECIFICATION FairSpec
CONSTANTS
  c1 = c1
  c2 = c2
  acct = acct
  num = num
  tx = tx
  Client = {c1, c2}
  State = {acct}
  Number = {num}
  Item = {tx}
  Block <- MC_Block
  None = None
  Failed = Failed
  MaxMessages = 2
CHECK_DEADLOCK FALSE
INVARIANTS
  Bundled
  SleepsIdle
PROPERTIES
  ReadsFresh
  Served
