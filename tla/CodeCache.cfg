SPECIFICATION CodeSpec
CONSTANTS
  a1 = a1
  a2 = a2
  k = k
  t1 = t1
  t2 = t2
  None = None
  Empty = Empty
  Task = {t1, t2}
  Account = {a1, a2}
  MaxBlock = 2
  Code = {k}
  deployed <- MC_deployed
  code_of <- MC_code_of
INVARIANTS
  CacheSound
PROPERTIES
  ReadsCode
