SPECIFICATION Spec
CONSTANTS
  None = None
  b1 = b1
  b2 = b2
  Backends = {b1, b2}
  Url = {"u"}
  MaxHead = 2
  MaxOps = 2
  MaxFaults = 1
SYMMETRY Perms
INVARIANTS
  Shared
  Flushed
