SPECIFICATION Spec
CONSTANTS
  None = None
  a = a
  b = b
  Proc = {a, b}
  Configs <- MC_Configs
  SetBlocks = {0, 2}
  MaxBlocks = 5
  MaxIds = 2
SYMMETRY MC_Tasks
CHECK_DEADLOCK FALSE
INVARIANTS
  
  
  NewerReverted
  
