SPECIFICATION NodeFairSpec
CONSTANTS
  t0 = t0
  t1 = t1
  t2 = t2
  s = s
  c1 = c1
  c2 = c2
  None = None
  Hash = {t0, t1, t2}
  Sender = {s}
  Client = {c1, c2}
  Configs <- MC_all
  MaxNonce = 2
  sender <- MC_sender
  nonce <- MC_nonce
  gas_price <- MC_gas_price
  gas <- MC_gas
  max_transactions = 2
  ListenerCap = 1
  MaxId = 3
  MaxMarkers = 0
  MaxQueued = 1
INVARIANTS
  
  IndependentIncludable
PROPERTIES
  RequestsComplete
  ReadyLeaves
CHECK_DEADLOCK FALSE
