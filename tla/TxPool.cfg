SPECIFICATION Spec
CONSTANTS
  t0 = t0
  t1 = t1
  u1 = u1
  t2 = t2
  s = s
  None = None
  Hash = {t0, t1, u1, t2}
  Sender = {s}
  MaxNonce = 2
  sender <- MC_sender
  nonce <- MC_nonce
  gas_price <- MC_gas_price
  MaxId = 5
  MaxMarkers = 2
INVARIANTS
  PoolConsistent
  IteratorYieldsAll
PROPERTIES
  LeavesForReason
