SPECIFICATION Spec
CONSTANTS
  a = a
  b = b
  x = x
  y = y
  N = 4
  K = 2
  End <- Ends4
  SeqOf <- Sequences4
  Rpc <- Chains2
  Sender = {a, b}
  Fee = {1, 2}
  BatchSize = 2
  MaxFaults = 3
INVARIANTS
  SkippedExecuted
  WaitRecorded
PROPERTIES
  Deployed
  Resumes
