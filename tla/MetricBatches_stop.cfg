SPECIFICATION Spec
CONSTANTS
  Batches = {b1}
  Digests = {d1}
  Workers = {w1}
  Operators = {o1}
  MaxRetry = 1
  MaxReprocess = 0
  MaxCalls = 2
  CrashAllowed = TRUE
  NoDigest = NoDigest
  Free = Free
  NoBatch = NoBatch
INVARIANTS
  ClaimedHasWorker
CHECK_DEADLOCK FALSE
