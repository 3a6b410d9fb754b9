SPECIFICATION FairSpec
CONSTANTS
  Batches = {b1, b2}
  Digests = {d1}
  Workers = {w1, w2}
  Operators = {o1}
  MaxRetry = 2
  MaxReprocess = 1
  MaxCalls = 4
  CrashAllowed = FALSE
  NoDigest = NoDigest
  Free = Free
  NoBatch = NoBatch
PROPERTIES
  EventuallyLeavesTheQueue
CHECK_DEADLOCK FALSE
