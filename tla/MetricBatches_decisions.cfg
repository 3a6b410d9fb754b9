SPECIFICATION Spec
CONSTANTS
  Batches = {b1}
  Digests = {d1}
  Workers = {w1}
  Operators = {o1, o2}
  MaxRetry = 1
  MaxReprocess = 0
  MaxCalls = 3
  CrashAllowed = FALSE
  NoDigest = NoDigest
  Free = Free
  NoBatch = NoBatch
PROPERTIES
  PurgeIsFinal
CHECK_DEADLOCK FALSE
