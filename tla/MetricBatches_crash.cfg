SPECIFICATION Spec
CONSTANTS
  Batches = {b1, b2}
  Digests = {d1, d2}
  Workers = {w1, w2}
  Operators = {o1, o2}
  MaxRetry = 2
  MaxReprocess = 1
  MaxCalls = 7
  CrashAllowed = TRUE
  NoDigest = NoDigest
  Free = Free
  NoBatch = NoBatch
SYMMETRY Symmetry
INVARIANTS
  SamplesMatchBatch
  PayloadHeldWhileInFlight
  SingleClaim
  AttemptBudget
PROPERTIES
  SettledIsFinal
  ImplementsLifecycle
  PurgeSettles
CHECK_DEADLOCK FALSE
