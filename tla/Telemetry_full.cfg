SPECIFICATION Spec
CONSTANTS
  BatchSizes = {1, 2}
  PlainSize <- MCPlainSize
  SealedSize <- MCSealedSize
  MaxQueue = 6
  MaxQuarantine = 6
  MaxDepth = 1
  Retention = 1
  PollDelay = 1
  MaxBackoff = 1
  MaxSamples = 2
  DiskEvictions = 0
  CanSeal = TRUE
  CanRestart = TRUE
  MaxReprocess = 1
  ServerLimit = 1
  FullClient = TRUE
INVARIANTS
  StoredOnce
  AcknowledgedIsSafe
CHECK_DEADLOCK FALSE
