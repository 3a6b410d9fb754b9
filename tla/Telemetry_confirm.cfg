SPECIFICATION FairSpec
CONSTANTS
  BatchSizes = {1}
  PlainSize <- MCPlainSize
  SealedSize <- MCSealedSize
  MaxQueue = 6
  MaxQuarantine = 6
  MaxDepth = 1
  Retention = 1
  PollDelay = 1
  MaxBackoff = 1
  MaxSamples = 1
  DiskEvictions = 0
  CanSeal = TRUE
  CanRestart = FALSE
  MaxReprocess = 1
  ServerLimit = 1
  FullClient = FALSE
PROPERTIES
  ProcessedIsConfirmed
CHECK_DEADLOCK FALSE
