SPECIFICATION AgentSpec
CONSTANTS
  BatchSizes = {2, 3}
  PlainSize <- MCPlainSize
  SealedSize <- MCSealedSize
  MaxQueue = 8
  MaxQuarantine = 6
  MaxDepth = 1
  Retention = 1
  PollDelay = 1
  MaxBackoff = 2
  MaxSamples = 5
  DiskEvictions = 1
  CanSeal = TRUE
  CanRestart = TRUE
INVARIANTS
  AgentTypeOK
  SamplesConserved
  WithinQuotas
  CriticalNeverEvicted
CHECK_DEADLOCK FALSE
