SPECIFICATION FairSpec
CONSTANTS
  Actions = {restart}
  Privileged = {}
  Runners = {r1}
  Tokens = {t1}
  FirstToken = t1
  NoAction = NoAction
  Window = 2
  Skew = 1
  Drifts <- Exact
  PollLimit = 1
  MaxTime = 1
  CanFail = FALSE
PROPERTIES
  ExecutionIsRecorded
CHECK_DEADLOCK FALSE
