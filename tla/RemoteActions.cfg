SPECIFICATION Spec
CONSTANTS
  Actions = {reboot}
  Privileged = {reboot}
  Runners = {r1, r2}
  Tokens = {t1, t2}
  FirstToken = t1
  NoAction = NoAction
  Window = 2
  Skew = 1
  Drifts <- AnyDrift
  PollLimit = 1
  MaxTime = 3
  CanFail = TRUE
SYMMETRY Symmetry
INVARIANTS
  ExecutedAtMostOnce
  ApprovedBeforeExecuted
  ServerFollowsAgent
PROPERTIES
  LocalResultIsFinal
  ServerResultIsFinal
  ImplementsLifecycle
CHECK_DEADLOCK FALSE
