SPECIFICATION Spec
CONSTANTS
  Files = {f1}
  Tickets = {t1}
  Workers = {w1}
  BatchSize = 1
  MaxAttempts = 1
  CrashAllowed = FALSE
INVARIANTS
  LeftoverIsQueued
CHECK_DEADLOCK FALSE
