SPECIFICATION Spec
CONSTANTS
  Files = {f1, f2}
  Tickets = {t1}
  Workers = {w1, w2}
  BatchSize = 2
  MaxAttempts = 2
  CrashAllowed = TRUE
SYMMETRY Symmetry
INVARIANTS
  RowHasFile
  RowHasTicket
  LeftoversExplained
  CompletedIsGone
  ClaimIsExclusive
CHECK_DEADLOCK FALSE
