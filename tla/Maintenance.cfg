SPECIFICATION Spec
CONSTANTS
  Samples = {s1, s2}
  Workers = {w1, w2}
  DayLength = 2
  RawDays = 2
  HourlyDays = 3
  DailyDays = 4
  MaxTime = 10
  MaxLosses = 1
  None = None
SYMMETRY Symmetry
INVARIANTS
  TimelySamplesSummarised
PROPERTY
  AggregatesOnlyGrow
CHECK_DEADLOCK FALSE
