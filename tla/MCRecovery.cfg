SPECIFICATION MCSpec
CONSTANTS
  Absent = Absent
  MaxLives = 4
  MaxTime = 3
  AccessTTL = 1
  RefreshTTL = 2
  Secret = FALSE
  Mishaps = {"save"}
INVARIANTS OneCopy AccessSurvives
PROPERTIES  ConsumedStaysConsumed
CHECK_DEADLOCK FALSE
