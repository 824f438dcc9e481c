SPECIFICATION MCSpec
CONSTANTS
  RateMax = 2
  RateWindow = 2
  MaxClock = 7
  MaxGrants = 6
INVARIANTS NoGhosts RoundRobin WindowRespected 
CHECK_DEADLOCK FALSE
