SPECIFICATION MCSpec
CONSTANTS
  Handlers = {"h"}
  Dispatchers = {"d"}
  Sweeper = "sweeper"
  Queues = {"q"}
  LaneCap = 1
  ChanCap = 2
  SlowRequests = TRUE
INVARIANTS LimitsKept InOrder 
PROPERTIES NothingWithheld StopReturns
CHECK_DEADLOCK FALSE
