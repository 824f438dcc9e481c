SPECIFICATION MCSpec
CONSTANTS
  SyncEvents = {"p1", "p2"}
  AsyncEvents = {"a1"}
  Conns = {"c1", "c2"}
  Conn <- TwoConns
  ChanCap = 2
  FlushMax = 2
  Durable = TRUE
  MaxFailures = 1
INVARIANTS AckedIsOnDisk LogFollowsOrder StopLosesNothing Timely
PROPERTIES EveryCallReturns EveryTimerFires
CHECK_DEADLOCK FALSE
