CONSTANTS
  Msgs = {m1}
  Kinds = {"expire"}
  Provided = FALSE
  MaxAttempts = 2
  ChanCap = 2
  MaxSegment = 0
  MaxDeliveries = 2
  MaxCrashes = 2
SPECIFICATION Spec
INVARIANT AckedSurvives
CHECK_DEADLOCK FALSE
