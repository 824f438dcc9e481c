SPECIFICATION Spec
CONSTANTS
  IntBits = 8
  MaxDelays = 12
  MaxTries = 10
INVARIANT ExponentialAsDocumented
CHECK_DEADLOCK FALSE
