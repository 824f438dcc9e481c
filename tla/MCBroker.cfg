CONSTANTS
  a = a  b = b  d = d  a1 = a1  a2 = a2  b1 = b1  d1 = d1
  c1 = c1  w1 = w1  l1 = l1
  Producer = Producer  NoMsg = NoMsg  NoGroup = NoGroup  NoConn = NoConn
  Groups = {a, d}
  Msgs = {a1, a2, d1}
  Conns = {c1}
  Workers = {w1}
  Lanes = {l1}
  HomeOf <- WithDLQ
  Letter <- Letters
  Wants <- AllGroups
  LaneOf <- OneLane
  LaneCap = 1
  ActiveCap = 1
  Parallelism = 1
  MaxInflight = 1
  GlobalMax = 1
  GlobalMaxMsgs = 0
  MaxMishaps = 1
  Mishaps = {"nack", "leave", "lease", "wal", "buffer"}
SPECIFICATION Spec
INVARIANTS FlagMeansQueued WakeHasTimer  
CHECK_DEADLOCK FALSE
