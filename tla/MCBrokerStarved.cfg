CONSTANTS
  a = a  b = b  d = d  a1 = a1  a2 = a2  b1 = b1  d1 = d1
  c1 = c1  w1 = w1  l1 = l1
  Producer = Producer  NoMsg = NoMsg  NoGroup = NoGroup  NoConn = NoConn
  Groups = {a, b}
  Msgs = {a1, b1}
  Conns = {c1}
  Workers = {w1}
  Lanes = {l1}
  HomeOf <- TwoGroups
  Letter <- NoLetters
  Wants <- AllGroups
  LaneOf <- OneLane
  LaneCap = 2
  ActiveCap = 2
  Parallelism = 1
  MaxInflight = 2
  GlobalMax = 1
  GlobalMaxMsgs = 0
  MaxMishaps = 0
  Mishaps = {"nack", "lease", "wal"}
SPECIFICATION FairSpec
PROPERTY EveryMessageServed
CHECK_DEADLOCK FALSE
