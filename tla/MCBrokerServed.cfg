CONSTANTS
  a = a  b = b  d = d  a1 = a1  a2 = a2  b1 = b1  d1 = d1
  c1 = c1  w1 = w1  l1 = l1
  Producer = Producer  NoMsg = NoMsg  NoGroup = NoGroup  NoConn = NoConn
  Groups = {a}
  Msgs = {a1, a2}
  Conns = {c1}
  Workers = {w1}
  Lanes = {l1}
  HomeOf <- OneGroup
  Letter <- NoLetters
  Wants <- AllGroups
  LaneOf <- OneLane
  LaneCap = 1
  ActiveCap = 2
  Parallelism = 1
  MaxInflight = 2
  GlobalMax = 0
  GlobalMaxMsgs = 0
  MaxMishaps = 1
  Mishaps = {"nack"}
SPECIFICATION FairSpec
INVARIANT NothingForgotten
PROPERTY EveryMessageServed
CHECK_DEADLOCK FALSE
