SPECIFICATION FairSpec
CONSTANTS
  k1 = k1
  k2 = k2
  k3 = k3
  Key = {k1, k2, k3}
  Timeout = 2
  MaxStoreSize = 1
  ThrottleWait = 2
INVARIANTS
  TypeOK
  Bounded
PROPERTIES
  SweepKeepsLive
  RoomAgain
