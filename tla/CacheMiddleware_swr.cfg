SPECIFICATION Spec
CONSTANTS
  n1 = n1
  n2 = n2
  r1 = r1
  r2 = r2
  Node = {n1, n2}
  Slot = {r1, r2}
  TTL = 1
  StaleTTL = 2
  RevalidateTimeout = 2
  DefaultTTL = 2
  Modes = {"swr"}
  Legacy = TRUE
  RedisReplies <- OkReplies
  RoomChoices <- AlwaysRoom
  Timely = TRUE
INVARIANTS
  TypeOK
  FreshIsServable
PROPERTIES
  KeepsContract
