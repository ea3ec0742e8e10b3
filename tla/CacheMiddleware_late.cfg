SPECIFICATION Spec
CONSTANTS
  n1 = n1
  r1 = r1
  r2 = r2
  r3 = r3
  Node = {n1}
  Slot = {r1, r2, r3}
  TTL = 1
  StaleTTL = 2
  RevalidateTimeout = 2
  DefaultTTL = 2
  Modes = {"swr"}
  Legacy = FALSE
  RedisReplies <- OkReplies
  RoomChoices <- AlwaysRoom
  Timely = FALSE
SYMMETRY MCSymmetry
INVARIANTS
  OneRevalidationPerInstance
