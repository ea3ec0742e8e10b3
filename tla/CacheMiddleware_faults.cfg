SPECIFICATION Spec
CONSTANTS
  n1 = n1
  r1 = r1
  r2 = r2
  r3 = r3
  Node = {n1}
  Slot = {r1, r2, r3}
  TTL = 1
  StaleTTL = 2
  RevalidateTimeout = 2
  DefaultTTL = 2
  Modes = {"plain", "swr"}
  Legacy = TRUE
  RedisReplies <- AllReplies
  RoomChoices <- AlwaysRoom
  Timely = TRUE
SYMMETRY MCSymmetry
INVARIANTS
  OneRevalidationPerInstance
  LocalFlagOwned
  StoredConforms
