SPECIFICATION FairSpec
CONSTANTS
  n1 = n1
  n2 = n2
  r1 = r1
  r2 = r2
  Node = {n1, n2}
  Slot = {r1, r2}
  TTL = 1
  StaleTTL = 2
  RevalidateTimeout = 1
  DefaultTTL = 2
  Modes = {"plain", "swr"}
  Legacy = FALSE
  RedisReplies <- UnlostReplies
  RoomChoices <- BothWays
  Timely = FALSE
PROPERTIES
  Answered
  FlagLifted
  Unblocked
