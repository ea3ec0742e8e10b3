SPECIFICATION Spec
CONSTANTS
  n1 = n1
  n2 = n2
  c1 = c1
  c2 = c2
  Node = {n1, n2}
  Call = {c1, c2}
  LocalTTL = 1
  Latency = 1
  RedisReplies <- AllReplies
INVARIANTS
  TypeOK
  BoundedStaleness
  ServedWasPresent
SYMMETRY MCSymmetry
