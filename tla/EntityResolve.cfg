SPECIFICATION FairSpec
CONSTANTS
  MaxLen = 3
  MaxCalls = 1
  Value = {"conforms", "violates"}
INVARIANTS
  TypeOK
  ResolvesConforming
  ServedNotStoredAgain
PROPERTIES
  EndsOnce
  ErrorFails
  Settles
CHECK_DEADLOCK FALSE
