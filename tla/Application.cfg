SPECIFICATION FairSpec
CONSTANTS
  a = a
  b = b
  c = c
  r1 = r1
  Id = {a, b, c}
  Select = {"s", "t"}
  Request = {r1}
  FirstBatches <- MCFirstBatches
  OwnTypes <- MCOwnTypes
  FirstValues <- MCFirstValues
  Batches <- MCBatches
  RouteMaps <- MCRouteMaps
  Outcomes = {"text", "json", "circular", "error"}
  Programs <- MCPrograms
INVARIANTS
  TypeOK
  NeverCutOff
  GivenUpIsClosed
  HandlersHaveCache
  ExtensionRight
  ByPriority
PROPERTIES
  EntitiesStay
  ValuesStay
  StartSettles
  Answered
CHECK_DEADLOCK FALSE
