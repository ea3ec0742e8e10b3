SPECIFICATION FairSpec
CONSTANTS
  Sources <- MCSources
  Roots <- MCRoots
  Reducer <- MCReducer
  Entity <- MCEntity
  Depth = 5
  Inputs <- MCInputs
  Specs <- MCSpecs
  Registered <- MCRegistered
  Body <- MCBody
  Fails <- MCFails
  Server <- MCServer
  Refuses <- MCRefuses
  Valid <- MCValid
  Outcomes <- MCOutcomes
  Rest <- MCRest
  Reference <- Means
INVARIANTS
  TypeOK
  AgreesWithReference
  EachCallAgrees
  InTurn
  NoNeedlessCalls
  AbandonedOnlyByFailure
  TraceWhole
PROPERTIES
  Settles
CHECK_DEADLOCK FALSE
