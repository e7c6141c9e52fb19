SPECIFICATION Spec
CONSTANTS
  Plans <- AllPlans
  MaxCalls = 3
  AuxCreated <- Aux
  FailingSteps <- FrontHalf
  MaxFailures = 1
INVARIANTS
  DataRaceFree
  InputsCurrent
  SynchronousCallSettles
  CallersSyncSuffices
  QueuedOnCallersStream
PROPERTY
  AnswersInOrder
