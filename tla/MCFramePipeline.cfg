SPECIFICATION FairSpec
CONSTANTS
  NumTeams = 2
  Limit = 2
  MaxSequence = 4
  MaxBarriers = 1
INVARIANTS
  TypeOK
  EmissionFollowsSubmission
  FramesAreAccountedFor
  NoInternalError
PROPERTIES
  BarriersAreQuiet
  FailureIsReported
  ImplementsOrderedDelivery
