SPECIFICATION FairStreamSpec
CONSTANTS
  NumTeams = 2
  Limit = 2
  MaxSequence = 2
  MaxBarriers = 2
INVARIANTS
  StreamTypeOK
  FinishOkIsComplete
PROPERTIES
  FlushMeansEmitted
  StreamDeliversInOrder
  CallsReturn
