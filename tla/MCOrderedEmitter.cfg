SPECIFICATION FairSpec
CONSTANTS
  d1 = d1
  d2 = d2
  Capacity = 3
  FirstSequence = 1
  MaxSequence = 5
  NumSinks = 2
  Dispatchers <- MCDispatchers
  PreviewSinks <- MCSecondSink
PROPERTIES
  EmitterCallsReturn
  ImplementsAtomicPublication
INVARIANTS
  TypeOK
  RingIsSound
  WritersAreExclusive
  SinksSeeThePrefix
  NoLostWakeup
  CancelTellsTheTruth
