SPECIFICATION FairSpec
CONSTANTS
  Items = {1, 2, 3}
  Foreign = Foreign
  None = None
  MaxBatchSize = 2
  MaxBlockAge = 1
  MaxNonceRetries = 1
  MaxForeign = 1
  MaxTroubles = 1
  MaxMisreads = 1
  MaxStops = 1
INVARIANTS
  TypeOK
  AtMostOnce
  OutcomeMatchesChain
  NoNonceCollision
  NoNonceGap
  OneHeadsSubscription
  EventsScoped
PROPERTIES
  ImplementsSubmissionQueue
  EveryEnqueueSettles
CHECK_DEADLOCK FALSE
