SPECIFICATION FairSpec
CONSTANTS
  Items = {a, b, c}
  Foreign = Foreign
  MaxForeign = 1
  MaxLosses = 1
INVARIANTS
  TypeOK
  IInv
  NoNonceCollision
  OneAtATime
  OutcomeMatchesChain
  NoOpenSubscriptionLeft
PROPERTIES
  ImplementsSubmissionQueue
  EveryEnqueueSettles
CHECK_DEADLOCK FALSE
