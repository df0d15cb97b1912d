SPECIFICATION FairSpec
CONSTANTS
  Processors = {p, q}
  None = None
  MaxRetries = 3
  RetryDelay = 1
  RpcTimeout = 1
  AbortAt = 5
  MaxTime = 9
  Replicas = 2
  StartTime = 6
  TwoMinutes = 2
INVARIANTS
  TypeOK
  StatusOrder
  EnvSetReachesSomeone
  NotLongPastAbort
  NotSetTooEarly
  OneStatusSubscription
PROPERTIES
  AckLeadsToEnvReport
CHECK_DEADLOCK FALSE
