SPECIFICATION Spec
CONSTANTS
  Processors = {p, q}
  None = None
  MaxRetries = 3
  RetryDelay = 1
  RpcTimeout = 1
  AbortAt = 5
  MaxTime = 9
  Replicas = 2
  StartTime = 6
  TwoMinutes = 2
INVARIANTS
  LastAckCanBeSeen
CHECK_DEADLOCK FALSE
