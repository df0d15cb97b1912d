SPECIFICATION Spec
CONSTANTS
  d1 = d1
  d2 = d2
  d3 = d3
  Deploys = {d1, d2, d3}
  ProjectName <- OneNameTwice
  MaxStops = 1
  None = None
  NoKey = NoKey
  p1 = p1
  p2 = p2
  Environments = {e1, e2}
  Processors <- TwoProcessors
  RateLimitMax = 2
  RateLimitWindow = 2
  MaxLogs = 7
  MaxLogTime = 5
  MaxAttempts = 5
INVARIANTS
  OwnScriptPinned
  EnvironmentsReadable
  LogsAccountedFor
  TunnelServes
CHECK_DEADLOCK FALSE
