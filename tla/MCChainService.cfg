SPECIFICATION FairSpec
CONSTANTS
  app = app
  env = env
  s1 = s1
  s2 = s2
  c1 = c1
  c2 = c2
  c3 = c3
  k1 = k1
  Services = {app, env}
  Subs = {s1, s2}
  Calls = {c1, c2, c3}
  Closers = {k1}
  On <- TwoServices
  Sharing = {env}
  Custom = Custom
  None = None
INVARIANTS
  FeedServes
  OneAuthority
PROPERTIES
  OperationsSettle
CHECK_DEADLOCK FALSE
