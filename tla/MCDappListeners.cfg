SPECIFICATION Spec
CONSTANTS
  Clients = {c, d}
  Listeners = {l}
  u = u
  v = v
  Urls <- TwoUrls
  None = None
  MaxDrops = 2
INVARIANTS
  AllListenersHear
CHECK_DEADLOCK FALSE
