SPECIFICATION FairSpec
CONSTANTS
  Clients = {c, d}
  Listeners = {l}
  u = u
  v = v
  Urls <- TwoUrls
  None = None
  MaxDrops = 2
INVARIANTS
  TypeOK
  ClosedStaysClosed
  NoListenerTwice
  FramesCarryHandshake
PROPERTIES
  ConnectAnswered
  StartSettles
  LostIsRedialled
CHECK_DEADLOCK FALSE
