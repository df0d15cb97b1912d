SPECIFICATION FairSpec
CONSTANTS
  Items = {a, b}
  Foreign = Foreign
  MaxForeign = 0
  MaxLosses = 1
PROPERTIES
  EveryEnqueueSettlesAlways
CHECK_DEADLOCK FALSE
