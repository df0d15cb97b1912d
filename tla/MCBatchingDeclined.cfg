SPECIFICATION FairSpec
CONSTANTS
  Items = {1, 2}
  Foreign = Foreign
  None = None
  MaxBatchSize = 1
  MaxBlockAge = 1
  MaxNonceRetries = 1
  MaxForeign = 0
  MaxStops = 0
  MaxTroubles = 1
  MaxMisreads = 0
PROPERTIES
  SettlesAfterFailure
CHECK_DEADLOCK FALSE
