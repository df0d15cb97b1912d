SPECIFICATION Spec
CONSTANTS
  p1 = p1
  p2 = p2
  p3 = p3
  None = None
  MaxU32 = 4095
  MaxSafe = 400000000
  MaxU64 = 500000000
  MaxU128 = 600000000
  DeviceVersions <- Versions
  Values <- FieldValues
  Sample <- SampleConfig
  MaxEdits = 2
  Start <- Noon
  Ticks <- Later
  Processors = {p1, p2, p3}
  Boundaries <- ThreeBuckets
  Markets <- AllMarkets
INVARIANTS
  PlanTaken
  AdviceHolds
CHECK_DEADLOCK FALSE
