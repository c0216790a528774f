CONSTANTS
  None = None
  Records = 3
  Addrs <- TwoAddrs
  InitialInterval = 3
  MaxInterval = 60
  MaxElapsedTime = 300
  MaxDuration = 10
  Durations <- SomeDurations
SPECIFICATION FairSpec
INVARIANTS TypeOK HoldUpIsBounded ActiveHasRecords GoneHasNoRecords
PROPERTY ReturnsOrHangs
CHECK_DEADLOCK FALSE
