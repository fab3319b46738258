\* Two requests on one order with the periodic retry and one crash; one row per tick.
\* No symmetry: the properties are temporal.
SPECIFICATION FairSpec
CONSTANTS
  Keys = {k1, k2}
  Orders = {o1}
  None = None
  RetryLimit = 1
  BootRetry = TRUE
  PollRetry = TRUE
  LateCalls = FALSE
  Pruning = FALSE
  MaxCrashes = 1
CHECK_DEADLOCK FALSE
PROPERTIES
  RecoverablesSettle
  BootEnds
