\* A ship whose POST is lost, a void, a restart that retries the ship.
SPECIFICATION Spec
CONSTANTS
  Keys = {k1, k2}
  Orders = {o1}
  None = None
  RetryLimit = 2
  BootRetry = TRUE
  PollRetry = FALSE
  LateCalls = FALSE
  Pruning = FALSE
  MaxCrashes = 1
SYMMETRY KeySymmetry
CHECK_DEADLOCK FALSE
PROPERTIES
  RetryIsSafe
