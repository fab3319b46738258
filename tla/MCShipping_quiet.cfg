\* Three requests on one order, a crash; retries at boot and, between requests, periodic;
\* no late POST.  No deadlock check: the system is idle once every request has been made.
SPECIFICATION QuietSpec
CONSTANTS
  Keys = {k1, k2, k3}
  Orders = {o1}
  None = None
  RetryLimit = 2
  BootRetry = TRUE
  PollRetry = TRUE
  LateCalls = FALSE
  Pruning = FALSE
  MaxCrashes = 1
SYMMETRY KeySymmetry
CHECK_DEADLOCK FALSE
INVARIANTS
  VerdictsAreTrue
PROPERTIES
  SettledIsFinal
  ImplementsLedger
