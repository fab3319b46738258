\* Two requests on two orders: no boot retry, the periodic retry racing the requests,
\* late POSTs, a crash, pruning.  No deadlock check: the system is idle once every request is made.
SPECIFICATION Spec
CONSTANTS
  Keys = {k1, k2}
  Orders = {o1, o2}
  None = None
  RetryLimit = 1
  BootRetry = FALSE
  PollRetry = TRUE
  LateCalls = TRUE
  Pruning = TRUE
  MaxCrashes = 1
SYMMETRY KeySymmetry
CHECK_DEADLOCK FALSE
INVARIANTS
  TypeOK
  WriteAhead
  AcksAreTrue
  HistoryIsTrue
  RefundPrecedesRevert
