\* Three polls at a time; nine ticks are room for five probes two ticks apart, so that
\* the state goes through down and back.  No deadlock check: the clock stops at MaxTime.
SPECIFICATION Spec
CONSTANTS
  Threads = {t1, t2, t3}
  TTL = 2
  Threshold = 2
  MaxTime = 9
  NoThread = NoThread
SYMMETRY ThreadSymmetry
CHECK_DEADLOCK FALSE
INVARIANTS
  OkIsRecent
  DownIsEarned
PROPERTIES
  ProbesAreSpaced
