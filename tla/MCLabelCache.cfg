\* Three labels for two orders: saves that overlap, sweep, break off and are swept away,
\* and a reprint at any time.  No deadlock check: no label is left to buy.
SPECIFICATION Spec
CONSTANTS
  Orders = {o1, o2}
  MaxLabels = 3
  MaxSaves = 2
  None = None
  Mixed = Mixed
SYMMETRY OrderSymmetry
CHECK_DEADLOCK FALSE
INVARIANTS
  AnswersAreOwn
  LatestIsKept
  RecentIsReprintable
  ReprintMatches
