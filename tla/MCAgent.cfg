\* Two prints in every order of steps, over what an earlier one left, and the scale read meanwhile.
\* No deadlock check: the agent is idle once every request is answered.
SPECIFICATION Spec
CONSTANTS
  Prints = {p1, p2}
  Weighings = {w1}
  Readings <- MCReadings
  None = None
  Empty = Empty
  Mixed = Mixed
CHECK_DEADLOCK FALSE
INVARIANTS
  PrintsAreOwn
  WeightIsScales
PROPERTIES
  RequestsAreAnswered
