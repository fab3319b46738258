\* Two threads that read, PUT and PATCH two fields while the file is written three times.
\* No deadlock check: a writer waits for ever once the bound on writes is reached.
SPECIFICATION Spec
CONSTANTS
  Threads = {t1, t2}
  Fields = {f1, f2}
  Values = {v0, v1}
  Default = v0
  MaxWrites = 3
  NoThread = NoThread
SYMMETRY ThreadSymmetry
CHECK_DEADLOCK FALSE
INVARIANTS
  ReadsAreFresh
  CacheIsCurrent
PROPERTIES
  LonePatchKeepsOthers
