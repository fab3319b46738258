\* Two users, two overlapping requests, four writes: enough to change the bootstrap
\* password, add a second admin and demote both at once.
\* No deadlock check: requests wait for ever once the bound on writes is reached.
SPECIFICATION Spec
CONSTANTS
  Users = {admin, ann}
  Bootstrap = admin
  Passwords = {p0, p1}
  BootstrapPassword = p0
  Absent = Absent
  Threads = {t1, t2}
  MaxWrites = 4
SYMMETRY ThreadSymmetry
CHECK_DEADLOCK FALSE
INVARIANTS
  AdminRemains
  AdminsHaveRotated
