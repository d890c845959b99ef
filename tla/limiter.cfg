SPECIFICATION Spec
CONSTANTS
  k1 = k1
  k2 = k2
  p1 = p1
  p2 = p2
  p3 = p3
  Never = Never
  Keys = {k1, k2}
  Procs = {p1, p2, p3}
  Limits = {0, 2}
  Window = 3
  MaxDelay = 1
  MaxTime = 4
SYMMETRY Interchangeable
INVARIANTS TypeOK NoMoreThanLimit BucketsAreRecent
PROPERTIES WaitIsHonest
CHECK_DEADLOCK FALSE
