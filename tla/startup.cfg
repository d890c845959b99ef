SPECIFICATION Spec
CONSTANTS
  i1 = i1
  i2 = i2
  a1 = a1
  a2 = a2
  t1 = t1
  t2 = t2
  m1 = m1
  m2 = m2
  None = None
  Gone = Gone
  Instances = {i1, i2}
  Accounts = {a1, a2}
  Emails = {m1, m2}
  Seed = m1
  Terms = {t1, t2}
  MaxStarts = 3
  MaxRequests = 4
  MaxFaults = 2
SYMMETRY Interchangeable
INVARIANTS TypeOK SharedNeedsAGap
PROPERTIES AdminIsSeeded
CHECK_DEADLOCK FALSE
