SPECIFICATION Spec
CONSTANTS
  b1 = b1
  b2 = b2
  i1 = i1
  i2 = i2
  p1 = p1
  p2 = p2
  None = None
  Bookings = {b1, b2}
  Intents = {i1, i2}
  Procs = {p1, p2}
  TestProvider = FALSE
  MayFail = TRUE
INVARIANTS HoldCanBePaid
CHECK_DEADLOCK FALSE
