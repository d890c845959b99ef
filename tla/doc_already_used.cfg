SPECIFICATION Spec
CONSTANTS
  b1 = b1
  b2 = b2
  g1 = g1
  g2 = g2
  n1 = n1
  n2 = n2
  None = None
  Bookings = {b1, b2}
  Legacy = {b2}
  Gates = {g1, g2}
  Instances = {n1, n2}
  MaxBatch = 2
  MaxScans = 2
  MayFail = FALSE
SYMMETRY Interchangeable
INVARIANTS UsedWasScannedBefore
CHECK_DEADLOCK FALSE
