SPECIFICATION Spec
CONSTANTS
  b1 = b1
  b2 = b2
  g1 = g1
  g2 = g2
  n1 = n1
  n2 = n2
  None = None
  Bookings = {b1, b2}
  Legacy = {b2}
  Gates = {g1, g2}
  Instances = {n1, n2}
  MaxBatch = 2
  MaxScans = 2
  MayFail = TRUE
SYMMETRY Interchangeable
INVARIANTS TypeOK AdmitOnce ScannedWasAdmitted UsedMeansScanned PrintedTicketsScan
PROPERTIES BatchGoesOn
CHECK_DEADLOCK FALSE
