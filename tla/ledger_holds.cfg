SPECIFICATION FairSpec
CONSTANTS
  e1 = e1
  e2 = e2
  b1 = b1
  b2 = b2
  p1 = p1
  p2 = p2
  None = None
  Events = {e1, e2}
  Bookings = {b1, b2}
  Procs = {p1, p2}
  Quantities = {1}
  Totals = {1}
  SoldInBody = {0, 1}
  Modes = {TRUE, FALSE}
  SweepLimit = 1
  SoldFloor <- MCSoldFloor
  Handlers = {"create", "book", "sweep", "pay"}
  MayFail = FALSE
PROPERTIES ReleasesOnlyTaken SeatsComeBack FoundHoldsEnd
CHECK_DEADLOCK FALSE
