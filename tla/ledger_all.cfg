SPECIFICATION Spec
CONSTANTS
  e1 = e1
  b1 = b1
  b2 = b2
  p1 = p1
  p2 = p2
  None = None
  Events = {e1}
  Bookings = {b1, b2}
  Procs = {p1, p2}
  Quantities <- MCQuantities
  Totals = {2, 4}
  SoldInBody = {0, 1}
  Modes = {TRUE}
  SweepLimit = 2
  SoldFloor <- MCSoldFloor
  Handlers = {"create", "update", "deleteEvent", "book", "pay", "cancel", "delete"}
  MayFail = TRUE
SYMMETRY Interchangeable
INVARIANTS TypeOK LedgerExact HoldersCounted NoOversell NoSeatStranded
PROPERTIES SoldStaysWithinTotal FollowsLifecycle
CHECK_DEADLOCK FALSE
