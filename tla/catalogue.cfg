SPECIFICATION DiscoverySpec
CONSTANTS
  v1 = v1
  a1 = a1
  c1 = c1
  e1 = e1
  e2 = e2
  e3 = e3
  u1 = u1
  b1 = b1
  b2 = b2
  p1 = p1
  p2 = p2
  None = None
  Ids = {v1, c1, e1, e2, a1, u1, b1, b2}
  Kind <- KindOf
  Procs = {p1, p2}
  Given = {v1, a1, c1, e1, u1, b1}
  GivenRefs <- RefsOf
  MaxRequests = 2
  MayFail = TRUE
  Rank <- RankOf
  Pages <- PageValues
  Sizes <- SizeValues
  DefaultPageSize = 2
  MaxPageSize = 3
  Limit = 4
  Qty <- QtyOf
  TopEvents = 1
SYMMETRY Interchangeable
INVARIANTS TypeOK NoOrphans BarsAddUp WalkSeesAll PageIsSlice
CHECK_DEADLOCK FALSE
