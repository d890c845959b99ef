SPECIFICATION Spec
CONSTANTS
  u1 = u1
  m1 = m1
  t1 = t1
  t2 = t2
  r1 = r1
  r2 = r2
  p1 = p1
  p2 = p2
  None = None
  Users = {u1}
  Emails = {m1}
  Tokens = {t1, t2}
  Links = {r1, r2}
  Procs = {p1, p2}
  MaxPasswords = 3
  MaxRequests = 5
  Routes = {"register", "login", "profile", "forgot", "redeem"}
  MayFail = FALSE
INVARIANT ResetWorksOnce
CHECK_DEADLOCK FALSE
