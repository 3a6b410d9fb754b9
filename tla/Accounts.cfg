SPECIFICATION Spec
CONSTANTS
  Users = {u1, u2}
  Orgs = {o1, o2}
  Passwords = {p1, p2}
  Calls = {c1, c2}
  Sessions = {s1, s2, s3}
  Tokens = {t1, t2}
  IdleTime = 1
  AbsoluteTime = 2
  TokenTime = 1
  LockTime = 1
  MaxFailures = 1
  MaxTime = 1
  None = None
SYMMETRY Symmetry
INVARIANTS
  AccessNeedsMembership
  OneSuccessor
  AdmittedWhileLive
  RedeemedOnce
CHECK_DEADLOCK FALSE
