SPECIFICATION Spec
CONSTANTS
  Users = {u1}
  Orgs = {o1}
  Passwords = {p1, p2}
  Calls = {c1}
  Sessions = {s1}
  Tokens = {t1}
  IdleTime = 1
  AbsoluteTime = 2
  TokenTime = 1
  LockTime = 1
  MaxFailures = 1
  MaxTime = 1
  None = None
PROPERTIES
  ResetRevokesSessions
CHECK_DEADLOCK FALSE
