\* Violation: three refreshes of one client end its session.
SPECIFICATION Spec
CONSTANTS
  l1 = l1  l2 = l2  r1 = r1  r2 = r2  r3 = r3  o1 = o1
  Logins = {l1}
  Refreshes = {r1, r2, r3}
  Logouts = {}
  TokenTTL = 3
  GraceTTL = 2
  SessionMax = 4
  MaxTime = 1
  NoToken = NoToken
INVARIANTS
  RaceIsNotReuse
CHECK_DEADLOCK FALSE
