\* Two logins, two refreshes and a logout of two commands, in every order and
\* up to the absolute limit of the session.
\* Every process runs once, so the system stops.
SPECIFICATION Spec
CONSTANTS
  l1 = l1  l2 = l2  r1 = r1  r2 = r2  r3 = r3  o1 = o1
  Logins = {l1, l2}
  Refreshes = {r1, r2}
  Logouts = {o1}
  TokenTTL = 2
  GraceTTL = 1
  SessionMax = 1
  MaxTime = 3
  NoToken = NoToken
SYMMETRY Symmetry
INVARIANTS
  TypeOK
  LogoutIsFinal
  NoFork
  AbsoluteLimit
CHECK_DEADLOCK FALSE
