\* Two refreshes of one token.
SPECIFICATION Spec
CONSTANTS
  Requests = {r1, r2}
  Passwords = {p1, p2}
  Profiles = {f1, f2}
  Statuses = {active, suspended}
  Active = active
  Jtis = {j1, j2, j3}
  NoJti = NoJti
  NoEntry = NoEntry
SYMMETRY Symmetry
INVARIANTS
  RefreshTokenWorksOnce
