\* Two requests with one link.
SPECIFICATION Spec
CONSTANTS
  Users = {u1, u2}
  Emails = {e1, e2}
  Tokens = {t1, t2}
  Requests = {r1, r2}
  None = None
SYMMETRY Symmetry
INVARIANTS
  SingleUse
