\* A permission renamed or deleted while an identity with it is cached.
SPECIFICATION Spec
CONSTANTS
  Users = {u1, u2}
  Roles = {a}
  Perms = {p}
  Names = {n1, n2}
  Requests = {r1, r2}
  None = None
SYMMETRY Symmetry
INVARIANTS
  PermissionChangesInvalidate
