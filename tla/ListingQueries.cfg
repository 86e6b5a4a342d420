\* A query with an unknown direction, or with an unknown filter key sent twice; the walk does not matter.
SPECIFICATION Spec
CONSTANTS
  Rows = {r1}
  Limit = 2
  Keys = {1}
  MaxWrites = 1
  RoleNames = {"superuser", "admin", "user", "other"}
  None = None
INVARIANTS UnknownNeverIgnored
\* A request is answered, or a walk ends.
CHECK_DEADLOCK FALSE
