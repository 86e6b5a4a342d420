\* Any caller and route, any query, and then up to five rows, pages of two (three pages), two writes during the walk.
SPECIFICATION Spec
CONSTANTS
  Rows = {r1, r2, r3, r4, r5}
  Limit = 2
  Keys = {1, 2, 3, 4, 5}
  MaxWrites = 2
  RoleNames = {"superuser", "admin", "user", "other"}
  None = None
SYMMETRY Symmetry
INVARIANTS TypeOK GatesAsDocumented RefusalsAreDocumented  MissedForCause RepeatedForCause PageAgreesWithTotal
\* A request is answered, or a walk ends.
CHECK_DEADLOCK FALSE
