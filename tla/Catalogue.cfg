\* Two runs of the seeder, one after the other or at once; two permissions; one edit.
SPECIFICATION Spec
CONSTANTS
  Seeders = {s1, s2}
  RoleIds = {r1, r2, r3, r4}
  PermIds = {p1, p2, p3}
  Followed <- MCFollowed
  Other = Other
  MaxEdits = 1
  None = None
  Gone = Gone
SYMMETRY Symmetry
INVARIANTS TypeOK CompletedRunCompletes RolelessForCause SeededGatesOpen
PROPERTIES SeederOnlyAdds 
\* The processes exit when they are done.
CHECK_DEADLOCK FALSE
