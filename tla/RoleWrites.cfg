CONSTANTS
  r1 = r1
  r2 = r2
  p1 = p1
  p2 = p2
  u1 = u1
  u2 = u2
  a = a
  b = b
  q1 = q1
  q2 = q2
  Roles <- MCRoles
  Perms <- MCPerms
  Users <- MCUsers
  Names <- MCNames
  Requests <- MCRequests
  None = None
SPECIFICATION MCSpec
INVARIANTS TypeOK NamesStayUnique JoinRowsAnchored DeadlockForCause
PROPERTIES ImplementsRoleStore EveryRequestEnds
CHECK_DEADLOCK FALSE
