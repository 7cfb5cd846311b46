\* One row each for an administrator and a user.
CONSTANTS
  u1 = u1
  u2 = u2
  Orgs = {o1}
  Users <- MCUsers
  Projects = {p1}
  Tasks = {k1}
  Role <- MCRole
  None = None
SPECIFICATION Spec
INVARIANT OwnProfileEditable
CHECK_DEADLOCK FALSE
