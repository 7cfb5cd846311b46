\* An administrator and a user, in one organization or in two.
CONSTANTS
  u1 = u1
  u2 = u2
  Orgs = {o1, o2}
  Users <- MCUsers
  Projects = {p1}
  Tasks = {k1}
  Role <- MCRole
  None = None
SPECIFICATION Spec
PROPERTY TakesFromOwnTenant
CHECK_DEADLOCK FALSE
