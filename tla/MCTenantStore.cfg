\* Two organizations, two users, two projects and one task.
CONSTANTS
  u1 = u1
  u2 = u2
  Orgs = {o1, o2}
  Users <- MCUsers
  Projects = {p1, p2}
  Tasks = {k1}
  Role <- MCRole
  None = None
SPECIFICATION FairSpec
INVARIANTS TypeOK NoDangling
PROPERTIES ImplementsLedger OldTenantForgotten
CHECK_DEADLOCK FALSE
