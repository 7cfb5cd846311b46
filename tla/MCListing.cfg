\* Four rows, pages of two, three changes and one failure while they are walked.
CONSTANTS
  MaxRows = 4
  Times = {1, 2, 3}
  Limit = 2
  MaxChanges = 3
  MaxFailures = 1
SPECIFICATION Spec
INVARIANTS TypeOK MissesNoMoreThanLeft RepeatsNoMoreThanJoined TotalAddsUp
CHECK_DEADLOCK FALSE
