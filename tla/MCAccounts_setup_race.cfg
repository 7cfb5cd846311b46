\* Two set-ups of one fresh system.
CONSTANTS
  o1 = o1  o2 = o2
  a = a    b = b
  Requests = {r1, r2}
  Emails = {a, b}
  SeedOrgs = {o1}
  Inputs <- SetupInputs
  MaxBatch = 2
  MaxCrashes = 0
SPECIFICATION Spec
PROPERTIES SetupOnlyOnFresh
\* Every request is answered in the end, then nothing is left to do.
CHECK_DEADLOCK FALSE
