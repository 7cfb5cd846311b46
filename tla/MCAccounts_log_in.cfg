\* Accounts from every path.
CONSTANTS
  o1 = o1  o2 = o2
  a = a    b = b
  Requests = {r1, r2}
  Emails = {a, b}
  SeedOrgs = {o1}
  Inputs <- PathInputs
  MaxBatch = 2
  MaxCrashes = 0
SPECIFICATION Spec
INVARIANTS EveryAccountCanLogIn
\* Every request is answered in the end, then nothing is left to do.
CHECK_DEADLOCK FALSE
