\* Batches that wait for each other, and other requests in their way.
CONSTANTS
  o1 = o1  o2 = o2
  a = a    b = b
  Requests = {r1, r2, r3}
  Emails = {a, b}
  SeedOrgs = {o1}
  Inputs <- LockInputs
  MaxBatch = 2
  MaxCrashes = 0
SPECIFICATION FairSpec
PROPERTIES EveryRequestAnswered
\* Every request is answered in the end, then nothing is left to do.
CHECK_DEADLOCK FALSE
