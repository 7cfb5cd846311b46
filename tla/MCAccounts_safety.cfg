\* A fresh system or one in use, every kind of request, removals and a crash.
CONSTANTS
  o1 = o1  o2 = o2
  a = a    b = b
  Requests = {r1, r2, r3}
  Emails = {a, b}
  SeedOrgs = {o1, o2}
  Inputs <- AllInputs
  MaxBatch = 2
  MaxCrashes = 1
SPECIFICATION Spec
SYMMETRY RequestSymmetry
INVARIANTS TypeOK EmailsUnique NoOrphanUsers AllOrNothing AckedIsDurable ClientErrorsAreFinal
PROPERTIES SetupChecksFresh ImplementsDirectory
\* Every request is answered in the end, then nothing is left to do.
CHECK_DEADLOCK FALSE
