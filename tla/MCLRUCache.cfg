\* Three keys for one place, two values, a clock of four instants.
CONSTANTS
  Keys = {k1, k2, k3}
  Values = {v1, v2}
  TTLs = {1}
  MaxSize = 1
  Missing = Missing
  MaxTime = 3
SPECIFICATION FairSpec
INVARIANTS TypeOK AtMostOneOver
PROPERTIES LosesOnlyTheDispensable ImplementsStore CleanupEnds
\* At the last tick of the bounded clock a spinning cleanup cannot go on.
CHECK_DEADLOCK FALSE
