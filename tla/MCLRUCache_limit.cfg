\* Three keys for two places, set within one millisecond.
CONSTANTS
  Keys = {k1, k2, k3}
  Values = {v1}
  TTLs = {1}
  MaxSize = 2
  Missing = Missing
  MaxTime = 2
SPECIFICATION Spec
INVARIANTS StrictSizeLimit
\* At the last tick of the bounded clock a spinning cleanup cannot go on.
CHECK_DEADLOCK FALSE
