CONSTANTS
  Callers = {c1, c2}
  Task = {k1, k2, k3, k4}
  Nesters = {k1}
  Parallel = 2
SPECIFICATION FairSpec
INVARIANTS AtMostParallel PlacesKept
PROPERTY TasksFinish
