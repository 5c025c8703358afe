CONSTANTS
  Name = {n1, n2}
  Entry = {e1, e2}
  Closer = {c1}
  Handles <- MCHandles
  Nil = Nil
SPECIFICATION FairSpec
PROPERTY CancelEnds
