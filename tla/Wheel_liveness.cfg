CONSTANTS
  Setters = {s1}
  Key = {k1}
  Val = {v1}
  Timer = {1, 2}
  NumSlots = 2
  Delays = {0, 1, 2}
  Worker = 1
  Second = 1
  Epoch = 10
  Closing = TRUE
  Nil = Nil
SPECIFICATION FairSpec
PROPERTY TimersLeave
