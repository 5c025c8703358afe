CONSTANTS
  Setters = {s1, s2}
  Key = {k1}
  Val = {v1, v2}
  Timer = {1, 2, 3}
  NumSlots = 2
  Delays = {0, 1, 2}
  Worker = 1
  Second = 1
  Epoch = 10
  Closing = FALSE
  Nil = Nil
SPECIFICATION TSpec
INVARIANTS PositionsExact OnePlace NeverLate
PROPERTIES NeverEarly LatestTaken
