CONSTANTS
  Threads = {t1, t2}
  Key = {a, b}
  Val = {v1, v2}
  Elem = {1, 2, 3, 4, 5}
  Size = 1
  Ops = {"Add", "Get", "Remove", "RemoveOldest"}
  Writers = {"Add", "Get", "Take", "Remove"}
  MaxCalls = 4
  Nil = Nil
SPECIFICATION HSpec
INVARIANTS AddSticks RemoveSticks
