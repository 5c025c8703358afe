CONSTANTS
  Threads = {t1}
  Key = {a, b, c}
  Val = {v1, v2}
  Elem = {1, 2, 3, 4, 5}
  Size = 2
  Ops = {"Add", "Get", "Take", "Remove", "RemoveOldest", "Contains", "Keys", "Range"}
  MaxCalls = 5
  Nil = Nil
SPECIFICATION Spec
\* Contains keeps its read locks: the next writer waits forever.
CHECK_DEADLOCK FALSE
INVARIANT KeysInOrder
PROPERTY ExactLRU
