CONSTANTS
  Threads = {t1, t2}
  Key = {a, b}
  Val = {v1}
  Elem = {1, 2, 3, 4, 5}
  Size = 1
  Ops = {"Add", "Get", "Take", "Remove", "RemoveOldest", "GetOldest", "Range"}
  MaxCalls = 3
  Nil = Nil
SPECIFICATION FairSpec
INVARIANTS ListMatchesMap NotifiedOnce SingleFlight NobodyLeftWaiting IndInv
PROPERTY CallsReturn
