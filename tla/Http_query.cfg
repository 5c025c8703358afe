CONSTANTS
  r1 = r1
  r2 = r2
  Req = {r1, r2}
  Ctx = {c1, c2}
  Path = {p}
  NoPath = NoPath
  MaxInt8 = 9
  NextLimit = 1
  UserCodes = {"302"}
  Acts <- MCActs
  Nil = Nil
SPECIFICATION Spec
INVARIANT QueryOfThisRequest

CHECK_DEADLOCK FALSE
