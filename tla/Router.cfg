CONSTANTS
  Nil = Nil
  Route <- MCRoute
  Request <- MCRequest
  Param = {":x", ":y", ":"}
  CatchAll = {"*z"}
  Nameless = {":"}
  MaxRoutes = 3
SPECIFICATION Spec
INVARIANTS RefusedInAnyOrder TreeShape FoundMatches ParamsFit
PROPERTY LookupEnds
CHECK_DEADLOCK FALSE
