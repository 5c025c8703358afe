CONSTANTS
  Nil = Nil
  Route <- MCRoute
  Request <- MCRequest
  Param = {":x", ":y", ":"}
  CatchAll = {"*z"}
  Nameless = {":"}
  MaxRoutes = 3
SPECIFICATION Spec
INVARIANT RouteFound
CHECK_DEADLOCK FALSE
