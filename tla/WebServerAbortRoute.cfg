CONSTANTS
  Client = {c1}
  NoClient = NoClient
  Editions = {"linux"}
SPECIFICATION Spec
INVARIANT AbortRouteCloses
CHECK_DEADLOCK FALSE
