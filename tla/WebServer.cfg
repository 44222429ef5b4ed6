CONSTANTS
  Client = {c1, c2}
  NoClient = NoClient
  Editions = {"linux", "windows"}
SPECIFICATION FairSpec
INVARIANTS
  AtMostOneLateClient
  NeverSpinsOnClosedListener
  AnsweredWhenClosed
  OnlyRefusedRequestsLeak
  ReleasedOnReturn
PROPERTIES
  ImplementsService
  AbortEndsProcess
\* The process ends, or waits for ever for a caller.
CHECK_DEADLOCK FALSE
