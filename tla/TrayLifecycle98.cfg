CONSTANTS
  Edition = "98"
  MaxMessages = 3
SPECIFICATION FairSpec
INVARIANTS
  TypeOK
  TrayReturnsClean
  StaleReadNeedsLink
PROPERTY ExitEndsProcess
\* The process ends.
CHECK_DEADLOCK FALSE
