CONSTANTS
  Editions = {"nt", "98", "linux"}
  Requests <- MCRequests
  OffSets <- MCOffSets
  Route <- MCRoute
  NoPairRoute <- MCNoPairRoute
  Machines <- MCMachines
  Malware = {"m1", "m2"}
  DateFiles <- MCDateFiles
  MaxRequests = 3
SPECIFICATION FairSpec
INVARIANTS
  ParsedAsSent
  FlatBodyNeverThrows
  SwitchedOffTouchesNothing
  ReachesExtreme
PROPERTY RequestsEnd
\* The process ends, or no further request comes.
CHECK_DEADLOCK FALSE
