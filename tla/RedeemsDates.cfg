CONSTANTS
  Editions = {"nt", "98", "linux"}
  Requests <- MCMalwareRequests
  OffSets <- MCOffSets
  Route <- MCRoute
  NoPairRoute <- MCNoPairRoute
  Machines <- MCMachines
  Malware = {"m1", "m2"}
  DateFiles <- MCDateFiles
  MaxRequests = 3
SPECIFICATION Spec
INVARIANT RunsOnItsDate
CHECK_DEADLOCK FALSE
