CONSTANTS
  Editions = {"nt", "98", "linux"}
  Name <- MCName
  Own <- MCOwn
  Inert <- MCInert
  Active <- MCActive
  DirOf <- MCDirOf
  TypesOf <- MCTypesOf
  Image <- MCImage
  Installed <- MCInstalled
  Dir <- MCDir
  ParentOf <- MCParentOf
  Roots <- MCRoots
  Written = {"relative", "absolute"}
  MaxFiles = 2
  MaxVanish = 1
SPECIFICATION FairSpec
INVARIANTS
  ScanStops
  OwnFilesSurvive
  OneDeletionPerRequest
  FilesTrackDisk
  MalwareTracksDisk
  AtMostThreeAttempts
  WallpaperChanges
  OpensNoMalware
PROPERTY DeleteReturns
\* An operation that runs into undefined behaviour does not return.
CHECK_DEADLOCK FALSE
