CONSTANTS
  Editions = {"linux"}
  Name <- MCName
  Own <- MCOwn
  Inert <- MCInert
  Active <- MCActive
  DirOf <- MCDirOf
  TypesOf <- MCTypesOf
  Image <- MCImage
  Installed <- MCInstalled
  Dir <- MCDir
  ParentOf <- MCParentOf
  Roots <- MCRoots
  Written = {"relative"}
  MaxFiles = 3
  MaxVanish = 1
SPECIFICATION Spec
INVARIANT MalwareIsCatalogued
CHECK_DEADLOCK FALSE
