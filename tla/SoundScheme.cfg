CONSTANTS
  Dir <- MCDir
  NoDir = NoDir
  Pack <- MCPack
  NameOf <- MCNameOf
  EndsWith <- MCEndsWith
  Win10 = TRUE
SPECIFICATION Spec
INVARIANTS
  WrittenInOrder
  SchemeIsWhole
  ActiveNotOffered
PROPERTY ActiveWhenWritten
