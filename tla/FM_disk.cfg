SPECIFICATION Spec
CONSTANTS
  c1 = c1
  c2 = c2
  c3 = c3
  fileA = fileA
  fileB = fileB
  dirA = dirA
  dirB = dirB
  None = none
  Conn <- ThreeConns
  File <- OneFile
  Dir <- OneDir
  DirOf <- OneDirOf
  PrefixOf <- OnePrefixOf
  Existing <- OneFile
  Request <- DiskRequests
  MaxPaths = 3
SYMMETRY SymmetricConns
INVARIANTS
  ReadIsAPrefix
PROPERTIES
  AppendedDataStays
CHECK_DEADLOCK FALSE
