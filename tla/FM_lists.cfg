SPECIFICATION Spec
CONSTANTS
  c1 = c1
  c2 = c2
  c3 = c3
  fileA = fileA
  fileB = fileB
  dirA = dirA
  dirB = dirB
  None = none
  Conn <- ThreeConns
  File <- OneFile
  Dir <- OneDir
  DirOf <- OneDirOf
  PrefixOf <- OnePrefixOf
  Existing <- OneFile
  Request <- ListRequests
  MaxPaths = 2
SYMMETRY SymmetricConns
INVARIANTS
  TypeOK
  ReadersListed
  WritersListed
  NoSpareName
PROPERTIES
  DeletePassesWhenIdle
  RefusalIsJustified
CHECK_DEADLOCK FALSE
