SPECIFICATION Spec
CONSTANTS
  c1 = c1
  c2 = c2
  c3 = c3
  fileA = fileA
  fileB = fileB
  dirA = dirA
  dirB = dirB
  None = none
  Conn <- TwoConns
  File <- OneFile
  Dir <- OneDir
  DirOf <- OneDirOf
  PrefixOf <- OnePrefixOf
  Existing <- OneFile
  Request <- WriteRequests
  MaxPaths = 2
SYMMETRY SymmetricConns
INVARIANTS
  ConfirmedDataIsInFile
CHECK_DEADLOCK FALSE
