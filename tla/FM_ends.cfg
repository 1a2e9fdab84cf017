SPECIFICATION FairSpec
CONSTANTS
  c1 = c1
  c2 = c2
  c3 = c3
  fileA = fileA
  fileB = fileB
  dirA = dirA
  dirB = dirB
  None = none
  Conn <- TwoConns
  File <- TwoFiles
  Dir <- TwoDirs
  DirOf <- TwoDirOf
  PrefixOf <- TwoPrefixOf
  Existing <- OneFile
  Request <- AllRequests
  MaxPaths = 2
PROPERTIES
  RequestEnds
CHECK_DEADLOCK FALSE
