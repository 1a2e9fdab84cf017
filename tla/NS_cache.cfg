\* One client that gives five commands.
SPECIFICATION FairSpec
CONSTANTS
  t1 = t1
  t2 = t2
  s1 = s1
  s2 = s2
  NoNode = NoNode
  NoInfo = NoInfo
  NoServer = NoServer
  Thread <- OneThread
  Server <- TwoServers
  Path <- MorePaths
  Dir <- MoreDirs
  Inside <- MoreContents
  Dotted <- Files
  Listing <- TwoListings
  Frail = {s1, s2}
  MaxCommands = 5
  Command <- AllCommands
  CacheSize = 2
PROPERTIES CommandEnds CacheIsLru
CHECK_DEADLOCK FALSE
