\* Two clients that give two commands each, two servers that go and come back.
SPECIFICATION Spec
CONSTANTS
  t1 = t1
  t2 = t2
  s1 = s1
  s2 = s2
  NoNode = NoNode
  NoInfo = NoInfo
  NoServer = NoServer
  Thread <- TwoThreads
  Server <- TwoServers
  Path <- Paths
  Dir <- Dirs
  Inside <- Contents
  Dotted <- Files
  Listing <- TwoListings
  Frail = {s1, s2}
  MaxCommands = 2
  Command <- PairCommands
  CacheSize = 2
SYMMETRY SymmetricThreads
INVARIANTS TypeOK OwnerIsHome NoDuplicateEntry
PROPERTIES AnswerNamesTheFile StaleOnlyAfter LookupsRefresh
CHECK_DEADLOCK FALSE
