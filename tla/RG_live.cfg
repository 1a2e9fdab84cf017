\* Two servers, three starts: one comes back, and may be turned away.
SPECIFICATION FairSpec
CONSTANTS
  s1 = s1
  s2 = s2
  s3 = s3
  Server = {s1, s2}
  NoServer = NoServer
  Frail = {s1, s2}
  MaxServers = 2
  MaxStarts = 3
  MaxBusy = 3
INVARIANTS TypeOK
PROPERTIES GoneIsNoticed
CHECK_DEADLOCK FALSE
