\* Three servers of which one goes down and comes back, four starts, two registrations at once, room for four entries.
SPECIFICATION Spec
CONSTANTS
  s1 = s1
  s2 = s2
  s3 = s3
  Server = {s1, s2, s3}
  NoServer = NoServer
  Frail = {s1}
  MaxServers = 4
  MaxStarts = 4
  MaxBusy = 2
SYMMETRY ServerSymmetry
INVARIANTS OneEntryUnlessEarly ActiveIsWatched ListenedToIsActive BackupsAreOthers
PROPERTIES BackupsStay
CHECK_DEADLOCK FALSE
