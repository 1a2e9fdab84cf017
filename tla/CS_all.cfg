\* Two clients of which one gives two commands and one a WRITE, two files of which the second
\* was made by the COPY of a folder, room for two entries.
SPECIFICATION FairSpec
CONSTANTS
  c1 = c1
  c2 = c2
  f1 = f1
  f2 = f2
  Client = {c1, c2}
  File = {f1, f2}
  NoFile = NoFile
  Recorded <- FromFolder
  Asks <- Choices
  MaxEntries = 2
  MaxCommands <- Bounds
  Room = 1
INVARIANTS TypeOK InStep RoomIsKept
PROPERTIES CompletedIsOwn WaitEnds
CHECK_DEADLOCK FALSE
