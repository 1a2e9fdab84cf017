\* Two commands that are queued, or two writes, and two crashes.
SPECIFICATION Spec
CONSTANTS
  c1 = c1
  c2 = c2
  Command = {c1, c2}
  Nothing = Nothing
  Garbage = Garbage
  Given <- Pairs
  Frail = {0, 1}
  Declining = {0, 1}
  QueueSize = 2
  MaxCrashes = 2
INVARIANTS TypeOK  NothingElse EachOnce OrderKept QueueIsSent
CHECK_DEADLOCK FALSE
