\* A queue of one place, for two commands or for one and a write.
SPECIFICATION Spec
CONSTANTS
  c1 = c1
  c2 = c2
  Command = {c1, c2}
  Nothing = Nothing
  Garbage = Garbage
  Given <- Mixed
  Frail = {0, 1}
  Declining = {1}
  QueueSize = 1
  MaxCrashes = 2
INVARIANT OverrunIsEarned
CHECK_DEADLOCK FALSE
