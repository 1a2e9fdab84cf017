\* Two servers, four copies; one archive may be cut.
SPECIFICATION FairSpec
CONSTANTS
  s1 = s1
  s2 = s2
  deep = deep
  top = top
  back = back
  near = near
  d = d
  e = e
  p = p
  q = q
  Home = Home
  Torn = Torn
  Server = {s1, s2}
  Copy = {deep, top, back, near}
  Folder = {"p/f", "g", "q/h"}
  From <- Froms
  To <- Tos
  Of <- Ofs
  Into <- Targets
  Parent <- Parents
  Large = {top}
  Taken = {back}
  Frail = {top}
INVARIANTS TypeOK CwdComesHome LandsInPlace
PROPERTIES CompletedLands
CHECK_DEADLOCK FALSE
