SPECIFICATION Spec
CONSTANTS
  writer = writer  collector = collector  c1 = c1  c2 = c2
  Devices = {writer, collector}
  Collectors = {collector}
  Chunks = {c1, c2}
  FirstRefs = {c1}
  Grace = 2
  MaxTime = 3
  MaxRev = 2
  Skews = {0, 1}
  MaxFaults = 1
INVARIANTS TypeOK NothingDangles
PROPERTIES PublicationsStay GraceRespected
CHECK_DEADLOCK FALSE
