SPECIFICATION Spec
CONSTANTS
  None = None
  t1 = t1
  t2 = t2
  t3 = t3
  b1 = b1
  b2 = b2
  Tab = {t1, t2}
  Browser = {b1, b2}
  MaxEvents = 2
  MaxTime = 2
  MaxIds = 3
SYMMETRY Symmetry
INVARIANTS TypeOK AckedMeansStored  PublicationProtected
PROPERTIES UnsyncedTextRescued
CHECK_DEADLOCK FALSE
