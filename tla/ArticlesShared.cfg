SPECIFICATION SharedSpec
CONSTANTS
  None = None
  t1 = t1
  t2 = t2
  t3 = t3
  b1 = b1
  b2 = b2
  Tab = {t1, t2, t3}
  Browser = {b1, b2}
  MaxEvents = 2
  MaxTime = 3
  MaxIds = 4
SYMMETRY SharedSymmetry
INVARIANT ClaimAcknowledgedFirst
CHECK_DEADLOCK FALSE
