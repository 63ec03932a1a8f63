SPECIFICATION Spec
CONSTANTS
  d1 = d1  d2 = d2  a = a  b = b  c = c
  Ids = {d1, d2}
  Texts = {a, b, c}
  None = None
  LeftoverReopened = FALSE
  MaxEdits = 2
  MaxFaults = 3
  MaxJournals = 2
SYMMETRY Symmetry
INVARIANTS TypeOK CreatedOnce SavedMeansStored LocalTextKept PublishedOnce CleanedLeavesNothing
CHECK_DEADLOCK FALSE
