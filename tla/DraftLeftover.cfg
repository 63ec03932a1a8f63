SPECIFICATION Spec
CONSTANTS
  d1 = d1  d2 = d2  a = a  b = b  c = c
  Ids = {d1, d2}
  Texts = {a, b, c}
  None = None
  LeftoverReopened = TRUE
  MaxEdits = 2
  MaxFaults = 2
  MaxJournals = 2
SYMMETRY Symmetry
INVARIANTS LocalTextKept
CHECK_DEADLOCK FALSE
