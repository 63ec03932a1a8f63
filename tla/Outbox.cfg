SPECIFICATION FairSpec
CONSTANTS
  d1 = d1  d2 = d2  o1 = o1  m1 = m1  m2 = m2
  Devices = {d1, d2}
  Acts = {o1, m1, m2}
  NoAct = NoAct
  Selections = {"article", "other"}
  SelectionOf <- OneArticle
  Old = {o1}
  Legacy <- PublishedLegacy
  MaxMarks = 3
  Batch = 2
  Attempts = 2
  MaxFaults = 1
  MaxBumps = 1
INVARIANTS TypeOK ReceiptsTruthful ManifestMeansHistory AckedIsShown
PROPERTIES ImplementsLog QueuesDrain
CHECK_DEADLOCK FALSE
