SPECIFICATION Spec
CONSTANTS
  NoOwner = NoOwner
  Owner = {p1, p2}
  Bootstrap = 1
  MaxSeq = 4
  MaxJobs = 2
  MaxFaults = 2
  Poison = {4}
  PoisonMax = 1
  HasCanary = TRUE
  HasBudget = FALSE
  CanRegress = TRUE
  DbFaults = TRUE
SYMMETRY RunSymmetry
INVARIANTS TypeOK CoverageAccounted JobCursorTruthful PublicCoverageHonest
PROPERTIES JobsNeverReopened ImplementsLedger DiscontinuityFailsClosed LiveCursorNeverRewinds
