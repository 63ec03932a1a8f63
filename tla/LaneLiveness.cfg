SPECIFICATION FairSpec
CONSTANTS
  NoOwner = NoOwner
  Owner = {p1, p2}
  Bootstrap = 1
  MaxSeq = 3
  MaxJobs = 3
  MaxFaults = 2
  Poison = {}
  PoisonMax = 1
  HasCanary = FALSE
  HasBudget = TRUE
  CanRegress = FALSE
  DbFaults = FALSE
PROPERTIES LiveKeepsUp OwedIsRepaid
