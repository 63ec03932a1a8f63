SPECIFICATION FairSpec
CONSTANTS
  NoOwner = NoOwner
  Owner = {p1, p2}
  Bootstrap = 1
  MaxSeq = 4
  MaxJobs = 3
  MaxFaults = 1
  Poison = {}
  PoisonMax = 1
  HasCanary = FALSE
  HasBudget = FALSE
  CanRegress = FALSE
  DbFaults = TRUE
PROPERTIES FailedAttemptIsRetried
