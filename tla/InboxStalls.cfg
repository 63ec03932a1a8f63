SPECIFICATION FairSpec
CONSTANTS
  Worker = {w1, w2}
  NoWorker = NoWorker
  Repo = {"alice", "bob"}
  Record = {"a1", "b1"}
  MaxSeq = 3
  RepoOf <- TwoRepos
  Writes <- OneRecordEach
  Syncs = {3}
  Accounts = {}
  Broken = {1}
  MaxAttempts = 2
  MaxFaults = 2
  Stalls = TRUE
  ScopeChanges = TRUE
PROPERTIES SettledForGood EveryEventSettles WatermarkCatchesUp
CHECK_DEADLOCK FALSE
