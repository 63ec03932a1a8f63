SPECIFICATION Spec
CONSTANTS
  Worker = {w1, w2}
  NoWorker = NoWorker
  Repo = {"alice", "bob"}
  Record = {"a1", "b1"}
  MaxSeq = 3
  RepoOf <- TwoRepos
  Writes <- OneRecordEach
  Syncs = {}
  Accounts = {}
  Broken = {}
  MaxAttempts = 2
  MaxFaults = 1
  Stalls = TRUE
  ScopeChanges = FALSE
SYMMETRY WorkerSymmetry
INVARIANTS RepositoryOrderPreserved
CHECK_DEADLOCK FALSE
