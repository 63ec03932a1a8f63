SPECIFICATION Spec
CONSTANTS
  Worker = {w1, w2}
  NoWorker = NoWorker
  Repo = {"alice", "bob"}
  Record = {"a1", "a2", "b1"}
  MaxSeq = 5
  RepoOf <- TwoRepos
  Writes <- ClosingAccount
  Syncs = {3}
  Accounts = {5}
  Broken = {1}
  MaxAttempts = 2
  MaxFaults = 3
  Stalls = FALSE
  ScopeChanges = FALSE
SYMMETRY WorkerSymmetry
INVARIANTS TypeOK OneTurnPerRepository RestoresAlone WatermarkTruthful DeadLetterOwed ProjectionCurrent
CHECK_DEADLOCK FALSE
