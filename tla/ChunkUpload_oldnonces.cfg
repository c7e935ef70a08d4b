SPECIFICATION Spec
CONSTANTS
  a1 = a1
  a2 = a2
  N = 2
  Accounts = {a1, a2}
  HasReconnect = TRUE
  Trusted = {}
  SkipCandidates = {}
  ProbeFailed = {}
  PreStored = {}
  SkipRoot = TRUE
  HandOff = TRUE
  MaxReconnections = 2
  MaxChunkRetries = 2
  MaxReprobeRetries = 1
  MaxRootRetries = 1
  BudgetMax = 3
  NonceBound = 2
  StuckRun = 0
  Regimes = {{"conn", "timeout", "gossip", "rotate"}}
  MaxForeign = 0
  MaxReorgs = 0
INVARIANT NoncesOfCurrentAccount
