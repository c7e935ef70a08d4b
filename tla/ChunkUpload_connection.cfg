SPECIFICATION FairSpec
CONSTANTS
  a1 = a1
  N = 2
  Accounts = {a1}
  HasReconnect = TRUE
  Trusted = {}
  SkipCandidates = {2}
  ProbeFailed = {2}
  PreStored = {}
  SkipRoot = FALSE
  HandOff = TRUE
  MaxReconnections = 2
  MaxChunkRetries = 2
  MaxReprobeRetries = 1
  MaxRootRetries = 2
  BudgetMax = 3
  NonceBound = 3
  StuckRun = 4
  Regimes = {{"halt", "timeout", "null", "reconnect", "rpc", "auth"}, {"sibling"}}
  MaxForeign = 2
  MaxReorgs = 0
INVARIANTS TypeOK HealthyHandoff
PROPERTIES Termination CollisionRecovery
