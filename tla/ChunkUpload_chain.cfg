SPECIFICATION Spec
CONSTANTS
  a1 = a1
  a2 = a2
  N = 2
  Accounts = {a1, a2}
  HasReconnect = TRUE
  Trusted = {}
  SkipCandidates = {2}
  ProbeFailed = {1}
  PreStored = {}
  SkipRoot = FALSE
  HandOff = TRUE
  MaxReconnections = 1
  MaxChunkRetries = 1
  MaxReprobeRetries = 1
  MaxRootRetries = 2
  BudgetMax = 3
  NonceBound = 3
  StuckRun = 4
  Regimes = {{"conn", "expiry", "dispatch", "lag", "null", "sibling", "reorg", "stuck"}, {"halt", "timeout", "null", "rpc", "auth", "gossip", "sibling"}, {"conn", "timeout", "gossip", "rotate"}}
  MaxForeign = 1
  MaxReorgs = 1
INVARIANTS OkMeansStored OkMeansRooted IntegrityHolds NoncesDistinct LostConnectionsExhausted
SYMMETRY Symmetry
