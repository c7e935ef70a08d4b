SPECIFICATION Spec
CONSTANTS
  Procs = {p1, p2}
  None = None
  Unusable = Unusable
  MaxCrashes = 1
  Regimes = {{"rpc", "lost", "expiry", "norevive", "reprice", "old", "disk"}, {"rpc", "bare", "unlocked"}, {"expiry", "rival"}}
INVARIANTS ReturnsRegistered TwoRegisterTries
PROPERTIES DiscardsOnlyTheDead EveryRunEnds
CHECK_DEADLOCK FALSE
