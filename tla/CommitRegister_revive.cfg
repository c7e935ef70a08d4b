SPECIFICATION Spec
CONSTANTS
  Procs = {p1, p2}
  None = None
  Unusable = Unusable
  MaxCrashes = 1
  Regimes = {{"bare", "expiry"}}
INVARIANTS SecretOnDisk
CHECK_DEADLOCK FALSE
