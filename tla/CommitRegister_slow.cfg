SPECIFICATION Spec
CONSTANTS
  Procs = {p1, p2, p3}
  None = None
  Unusable = Unusable
  MaxCrashes = 2
  Regimes = {{}, {"lost", "expiry", "norevive", "stalled", "impatient", "rival"}}
INVARIANTS TypeOK SecretOnDisk
PROPERTIES RefinesNameRegistration EventuallyRegistered
CHECK_DEADLOCK FALSE
