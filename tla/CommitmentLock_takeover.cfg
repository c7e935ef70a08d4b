SPECIFICATION Spec
CONSTANTS
  Procs = {p1, p2, p3, p4}
  Attempts = 3
  WaitPolls = 0
  MaxCrashes = 0
  MidWrite = FALSE
INVARIANTS MutualExclusion
CHECK_DEADLOCK FALSE
