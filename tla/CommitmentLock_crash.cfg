SPECIFICATION Spec
CONSTANTS
  Procs = {p1, p2, p3}
  Attempts = 3
  WaitPolls = 1
  MaxCrashes = 2
  MidWrite = TRUE
INVARIANTS TypeOK ExclusiveUnlessOrphaned ReleasedUnlessOrphaned
PROPERTIES ReleasesOwnLock GivesUpBehindTheLiving
CHECK_DEADLOCK FALSE
