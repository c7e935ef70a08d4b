SPECIFICATION Spec
CONSTANTS
  Stable = {s1}
  Volatile = {v1}
  Root = root
  MaxRounds = 2
  MaxDeploys = 2
  MaxReorgs = 0
  Regimes = {{"halt"}}
INVARIANTS EvictedIsCaught
CHECK_DEADLOCK FALSE
