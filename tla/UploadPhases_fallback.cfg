SPECIFICATION Spec
CONSTANTS
  Stable = {s1}
  Volatile = {v1}
  Root = root
  MaxRounds = 2
  MaxDeploys = 1
  MaxReorgs = 0
  Regimes = {{"fallback"}}
INVARIANTS FinalisedMeansSealed
CHECK_DEADLOCK FALSE
