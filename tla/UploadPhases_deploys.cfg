SPECIFICATION FairSpec
CONSTANTS
  Stable = {s1, s2}
  Volatile = {v1}
  Root = root
  MaxRounds = 2
  MaxDeploys = 2
  MaxReorgs = 1
  Regimes = {{"halt", "reconnect", "lost"}, {"null", "reorg"}, {"fallback", "nofetch", "upload"}, {"lag"}}
INVARIANTS TypeOK SeenUnlessUnread SealedUnlessFallback ManifestWasStored
PROPERTIES Termination
CHECK_DEADLOCK FALSE
