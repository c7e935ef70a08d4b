SPECIFICATION ServicesSpec
CONSTANTS
  Backends = {"b1", "b2"}
  OldValues <- TwoOldValues
  NewValue = "v3"
  WriteKinds = {"contenthash", "text", "texts", "pair", "resolver", "redirect"}
  WriteRegimes = {{"rerun"}, {"sibling"}, {"reorg"}, {"phone"}}
  MaxRuns = 2
  MaxTxAttempts = 2
  MaxContention = 1
  MaxReads = 2
  MaxRearms = 1
  MaxSiblingTxs = 1
  MaxWriteReorgs = 1
  Deployers = {"da", "db"}
  Nobody = "nobody"
  Worker = "worker"
  Rival = "rival"
  FlowStarts <- FlowSet
  MaxDeployRuns = 2
  Signers = {"x", "y"}
  Alice = "alice"
  Bob = "bob"
  Floor <- SomeFloor
  TopUp <- SomeTopUp
  SourceBuffer = 2
  Fee = 1
  FundingStarts <- FundingSet
  MaxTopUps = 2
  MaxFundReorgs = 1
  PoolAccounts = {"p1", "p2"}
  SlotAccount = "slot"
  OwnAccount = "own"
  NodeSet = {"n1", "n2"}
  NoAccount = "no account"
  StorageStarts <- StorageSet
  GapLimit = 1
  ConfirmReads = 2
  SlotTries = 2
  AuthPeriod = 3
  MaxBlock = 2
  MaxNonce = 3
  MaxConnects = 2
  Commands = {"c1", "c2"}
  SssAccounts = {"s1", "s2"}
  NoSession = "no session"
  Grace = 1
  LastDay = 2
  MaxCommands = 4
  ClaimAmount = 3
  AliasFees = {0, 2}
  WeightFee = 1
  DayLength = 2
  ProofValidity = 1
  RootWindow = 1
  PersonStarts <- PersonSet
  MaxMoment = 2
  MaxRing = 2
  MaxPersonRuns = 2
  MaxPersonReorgs = 1
  Publishers = {"pa", "pb"}
  ExecKinds <- TwoExecutables
  Unpublished = "unpublished"
  PublishStarts <- PublishSet
  MaxPublishes = 2
  Fetchers = {"ma", "mb", "mc"}
  NoDeploy = "no deploy"
  ManifestStarts <- ManifestSet
  Ladder = 2
  Connections = {"ca", "cb"}
  OwnTld = "paseo"
  DefaultTld = "dot"
  ConnectStarts <- ConnectSet
  MaxAddressReads = 2
  MaxUpgrades = 2
INVARIANTS ServiceTypes SuccessWasOnChain NoLateOverwrite HandedToRegistrant HandedOverWithContent GrantedMeansFunded NoSignerDrift ClaimedCoversFee ExecutableIsWhole FoundWasStored ConclusionsHold
PROPERTIES RefusedForCause MarkerHitIsPresent
CHECK_DEADLOCK FALSE
