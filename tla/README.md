# Verification of polkadot-app-deploy

`polkadot-app-deploy` is a TypeScript command-line tool. It stores a static site on
the Bulletin chain, chunk by chunk, and points a `.dot` name at it through the DotNS
contracts on the Asset Hub. This directory holds TLA+ models of its core, the TLC
configurations that check them on small instances, and theorems that TLAPS proves for
every instance. Paths below are relative to the repository's root; `deploy.ts:2978` is
`src/deploy.ts`, line 2978.

Contents: 1 the system, 2 what is modelled, 3 the runs, 4 fairness, 5 where the code and
its comments disagree, 6 the proofs, 7 what is not modelled, 8 the plan.

## 1. The system

### Components, their state and their operations

| component | source | state it keeps | operations |
|---|---|---|---|
| Deploy orchestration | `deploy.ts` `deploy()`, `deploy-actors.ts` | opened clients, `registeredFresh` | choose signers, preflight, store, DotNS phase, hand the name over, verify, close |
| Incremental upload and finality gate | `deploy.ts` `storeDirectoryV2`, `chunk-probe.ts` | trust sets, missing and lagging sets, the manifest embedded in the site | phase A, phase B, finalised probe, waits, re-upload rounds, root check |
| Chunk and root upload | `deploy.ts` `storeChunkedContent`, `storeChunk`, `watchTransaction` | nonces, `stored[]`, provisional indices, reconnect and recovery counters, the provider | preflight, seed, batches, retries, verify rounds, root store, hand-off |
| Name registration | `dotns.ts` `commitAndRegister` and its helpers | the active commitment, the record file, chain state | resume, commit, wait, register, revive, retry |
| Commitment lock | `run-state.ts` | one lock file per name and owner | try, poll, take over, release |
| DotNS transaction submission | `dotns.ts` `signAndSubmitExtrinsic`, the record writes | subscription, poller, baseline nonce | pre-check, sign, watch, poll, retry, contend, read back |
| DotNS connection | `dotns.ts` `connect`, `dotns-protocol.ts` | TLD memo, protocol profile, encoding of `setSubnodeOwner` | read the address, resolve the TLD, probe, classify, map |
| Signer funding | `dotns.ts` `maybeTopUpToFloor`, `attemptTestnetTopUp` | balances on the chain | gate, top up, map the account |
| Storage account | `pool.ts`, `storage-signer.ts`, `deploy.ts` `selectStorageReconnect` | the slot-or-pool choice, authorisations | draw, judge the queue, authorise, reconnect, bootstrap |
| Session and its allowances | `commands/login.ts`, `commands/logout.ts`, `sss-allowance*.ts`, `auth*` | session file, slot keys, allowance marker | log in, allocate, check, cache, log out |
| Name transfer | `commands/transfer.ts` | none | hand a name from the worker to the session's account |
| Manifest publishing | `manifest/publish.ts`, `manifest/product-preflight.ts` | build directory, records on chain | preflight, store icon and executables, write the records |
| Embedded manifest | `manifest-fetch.ts`, `manifest-embed.ts`, `manifest.ts` | the two files of the cache entry | fetch by tiers, embed, store, cache |
| Personhood | `personhood/*` | chain state only | probe, bind id, claim PGAS, bind alias, re-prove |
| Run state | `run-state.ts`, `memory-report.ts` | run-state file | heartbeat, stale-run diagnosis |
| Merkleization | `merkle.ts`, `chunker.ts` | none | stable-order CAR |
| Manifest schema, environments, telemetry, command line, CI tooling | see `PROJECT.json` | none that matters to a deploy | |

### How they interact

`deploy()` opens a storage client, calls `storeDirectoryV2`, which calls
`storeChunkedContent` twice and hands the live client from call to call, and then runs the
DotNS phase on a second client; `commitAndRegister` runs there. The parts share no memory
with another process, but several processes meet in these places:

- the *storage account*: pool accounts are shared by every user of the pool, so sibling
  deploys sign with the same nonces;
- the *commitment files* below the state directory: two deploys of one name on one machine
  share the record and the lock;
- the *session files*: login, logout and deploys of one machine share the session, the slot
  keys and the allowance marker;
- the *build directory and the manifest cache*: deploys of one project share both, unlocked;
- the *worker account*: without a mnemonic every deployer of a network signs DotNS calls as
  one public account, so names, nonces and balances of it are common to all;
- the *chain*: rivals register names, oracles change prices, content is evicted, contracts
  are upgraded.

Within a process everything runs on one event loop: what can interleave is what happens
between two awaits. The WebSocket's status handler (`deploy.ts:217`) is the only callback
that changes state behind an await.

### What is hard

- **Ordering and staleness**: nonces read from load-balanced backends that lag, hold a
  queue nobody else has, or do not gossip; a finalised head read before a query; trust in
  chunks carried over from the previous deploy.
- **Ambiguous failures**: a watch that times out, a rejected transaction, a lost
  connection all leave open whether the transaction lands.
- **Crashes**: a commitment is paid for before its secret is used, so the secret must
  survive the process; a lock must not survive its holder.
- **Nested retries**: reconnects, batches, chunk retries, verify rounds and root retries
  share budgets.
- **File races**: every file-system call of the lock protocol can interleave with another
  process's; so can those of the caches and of the build directory, which have no lock.
- **Shared signers**: an advanced nonce, a name that the worker owns, a balance that has
  grown may each be the doing of a sibling.
- **Conclusions from several reads**: the protocol profile, the stuck-queue verdict, the
  bootstrap's next step and the allowance marker each rest on reads of different moments.

`PROJECT.json` lists these hazards at their lines, with the properties that cover them or
why none does yet.

### What makes each modelled component correct

- *Upload*: a call that returns has evidence on the chain for every chunk it vouches for,
  and stored its root; no chunk is passed over; no nonce is assigned twice or to the wrong
  account; a collision with a sibling is survived; the provider handed back is live; the
  call ends.
- *Phases and gate*: a deploy that succeeds saw every item it publishes; what it calls
  finalised is final; a manifest only vouches for what was stored.
- *Registration*: while the name is free an open commitment always has its secret on
  disk, and there is at most one; a secret is thrown away only when it is useless; a
  return means the name is ours; crashes alone do not prevent registration.
- *Lock*: as long as no process ends while its lock is in sight of another, mutual exclusion, a
  release that hits only its own lock, no lock left behind; in any case, no giving up behind
  the dead.
- *Record writes*: a success means the record took the value; an abandoned attempt never
  overwrites a later one.
- *Deploy flow*: a deploy hands a name only to a deployer who was registering it when it was
  registered; it never shows content that is not stored.
- *Funding*: a deploy let through is funded and mapped on the finalised chain.
- *Storage account*: no drift back from the pool to the slot, no pool on mainnet, no refusal
  without a cause.
- *Session*: a skipped chain read would have said yes.
- *Personhood*: a bootstrap that has claimed can pay for its alias and for the transaction that
  binds it, if a claim can.
- *Manifests*: an executable is one publisher's, wholly; a manifest found is one of a
  deploy that was stored.
- *Connection*: what is concluded of the contracts was true of them.

## 2. What is modelled

| module | models | composes with |
|---|---|---|
| `ChunkUpload` | one call of `storeChunkedContent` against the chain, pools and socket | |
| `MCChunkUpload` | symmetry of the accounts, for TLC | `ChunkUpload` |
| `ChunkUpload_proofs` | theorems about it | `ChunkUpload` |
| `UploadPhases` | `storeDirectoryV2` over a sequence of deploys, with the finality gate | uses the contract of `ChunkUpload` |
| `UploadPhases_proofs` | theorems about it | `UploadPhases` |
| `CommitmentLock` | the lock protocol, one step per file-system call | |
| `CommitmentLock_proofs` | theorems about it | `CommitmentLock` |
| `CommitRegister` | `commitAndRegister` by several processes sharing files and chain | uses the lock as a whole |
| `NameLock` | what the lock around `commitAndRegister` promises | refined by `CommitmentLock` and by `CommitRegister` |
| `NameRegistration` | what registration promises | refined by `CommitRegister` |
| `CommitRegister_proofs` | theorems about it, and that it refines `NameRegistration` | `CommitRegister` |
| `RecordWrite` | one record write from its pre-check to its read-back, down to `signAndSubmitExtrinsic` | |
| `DeployFlow` | `deploy()` and the `transfer` command, by several deployers of a name | takes storage, registration and writes as one step each |
| `DeployFlow_proofs` | theorems about it | `DeployFlow` |
| `SignerFunding` | account mapping, fee gates, top-ups | |
| `StorageAccess` | the storage provider, its fallback, the pool's queue check, `bootstrapPool` | |
| `SessionAllowance` | login, logout, deploy and the session's files | |
| `Personhood` | `runBootstrap` and `reprove` against two chains | |
| `ManifestPublish` | `publishManifest` with its preflight, by two publishers | |
| `ManifestPublish_proofs` | theorems about it | `ManifestPublish` |
| `PreviousManifest` | the search for the previous manifest, and the leaving of the next | |
| `PreviousManifest_proofs` | theorems about it | `PreviousManifest` |
| `ProtocolConnect` | what `connect` finds out about the contracts | |
| `Services_proofs` | theorems about six of the nine: writes, funding, storage account, session, personhood, connection; and about their composition | `MCServices` and the proofs of the other three |
| `MCServices` | the nine modules of the services, for TLC | all nine |

The correspondence definition by definition is the `map` of `PROJECT.json`. In outline:

**`ChunkUpload`.** A step is the code between two awaits; `pc` names the await. `Preflight`
is 1411-1460, `Seed` reads the first nonce and assigns dense nonces (1532-1660),
`SubmitBatch`, `BatchSettled`, `BatchReconnect` are the batch loop (1698-1781),
`TakeFailure` to `AttemptsFail` the per-chunk retry with its reconciliation (1783-1918),
`VerifyProbe`, `Reprobe`, `Gap`, `Reupload*` the verify rounds (1933-2001), `Root*` the root
store (2005-2099) and `Return` the hand-off (2108-2124). `Watch` is `watchTransaction`: a
transaction settles in a best block, by rejection, by time-out, or with the connection. The
environment includes, fails, expires and reorganises transactions, lets a sibling send, and
halts the socket. Chunks are numbers; a probe is a nondeterministic answer that may only say
"present" of what is on the best chain. `stored[]`, `nonceAdvanceIndices`, `assignedNonces`,
`batchSize` (1 or 2), `reconnectionsUsed` and the recovery history keep their roles; the
sliding window of the history is taken at its worst (no event ages out).

**`UploadPhases`.** `Start` ages the chain between deploys (what was on the best chain has
finalised, anything may have been evicted), picks the next version of the site and the trust
set. `PhaseA` and `PhaseB` take the call to `storeChunkedContent` as one step: it throws, or
every item has been seen on chain, which is what `OkMeansStored` and `OkMeansRooted` of
`ChunkUpload` say. `Gate` to `RootCheck` are the GRANDPA phase (2957-3124, 3222-3257).
`FinalProbe` keeps the fall-back of chunk-probe.ts:198 to the best chain.

**`CommitmentLock`.** Create-exclusive, write, read (`readFileSync`), stat, the look-up of the pid
(`Judge`), rename, check, put back and unlink are steps, so the verdict on a lock is on a text that
was read before: its process may have released it and exited since. A token names both the
owner and the inode it may create. The history variable `orphaned` becomes true when a process
ends, by a kill or at the end of its deploy, while its lock file is at the path or has been read by a
process that has not looked the pid up yet (`InSight`). No guard reads it.

**`CommitRegister`.** A secret is named after the process that generated it; a commitment's
age is a class (absent, young, mature, expired). A submission is one send and one settle.
The lock is what `CommitmentLock` establishes without a takeover race, or absent in the
regime `unlocked`. `RefinesNameRegistration` maps the record file to the kept secret and
the pending or valid commitments to the open ones.

**`RecordWrite`.** The signer's transactions are a sequence whose positions are the nonces; a
backend sees a prefix, and the deployer reads through one of them. `PreCheck` is the skip of a
value that is already there, `Prepare` the dry run and the baseline nonce (2530-2617), `Sign` the
signature with the nonce of the connected backend. `WatchFinal` and `WatchBest` are the
subscription (2406-2431), `PollAdvanced`, `PollBest` and `PollGivesUp` the poller beside it
(2338-2404), `Reacquire` the contention loop (966-1028), `MayRetry` the classification of
errors (514-533), `PhoneSilent` the phone's re-arming (3896-3935), `ReadBack*` the reads
after it. A record `Policy` says in which of these the six writes of `dotns.ts` differ.
The environment includes a transaction, lets its dispatch fail, undoes a block, lets a
sibling take a nonce, and lets backends lag.

**`DeployFlow`.** `Preflight*` are the branches of `preflight` (5884-6148), `Reprove` its one
retry, `CheckOwnership` to `HandoverFails` the DotNS phase (`deploy.ts:4387-4516`), `DeployAgain` a
re-run of any deploy that ended, `RunTransfer` the transfer command. An ownership read that
fails reads as "nobody's", as in the code. Storage and a link are one step each, which succeeds,
fails, or succeeds although it is reported as failed ("lost"). `register()` is the availability
check (`EnsureNotRegistered`) and, later, the end of `commitAndRegister`: the name was free and is
registered now (`Register`), or it is the signer's by then because a sibling signing as the same
account registered it (`RegisteredBySibling`; 5537, 5762, and the read-back at 5410 and 5868), which counts as
freshly registered too (`deploy.ts:4472`). The history variable `registrants` holds the deployers who
were committing to the name as that account when it was registered.

**`SignerFunding`.** Balances are kept at the best and at the finalised block. `Gate` is the floor
check, `SkipSource` and `SendTopUp` the choice between the two dev accounts (3508-3583),
`TopUpFinal` and `TopUpFails` the end of its watch, `MapAccount` and `MapExplicitly` the two ways
an account gets mapped (3245-3348).

**`StorageAccess`.** `ConnectSlot` to `ConnectPool` are the four providers (`deploy.ts:936-1033`),
`ReadOnchain`, `Sample`, `Judge`, `Confirm` and `Stuck` are `checkPoolAccountNonceHealth` and what is
made of it (`pool.ts:420-576`), `StartBoot` to `EndBoot` are `bootstrapPool`. Each sample is
answered by another backend; a backend may be shut, that is, keep its queue to itself.

**`SessionAllowance`.** Processes run login, logout or the part of deploy that touches the
session; every read or write of a file is a step. Days are the periods of the allowance.

**`Personhood`.** A proof is what it was built from: version of the ring's keys on People,
revision of the root on Asset Hub, time. `Applies` says when a transaction's call succeeds. A
transaction that is signed is included, and pays for its weight, also when its call fails; the
alias pays its weight in PGAS (`bind-paid-alias.ts:351`), and so may a deploy of the account meanwhile
(`deploy.ts:4420`). The alias fee is storage that changes. Transactions of a run that was killed stay in
the pool of the next. `NextBootstrapStep` is linear as `runBootstrap` is: no step is asked for again.

**`ManifestPublish`.** One step per store, record write or batch of record writes
(`publish.ts:116-246`), for two publishers that share the build directory, the name and the
signer. An archive records whose App manifest was in the directory when it was built.

**`PreviousManifest`.** `ReadCache`, `AskChain`, `TryRange` and `FallsBack` are the tiers
(`manifest-fetch.ts:126-677`), `EmbedManifest` and `StoreTree` the two writes that make the next
manifest, `WriteCid` and `WriteJson` the two files of the cache entry.

**`ProtocolConnect`.** A generation of the contracts is what their calls answer; an upgrade
replaces one of them between any two reads. `ReadTld` and `VerifyTld` are the resolution of the TLD
with its process-wide memo (3013-3043), `Probe` one of the four parallel probes (3706-3728),
`Classify` their classification against the pin, `NewerLeg` and `OlderLeg` the encoding probe
(4140-4271). Connections of a process follow one another.

**`MCServices`.** The nine modules are composed as alternatives: a variable `part` says which
of them a behaviour is of, and the others stay where they begin. The code changes no piece of
state in two of these parts, so their product would add nothing but interleavings of
steps that commute; where two of them meet (a deploy links a name, a write sets a record),
one takes the other as a step. `PartsBehave` proves that a part does in it exactly what its
module says.

**Regimes.** The modules of upload, phases and registration have a set `FaultKinds`, and a
behaviour chooses one member of the constant `Regimes` at its start (`RecordWrite` has
`WriteFaults` and `WriteRegimes`, `DeployFlow` the field `faults` of a start): the kinds of fault it may meet. This keeps the state space of
a run near the sum of its regimes instead of their product, and lets a property say under
which faults it holds (`"fallback" \notin faults => ...`). The theorems hold for all regimes.

**Fault definitions.** Beside some actions stands a variant marked `Fault:`, which no
specification uses. It is what the action would be with a plausible bug, and documents that
the property it belongs to can fail.

## 3. The runs

| run | cfg | checks |
|---|---|---|
| `upload_connection` | `ChunkUpload_connection` | `TypeOK`, `HealthyHandoff`, `Termination`, `CollisionRecovery` |
| `upload_chain` | `ChunkUpload_chain` | `OkMeansStored`, `OkMeansRooted`, `IntegrityHolds`, `NoncesDistinct`, `LostConnectionsExhausted` |
| `upload_old_nonces` | `ChunkUpload_oldnonces` | violates `NoncesOfCurrentAccount` |
| `phases` | `UploadPhases_deploys` | `TypeOK`, `SeenUnlessUnread`, `SealedUnlessFallback`, `ManifestWasStored`, `Termination` |
| `phases_fallback` | `UploadPhases_fallback` | violates `FinalisedMeansSealed` |
| `phases_evicted` | `UploadPhases_evicted` | violates `EvictedIsCaught` |
| `lock` | `CommitmentLock_crash` | `TypeOK`, `ExclusiveUnlessOrphaned`, `ReleasedUnlessOrphaned`, `ReleasesOwnLock`, `GivesUpBehindTheLiving` |
| `lock_takeover` | `CommitmentLock_takeover` | violates `MutualExclusion` |
| `register` | `CommitRegister_slow` | `TypeOK`, `SecretOnDisk`, `RefinesNameRegistration`, `EventuallyRegistered` |
| `register_faulty` | `CommitRegister_faulty` | `ReturnsRegistered`, `TwoRegisterTries`, `DiscardsOnlyTheDead`, `EveryRunEnds` |
| `register_revive` | `CommitRegister_revive` | violates `SecretOnDisk` |
| `services` | `Services` | `ServiceTypes`, `SuccessWasOnChain`, `NoLateOverwrite`, `HandedToRegistrant`, `HandedOverWithContent`, `GrantedMeansFunded`, `NoSignerDrift`, `RefusedForCause`, `MarkerHitIsPresent`, `ClaimedCoversFee`, `ExecutableIsWhole`, `FoundWasStored`, `ConclusionsHold` |

What they show, and why the bounds are enough:

- **Uploads**: two chunks and the root are the smallest instance in which a batch has a
  neighbour that succeeds while one fails, a nonce can be taken by the other chunk, and the
  root comes after an unsettled chunk. One chunk is a skip candidate and one had a failed
  probe, so that both paths run. Retry limits are 1 or 2 where the code has 3 to 5: each
  loop is entered, repeated once where the limit is 2, and exhausted. `NonceBound` stands for
  `STUCK_NONCE_GAP_THRESHOLD` (8): at 3 it admits every nonce the call itself can have in
  flight, and a stuck backend's run of 4 is just beyond it. A sibling sends one
  transaction, or two in the run that checks `CollisionRecovery`; one block is lost.
  `upload_connection` has one account; `upload_chain` has two, interchangeable, and checks
  no temporal property, so symmetry is sound.
- **Phases**: two deploys with two stable chunks allow a chunk that is trusted, one that is
  new, one that is evicted in between and one that the second version drops. Two re-upload
  rounds (the code has three) allow a repeated and a last one.
- **Lock**: three processes of which two may be killed, each of which exits when it is done; three
  attempts per call, as in the code, and one poll. The takeover race needs a fourth process, hence the
  second configuration, in which nobody is killed: one holder's exit is enough. Deadlock is not
  checked since all processes may have ended.
- **Registration**: the refinement is checked with three processes of which two die at any
  step; the second run has two processes under eleven kinds of failure in three regimes.
  Deadlock is not checked since all processes may have ended.
- **Record writes**: a record that was written twice before, so that an old version can equal
  the value being written; two backends, one of which may be behind; two runs, two attempts,
  one contention slot, one re-arming, one sibling's transaction or one lost block. Two reads of
  the read-back (the code has three) are a rotating one and a last one.
- **Deploy flow**: two deployers of one name, who share the worker, or one of whom signs by
  phone or with a mnemonic; a name or a subname, free, the worker's or a deployer's; two runs
  each. Two fault sets: failed steps with failed reads, and failed steps with a rival and
  lost answers.
- **Funding**: two signers who draw on the same two sources, the first of which can spare a
  small top-up once and the second either; two top-ups and one lost block.
- **Storage account**: two pool accounts and two backends, a stuck queue, a busy one, an
  account whose authorisation runs out, and the slot becoming unusable between two connects.
  `GapLimit` is 1 where the code has 8: the verdict compares distances only.
- **Session**: two processes at a time, four commands in all, three days, two accounts.
- **Personhood**: two runs, two versions of the ring, two days, one lost block. `RootWindow` is
  1, so that a proof over an old root is refused. The alias fee is 2 or unset, the weight of a
  transaction costs 1 and a claim brings 3, which is just enough for both; an account begins with
  nothing and may deploy meanwhile, or with just the alias fee.
- **Manifests**: two publishers, an App and a Worker, two runs each; three deploys on one
  machine, which is what it takes to find the entry two others have torn.
- **Connection**: two connections in a process, two upgrades; an upgrade between two probes and
  one more between the probes and the encoding.
- **Services and deadlock**: every part ends; deadlock is not checked.
- **Phases and deadlock**: after the last deploy nothing is left to do, so deadlock is not
  checked there. In `ChunkUpload` the end of a call is a self-loop and deadlock is checked.

Constants that bound the model only: `MaxForeign`, `MaxReorgs`, `MaxDeploys`, `MaxCrashes`,
`Regimes`, `StuckRun`; in the services `MaxRuns`, `MaxSiblingTxs`, `MaxWriteReorgs`, `WriteRegimes`,
`MaxDeployRuns`, `MaxTopUps`, `MaxFundReorgs`, `MaxBlock`, `MaxNonce`, `MaxConnects`, `LastDay`,
`MaxCommands`, `MaxMoment`, `MaxRing`, `MaxPersonRuns`, `MaxPersonReorgs`, `MaxPublishes`,
`MaxUpgrades` and the sets of starts (`FlowStarts` and its likes), which hold the environments and
options a behaviour may begin with.

## 4. Fairness

- `ChunkUpload`: weak fairness of the event loop (`Process`), of watches (`watchTransaction`
  arms a timer at 1053, so one always settles) and of block production for each pending
  transaction. Nothing is assumed of faults, the sibling or the socket.
- `UploadPhases`: weak fairness of `Work`. Each wait is bounded by the clock
  (`deploy.ts:307`), which is what makes `WaitEnds`, `PollEnds` and `LagWaitEnds` happen. The
  chain need not finalise anything.
- `CommitmentLock`: weak fairness of each process that was not killed; polls sleep for a
  fixed time.
- `CommitRegister`: the same, and weak fairness of inclusion and of the chain's clock
  (`Ripen`), which the regimes `lost` and `stalled` take back.
- The services have no fairness: their properties are invariants and action properties.

## 5. Where the code and its comments disagree

Five runs end in a counterexample; `PROJECT.json` states each as a finding.

1. `upload_old_nonces`: a chunk retry that reconnects onto another pool account goes on with
   the nonces assigned for the old one. The rebase at `deploy.ts:1823` that should prevent it
   cannot be reached (`LostConnectionsExhausted`).
2. `phases_fallback`: a failure to read the finalised head other than a time-out makes the
   probe answer for the best chain, which the comment above it rules out.
3. `phases_evicted`: a chunk that is trusted but was evicted passes the gate when its
   finalised probe gives no answer. After a halted socket no probe gives one, so the gate then
   checks nothing, and the deploy goes on with a log line.
4. `lock_takeover`: a takeover can move a fresh lock away for a moment, in which a third
   process creates its own. It takes no crash: a process that releases its lock and exits after a
   rival has read the file and before the rival looks the pid up is as good as dead to the rival,
   who then renames whichever lock has come to the path since.
5. `register_revive`: a bare revert while an expired commitment is revived removes the
   record, and the retry above it commits the same hash again without one.

Smaller observations that no property states:

- In the gate, a chunk re-uploaded in round 1 that is on the best chain but not final is
  uploaded again in round 2, although the comment at `deploy.ts:3002` calls that harmful; and
  after the last round the deploy fails although the content is on the best chain.
- The last reconnect of `storeChunkedContent` after a halt (`deploy.ts:2117`) hands the client
  over to the caller, which closes it in its `finally`.
- A process that loses the race for a stale lock on all attempts runs without a lock; a lock
  moved away during its holder's release is put back and stays until its holder's process
  ends; and a release can unlink a lock that came to the path between its read and its unlink.
  The last two need a takeover, so a process that ended with its lock in sight (`~orphaned` in
  `ReleasedUnlessOrphaned` and `ReleasesOwnLock`; TLC violates both without it).
- The 48 h sweep goes by the time a record was first saved, so it removes the record of a
  commitment that was committed again since.
- A deploy that finds the name registered by a sibling leaves a crashed sibling's record on
  disk until the sweep.
- `chunk-probe.ts:137` marks the cross-validation as done before it has succeeded.
- A contenthash that reads as the target is not written (`dotns.ts:4732`). The read may come from
  a lagging backend, so a roll-back to an earlier version can be skipped and reported as done.
- `register()` also returns when a sibling that signs as the same worker registered the name, and
  `deploy.ts:4472` counts that as fresh: of two deployers who register a name at once in transfer mode,
  either can hand it to themselves, whoever's transaction made it, although the comment at
  `deploy.ts:4484` says that only a name "THIS run freshly registered" is handed over. The other
  deploy ends refused.
- With reads that fail, a name the worker has owned all along can pass for free in
  `checkOwnership` and in `register()`, be found the worker's by the check under the lock, and be handed over as
  fresh. `HandedToRegistrant` states the exception; TLC finds the trace without it.
- A freshly registered subname is never handed over: `transferName` validates its dotted path as
  a label and refuses it, so the deploy ends refused and the `transfer` command is needed.
- `checkSubdomainOwnership` reads a failed call as unowned; the deploy then registers the subname,
  and `setSubnodeOwner`, which asks only for the parent, replaces its owner.
- A top-up counts when its transfer is final; the balance is not read again. `GrantedMeansFunded`
  holds for signers whose account nobody else spends from, and fails for the shared worker.
- `runBootstrap` claims when the balance is below the alias fee (`bootstrap.ts:374`) and `bindPaidAlias` asks for
  that fee only (`bind-paid-alias.ts:248`), while the transaction pays its weight in PGAS as well. An account
  with just the fee sends an alias whose call fails in the block and loses the weight's
  price; it claims then, in the next run.
- An account whose remaining PGAS is below the fee although today's claim was made cannot bind
  its alias until the next day; `runBootstrap` ends in an error then, not in "wait".
- The allowance marker takes its period from the clock at the time of the write: when midnight
  falls between the read and the write it vouches for a day too many, although the comment at
  `sss-allowance-cache.ts:16` rules over-estimates out. `MarkerHitIsPresent` states the exception.
- The two files of a manifest cache entry can belong to two deploys. What is found is still
  a stored deploy's manifest (`FoundWasStored`), unless two deploys share a build directory.
- Two publishers who share a build directory can each store an executable with the other's App
  manifest inside: the check between deploy and publish looks once, before the archives of
  the other executables are built. `ExecutableIsWhole` speaks of whose archive a subname shows, not
  of what is embedded in it.
- The memo of the TLD check is keyed by registry and TLD and lives as long as the process: an
  upgrade that renames the TLD in between goes unseen.

## 6. The proofs

Most theorems are invariance proofs: typing first, then one inductive invariant, with one step
per action and one below it per conjunct the action disturbs. Five are about steps
(`ReleasesOwnLock`, `GivesUpBehindTheLiving`, `DiscardsOnlyTheDead`, `RefusedForCause`,
`MarkerHitIsPresent`), four bound the steps of a process (`NoLoopWithoutEnd`,
`NoEndlessRounds`, `NoEndlessContention`, `NoRunGoesRound`), and three are refinements
(`ImplementsNameRegistration`, and `ImplementsNameLock` in two modules). TLC checked every
inductive invariant on a small instance before it was proved. The assumptions are the
modules' named assumptions on their constants, and what a theorem states as its own
hypothesis: `TrustedAssumption` for uploads (a trusted CID is on chain when the call
starts; see finding 3 for where the caller stretches it), the faults a theorem on a
finding excludes, the number of processes at the lock, and the regimes of a registration.

**Steps that lead on.** Termination rests on fairness and ENABLED, which stay with TLC, but
the half of it that says no loop goes round for ever is a safety property. Each of the four
theorems gives a tuple of naturals, `WorkLeft`, ordered lexicographically, which every step
of a process makes smaller and no step of its environment, or of another process, makes
larger. For an upload it nests the budgets as the code does: stages of the call first, then
reconnections, passes of the verify rounds or the root's attempts, the phase within a pass,
the chunks left to retry, the attempts of one chunk, and the steps of one attempt. The
order has no infinite descent (`SmallerWellFounded`, from the library's theorem on
lexicographic orders), so a call takes finitely many steps whatever fails; what TLC adds is
that it does not stop before its end.

**What the findings need.** The properties that the findings' runs refute are theorems where the
faults in question cannot occur, which says what leads to them:
- `NoncesOfCurrentAccountIf` (finding 1): the nonces are those of the current account if
  the pool never hands out another one, or if no connection is lost before the root.
- `SealedUnlessFallbackHolds` (finding 2): a success is final unless the finalised head could
  not be read.
- `EvictedIsCaughtIfAnswered` (finding 3): the gate catches what was evicted if every probe is
  answered, no socket halts and no block is lost. `PublishesOnlyWhatIsThere` says the same of all
  a deploy publishes. TLC finds each of the three faults alone to break it.
- `ExclusiveUnlessOrphanedHolds` (finding 4): the lock excludes until a process ends with its lock in
  sight of another.
- `SecretSurvives` (finding 5): the secret stays on disk if a revert always says why while
  commitments may expire (`RevivesAlone`) and the files and reads work (`FilesWork`).

Why the assumptions on constants are justified: a limit is at least 1 where the code enters
the loop at all; the slot key is derived from the login session, so it is no account of the pool
(`StorageAssumption`); a top-up reaches the floor it is for (`FundingAssumption`); `None` marks a transaction that writes no record, so it is no
value of one (`WriteAssumption`). The bounds of section 3 are constants like any other, so the
theorems hold whatever they are.

- **`ChunkUpload_proofs`**: `OkMeansStored` is not inductive: it speaks of the end of a call,
  while a chunk may be recorded early on a consumed nonce. `UploadInv` adds *evidence* (a
  chunk recorded without being provisional, or whose watch succeeded, was on chain), *coverage*
  (behind the cursor every chunk has a record, and one without is still in the work list)
  and *verification* (a provisional chunk that left the verify rounds was seen by a probe). From it follow
  `OkMeansStored`, `OkMeansRooted` and `IntegrityHolds`, for every number of chunks, accounts,
  retry limits and every regime. Three more theorems have invariants of their own.
  `NoncesDistinct` is inductive with typing alone: every step assigns all nonces anew and densely
  (`DenseNoncesDistinct`), or keeps those of the chunks it leaves to be submitted (`NoncesOfStep`).
  `LostConnectionsExhausted`: `RetryInv` says that a chunk reaches the retry with a lost connection
  only if the batch loop had no reconnection left, and reconnections are never given back.
  `HealthyHandoff`: only a reconnect that throws leaves a call with a dead provider and
  reconnections to spend; `SeveredInv` says that such a call still has work that needs the
  provider, and `AnswersInv` that a verify round does not end on answers it did not get.
  `AccountInv` carries `NoncesOfCurrentAccountIf`. It has a part for each way out: without rotation
  the nonces' account is the call's until its end; without lost connections it is until the
  root, the provider stays live and no watch ends with a lost connection.
- **`CommitRegister_proofs`**: `TypeOK`, `TwoRegisterTries` (a stage moves on with each try) and
  `ReturnsRegistered` (a registration under way is pending, failed or in, and the name once ours
  stays ours) hold in every regime, for any number of processes and crashes. Two properties do not, and the
  theorems name what they need:
  - `DiscardsOnlyTheDead` under `RevivesAlone`: where a controller revives expired commitments, a
    dry run says why it reverts, and processes lock. `DeadInv` adds that who is between lock and
    release holds the lock, that only faults expire a commitment, and that a process that saw
    a revert on an expired commitment has no transaction left that revives it.
  - `SecretOnDisk` and the refinement `RefinesNameRegistration` under `FilesWork`: no regime has
    failing reads of the chain (`rpc`), no lock (`unlocked`), a disk that cannot be written (`disk`),
    a price that changes (`reprice`) or a record past its age (`old`). `KeptInv` says that who works on a
    commitment has its secret on disk, unless it expired for good, and that a new secret is
    made only when there is none. `FilesWork` together with `RevivesAlone` leaves crashes at any step,
    lost and late transactions, a chain that stalls, rivals and expiry.

  TLC shows that no hypothesis can be dropped: with three processes, two crashes and lost
  transactions, each of the five faults alone breaks `SecretOnDisk`; expiry with `unlocked` or with
  `bare` breaks `DiscardsOnlyTheDead` (finding 5 is what the second leads to).
- **`CommitmentLock_proofs`**: as long as no lock was orphaned, the file is always that of the
  process which is between its create and its unlink, the text a process holds of a lock is
  of one that is alive, and no process has judged a lock stale (`LockInv`). Without the second part the
  third is not inductive: the verdict comes after the read. A process that ends either leaves
  nothing in sight, so that both parts survive, or sets `orphaned`, which stays
  (`OrphanedStaysOrphaned`). `ExclusiveUnlessOrphaned`, `ReleasedUnlessOrphaned` and the action
  property `ReleasesOwnLock` follow for any number of processes, kills, attempts and polls; a kill
  between calls, or behind a lock nobody has read and a release has removed, does no harm. Whatever
  was orphaned, `GivesUpBehindTheLiving` holds: however lock files are moved and put back, each is its creator's,
  and a process that still competes has created none (`CreatorInv`), so the living owner a
  process gives up behind is another, which has run.

  A process whose attempts are used up registers without a lock (`NO_LOCK`, `run-state.ts:596`),
  so exclusion of the holders is not exclusion of `commitAndRegister`. `LossInv` counts: each
  attempt a process loses was lost to another process that has since gone past the lock. So
  `OneInsideHolds`, for up to `Attempts` + 1 processes, as long as no lock was orphaned. The bound is
  tight: TLC lets two of `Attempts` + 2 be inside with no lock orphaned. Under the same
  conditions `ImplementsNameLock` shows that the files implement `NameLock`. `CommitRegister` takes the
  lock in one step; its own `ImplementsNameLock` shows that it uses it as `NameLock` says, with
  crashes, wherever no regime has `unlocked`. The two meet in the abstract module: what
  `unlocked` adds to a registration is what the bound above leaves out.
- **`UploadPhases_proofs`**: `PhasesInv` says that from the gate on every item is seen, unread
  or missing; that what is neither unread, lagging nor missing is final unless the fallback
  answers; that nothing is missing past the rounds; that nothing lags before the gap probe;
  and that manifest and trust are backed by stored chunks. `SeenUnlessUnread`,
  `SealedUnlessFallback` and `ManifestWasStored` follow. `SeenStays` adds that under
  `ReadsAnswered` nothing stays unread and what was seen is on the chain until the deploy ends.
- **`ManifestPublish_proofs`**: `ExecutableIsWhole` looks only at what the name and its subnames
  show; why it holds is in the order of the steps before that. `PublishInv` adds that a publisher
  in the storing steps holds a stored archive of its own for every executable it has passed,
  that from the root record on it holds all of them and its icon, and that an executable
  counts as passed only once its resolver is set. A step of another publisher takes none of
  this away, because Bulletin only grows and a resolver is never unset. `ExecutableIsWholeHolds`
  follows for any number of publishers, executables and runs.
- **`DeployFlow_proofs`**: first every step of a deploy is shown to be one of seven effects (quiet,
  reproving, storing, linking, registering, adopting a sibling's registration, transferring). `FlowInv` then says what a deploy has
  done by the time it is where it is: not fresh before its registration, stored once past
  storage, and, in the handover, fresh, in transfer mode, with the name linked. A fresh deploy
  of a top-level name stays one of its registrants because the name is owned from then on, so no other
  deploy can register it; and unless reads fail, only a deploy that found it free gets as far as
  the commitment, so whoever finds it the worker's there was there when it was registered.
  `HandedToRegistrant` and `HandedOverWithContent` follow for any number
  of deployers and runs, and every combination of faults.
- **`PreviousManifest_proofs`**: the inductive part of `ManifestInv` holds while no deploys share a
  build directory: an archive embeds its own deploy's manifest, the directory holds it from the
  embedding to the second cache file, and both cache file and result name a stored deploy.
  That the `.cid` file and the `.json` file may be of different deploys does no harm, which is
  why the invariant says nothing about the pair. `FoundWasStored` follows for any number of
  deploys, gateways and ranges.
- **`Services_proofs`** has a section for each of six components.
  - *Funding*: the two sources serve every deploy, so what a deploy waits for has to be its own.
    `FundingInv`: a number is used by one transfer, a waiting deploy's transfer is its own and pending,
    in a block or final, and what is final has been credited.
  - *Personhood*: `ClaimedCoversFee` follows from what `PersonInv` keeps: a run's claim counts as done
    only when it is final and its call succeeded; a claim on the best or the final chain leaves
    at least its amount there unless something that pays in PGAS is on that chain too
    (`PersonBooks`); and what does is an earlier run's or a deploy's as long as the run has not sent its alias
    (`PersonSent`, `PersonOrder`). A reorganisation goes back to the final books, which have both. No
    relation between claim, fee and weight is assumed: the property states its own.
  - *Storage account*: `StorageInv` relates the mode of the provider to where the deploy began, and
    the samples of a queue to the nonce the account had when they were taken; `RefusedForCause`
    follows from the second, as an action property.
  - *Connection*: `ConnectInv` says of every answer a connection holds that some generation of the
    contracts since it began gives that answer, and of the memo that some generation did.
  - *Session*: `AllowanceInv` says that a marker lasts to the end of the day it was written on, and
    that the allowance was there on the day that was read. Grants are not taken back.
  - *Record writes*: a run reports success on weak evidence: an advanced nonce, which may be a
    sibling's, or a value read back from any backend. What makes it sound is `OrderInv`: without a
    reorganisation everything pending has the next nonce, whoever signed it, so when the nonce
    has advanced the others are void. `ReadHolds` says that a run that saw another value signs behind the
    version it saw, so that a value read back is not an earlier version with the same
    content; `HashHolds` that what a hash was seen of is final.

  The last section is about `MCServices`: a step of the composition is a step of one part and
  leaves the others (`PartsStep`), and every part begins as its module does (`PartsBegin`), so
  the composition implies the nine specifications (`PartsBehave`) and inherits their theorems.
  `ServiceTypesHold` is the one the run states of all parts at once.

  The models choose the largest position and the longest queue with `CHOOSE`. That such a
  number exists is proved from the well-foundedness of the naturals (`SmallestOf`, `LargestOf`),
  where one would otherwise use induction over the set.

Only model-checked: the liveness properties (`Termination` of uploads and phases,
`CollisionRecovery`, `EventuallyRegistered`, `EveryRunEnds`), which rest on fairness and ENABLED, out of the
prover's reach; of the first, second and last of them the safety half is proved as above. Every invariant and
action property of a passing run is a theorem. The five findings are counterexamples, and
nothing to prove.

## 7. What is not modelled, and why

- *Content*: CIDs, bytes, CAR layout, manifests' fields. A chunk is an element of a set, a
  site or a manifest is named after the deploy it belongs to. Two chunks are never equal;
  duplicates within a site are not modelled.
- *Time*: ages are classes, waits end nondeterministically, days and moments are counted where
  a validity ends with them. Pid reuse and the 48 h ceiling of a lock are left out; clocks
  of one machine agree.
- *The encrypted path* (`storeDirectory`) and single files (`storeFile`): they call the same
  upload without the gate.
- *Labels and prices*: which label PopRules admits and what a name costs are inputs
  (`registrable`, `alias`); so is the verdict of the manifest schema (`valid`).
- *Run state* (`run-state.ts`, heartbeats): it decides nothing but the wording of a diagnosis.
  One effect is worth knowing: a failed manifest publish exits the process at once, so the
  next start says that the run "did not exit cleanly".
- *Merkleization, schema, cryptography, environments*: pure functions of one input, with
  unit tests; no step of theirs can interleave with anything.
- *Telemetry, logging, progress output, CI tooling*: no effect on what is stored or
  registered, except exit codes.

`PROJECT.json` says for each component what is left out of it. Its `map` covers about a third of
the implementation's lines; most of the rest is wording, telemetry and option parsing in
`deploy.ts` and `dotns.ts`, and the modules listed above.

## 8. The plan

Done: the upload, the phases, the lock, registration and its abstract specification, the nine
parts of `services`; the proof of every safety property a passing run checks; the link
between the lock files and the registration; the bounds on what each process can still do.

Left, in this order:

1. **A contract between modules**: that the step of `UploadPhases` for an upload is what
   `ChunkUpload` establishes is said by two of its theorems (`OkMeansStoredHolds`,
   `OkMeansRootedHolds`) but not by an abstract module both refine, as `NameLock` is for the lock.
2. **Compositions**: `DeployFlow` over `CommitRegister` instead of a registration in one step.
3. **Pure algorithms** against a reference definition: dense nonces and bounded nonce choice,
   stable block order.
