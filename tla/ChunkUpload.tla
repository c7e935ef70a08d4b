----------------------------- MODULE ChunkUpload -----------------------------
(***************************************************************************)
(* storeChunkedContent (src/src/deploy.ts): one call that uploads the      *)
(* chunks of a CAR and then its DAG root to the Bulletin chain, against a  *)
(* chain that includes, expires and reorganises transactions, a sibling    *)
(* deploy that signs with the same account, load-balanced RPC backends and *)
(* a WebSocket that drops.                                                 *)
(*                                                                         *)
(* The process is single-threaded: a step is the code between two awaits,  *)
(* and the environment acts in between.                                    *)
(***************************************************************************)
EXTENDS Integers, FiniteSets

CONSTANTS
  N,                  (* number of data chunks                              *)
  Accounts,           (* storage accounts a reconnect may rotate through    *)
  HasReconnect,       (* the caller passed a reconnect callback             *)
  Trusted,            (* trustedCids: skipped without a probe               *)
  SkipCandidates,     (* skipCids: skipped when a probe finds them          *)
  ProbeFailed,        (* probeFailedCids: the caller's probe gave no answer *)
  PreStored,          (* items on chain before the call                     *)
  SkipRoot,           (* skipRootStore                                      *)
  HandOff,            (* handOffLiveClient                                  *)
  MaxReconnections,   (* MAX_RECONNECTIONS                                  *)
  MaxChunkRetries,    (* MAX_CHUNK_RETRIES                                  *)
  MaxReprobeRetries,  (* MAX_REPROBE_RETRIES                                *)
  MaxRootRetries,     (* MAX_ROOT_RETRIES                                   *)
  BudgetMax,          (* RETRY_BUDGET_MAX_EVENTS                            *)
  NonceBound,         (* STUCK_NONCE_GAP_THRESHOLD                          *)
  StuckRun,           (* length of a stuck backend's never-gossiped run     *)
  Regimes,            (* sets of fault kinds; a behaviour meets one of them *)
  MaxForeign,         (* bound: transactions a sibling deploy sends         *)
  MaxReorgs           (* bound: blocks the best chain loses                 *)

(* sibling: another deploy signs with the account; rotate: a reconnect may  *)
(* pick another account; stuck: a backend keeps a run it never gossips.    *)
FaultKinds == {"halt", "conn", "timeout", "expiry", "dispatch", "null", "lag",
               "rpc", "reconnect", "auth", "gossip", "sibling", "reorg",
               "rotate", "stuck"}

Chunks == 1 .. N
Root == N + 1
Items == 1 .. (N + 1)
Foreign == 0          \* the payload of a sibling's (or a failed) transaction
NoNonce == -1

ASSUME ConstantsAssumption ==
  /\ N \in Nat \ {0}
  /\ Accounts # {}
  /\ HasReconnect \in BOOLEAN /\ SkipRoot \in BOOLEAN /\ HandOff \in BOOLEAN
  /\ SkipCandidates \subseteq Chunks /\ ProbeFailed \subseteq Chunks
  /\ PreStored \subseteq Items
  /\ MaxReconnections \in Nat /\ MaxChunkRetries \in Nat \ {0}
  /\ MaxReprobeRetries \in Nat \ {0} /\ MaxRootRetries \in Nat \ {0}
  /\ BudgetMax \in Nat /\ NonceBound \in Nat /\ StuckRun \in Nat
  /\ MaxForeign \in Nat /\ MaxReorgs \in Nat
  /\ Regimes \subseteq SUBSET FaultKinds

(***************************************************************************)
(* The caller vouches that a trusted CID was verified or uploaded in this  *)
(* deploy session.                                                         *)
(***************************************************************************)
ASSUME TrustedAssumption == Trusted \subseteq Chunks \cap PreStored

VARIABLES
  (* the chain and the transaction pools *)
  pool,         \* pending transactions, over all backends
  chain,        \* transactions in the best chain
  onchain,      \* per account, its nonce at the best block
  dropped,      \* history: items a reorg took off the best chain
  foreign,      \* sibling transactions sent so far
  reorgs,       \* blocks lost so far
  faults,       \* the kinds of fault this behaviour may meet; never changes
  (* the connection *)
  acct,         \* ss58 of the current provider
  live,         \* the current client is not destroyed
  owns,         \* ownsClient
  halted,       \* wsHaltDetected
  reconUsed,    \* reconnectionsUsed
  recov,        \* length of recoveryHistory, saturating at BudgetMax
  (* upload bookkeeping *)
  pc,
  stored,       \* stored[i]: null, or how the chunk came to be stored
  provisional,  \* nonceAdvanceIndices
  assigned,     \* assignedNonces
  base,         \* history: the account assignedNonces was computed for
  cursor,       \* b
  size,         \* batchSize of the current iteration
  flight,       \* state of each item's watchTransaction
  signed,       \* the nonce each item's current transaction is signed with
  (* the loop in progress *)
  work,         \* batchIndices / failures / missingResults still to handle
  cur,          \* the chunk being retried or re-uploaded
  attempt,      \* the innermost attempt counter
  connFail,     \* isConnectionError(fail.error) of the chunk being retried
  pending,      \* pending (post-batch verify loop)
  round,        \* round (post-batch verify loop)
  answers       \* probe answers of the round

chainVars == <<pool, chain, onchain, dropped, foreign, reorgs, faults>>
connVars == <<acct, live, owns, halted, reconUsed, recov>>
uploadVars == <<stored, provisional, assigned, base, cursor, size>>
flightVars == <<flight, signed>>
retryVars == <<cur, attempt, connFail>>
verifyVars == <<pending, round, answers>>
vars == <<chainVars, connVars, uploadVars, flightVars, retryVars, verifyVars,
          pc, work>>

Done == {"ok", "failed"}
PCs == Done \cup {"preflight", "seed", "loop", "batchsent", "settled", "retry",
                  "attempt", "reconcile", "resubmit", "resubmitted",
                  "verify", "reprobe", "gap", "reupload", "reuploaded",
                  "root", "rootsend", "rootsent", "final", "throw"}
StoredStates == {"null", "skipped", "watched", "fallback"}
FlightStates == {"idle", "sent", "watched", "probed", "stale", "expired",
                 "error", "conn"}
Succeeded == {"watched", "probed"}
Rejected == {"stale", "expired"}     \* poolRejected: REISSUABLE_REJECTIONS
Answers == {"unanswered", "present", "absent"}
Txs == [acct : Accounts, nonce : Nat, cid : 0 .. (N + 1)]

(***************************************************************************)
(* Chain queries.                                                          *)
(***************************************************************************)
OnChain(c) == c \in PreStored \/ \E t \in chain : t.cid = c

TakenAt(a, n) == \E t \in pool : t.acct = a /\ t.nonce = n

(***************************************************************************)
(* What system_accountNextIndex may answer for account a: the on-chain     *)
(* nonce plus the run of pending transactions the answering backend holds  *)
(* (a prefix of it where gossip lags), or a stuck backend's own run.       *)
(***************************************************************************)
PendingNonces(a) == {t.nonce : t \in {u \in pool : u.acct = a}}

NextIndexes(a) ==
  {n \in {onchain[a]} \cup {m + 1 : m \in PendingNonces(a)} :
     /\ onchain[a] <= n
     /\ \A m \in onchain[a] .. (n - 1) : TakenAt(a, m)
     /\ ~TakenAt(a, n) \/ "gossip" \in faults}
  \cup (IF "stuck" \in faults THEN {onchain[a] + StuckRun} ELSE {})

(***************************************************************************)
(* readBoundedChunkNonce: an answer in bound is taken, the on-chain nonce  *)
(* replaces answers out of bound or missing, and without the on-chain      *)
(* nonce any answer is taken.                                              *)
(***************************************************************************)
InBound(a, n) == n - onchain[a] <= NonceBound

NonceReads(a) ==
  LET reads == NextIndexes(a) IN
    {n \in reads : InBound(a, n) \/ "rpc" \in faults}
    \cup {n \in {onchain[a]} :
            "rpc" \in faults \/ \E m \in reads : ~InBound(a, m)}

(***************************************************************************)
(* One chunk-probe answer at the best block. A destroyed client gives no   *)
(* answer; a lagging backend may miss a stored item; only a chain that has *)
(* the item answers present.                                               *)
(***************************************************************************)
ProbeAnswers(c) ==
  (IF live /\ OnChain(c) THEN {"present"} ELSE {})
  \cup (IF live /\ (~OnChain(c) \/ "lag" \in faults) THEN {"absent"} ELSE {})
  \cup (IF ~live \/ "null" \in faults THEN {"unanswered"} ELSE {})

\* Fault: the skipped chunks are counted instead of the pending ones.
DenseNoncesOfSkipped(st, start) ==
  [c \in Chunks |->
     IF st[c] = "null"
       THEN start + Cardinality({d \in Chunks : d < c /\ st[d] # "null"})
       ELSE NoNonce]

DenseNonces(st, start) ==
  [c \in Chunks |->
     IF st[c] = "null"
       THEN start + Cardinality({d \in Chunks : d < c /\ st[d] = "null"})
       ELSE NoNonce]

IsFirst(c, S) == c \in S /\ \A d \in S : c <= d

-----------------------------------------------------------------------------
Init ==
  /\ pool = {} /\ chain = {} /\ onchain = [a \in Accounts |-> 0]
  /\ dropped = {} /\ foreign = 0 /\ reorgs = 0
  /\ faults \in Regimes
  /\ acct \in Accounts
  /\ live \in {TRUE, ~HasReconnect}     \* a caller may hand over a dead client
  /\ owns \in {FALSE, ~HasReconnect}    \* without one it opens its own
  /\ halted = FALSE /\ reconUsed = 0 /\ recov = 0
  /\ pc = "preflight"
  /\ stored = [c \in Chunks |-> "null"]
  /\ provisional = {}
  /\ assigned = [c \in Chunks |-> NoNonce]
  /\ base = acct
  /\ cursor = 1 /\ size = 2
  /\ flight = [c \in Items |-> "idle"]
  /\ signed = [c \in Items |-> NoNonce]
  /\ work = {} /\ cur = 1 /\ attempt = 0
  /\ connFail = FALSE
  /\ pending = {} /\ round = 0
  /\ answers = [c \in Chunks |-> "unanswered"]

-----------------------------------------------------------------------------
(***************************************************************************)
(* The environment: block production, pools, the sibling deploy, the       *)
(* WebSocket.                                                              *)
(***************************************************************************)
Running == pc \notin Done

ProcessUnchanged ==
  UNCHANGED <<connVars, uploadVars, flightVars, retryVars, verifyVars, pc, work>>

IncludeAs(t, cid) ==
  /\ Running
  /\ t \in pool
  /\ t.nonce = onchain[t.acct]
  /\ chain' = chain \cup {[t EXCEPT !.cid = cid]}
  /\ onchain' = [onchain EXCEPT ![t.acct] = t.nonce + 1]
  /\ pool' = {u \in pool : u.acct # t.acct \/ u.nonce > t.nonce}
  /\ UNCHANGED <<dropped, foreign, reorgs, faults>>
  /\ ProcessUnchanged

Include(t) == IncludeAs(t, t.cid)

\* Included, but its dispatch failed: the nonce is spent, nothing is stored.
IncludeFailed(t) ==
  /\ "dispatch" \in faults
  /\ t.cid # Foreign
  /\ IncludeAs(t, Foreign)

Expire(t) ==
  /\ Running
  /\ "expiry" \in faults
  /\ t \in pool
  /\ pool' = pool \ {t}
  /\ UNCHANGED <<chain, onchain, dropped, foreign, reorgs, faults>>
  /\ ProcessUnchanged

SiblingSend(a) ==
  /\ Running
  /\ "sibling" \in faults /\ foreign < MaxForeign
  /\ \E n \in NonceReads(a) :
       pool' = pool \cup {[acct |-> a, nonce |-> n, cid |-> Foreign]}
  /\ foreign' = foreign + 1
  /\ UNCHANGED <<chain, onchain, dropped, reorgs, faults>>
  /\ ProcessUnchanged

Reorg(t) ==
  /\ Running
  /\ "reorg" \in faults /\ reorgs < MaxReorgs
  /\ t \in chain
  /\ onchain[t.acct] = t.nonce + 1
  /\ chain' = chain \ {t}
  /\ onchain' = [onchain EXCEPT ![t.acct] = t.nonce]
  /\ dropped' = dropped \cup {t.cid}
  /\ pool' = pool \cup {t}
  /\ reorgs' = reorgs + 1
  /\ UNCHANGED <<foreign, faults>>
  /\ ProcessUnchanged

\* The WS-halt callback: it destroys the client the call currently holds.
WsHalt ==
  /\ Running /\ pc # "preflight"
  /\ "halt" \in faults
  /\ ~halted
  /\ halted' = TRUE
  /\ live' = FALSE
  /\ UNCHANGED <<chainVars, acct, owns, reconUsed, recov, uploadVars,
                 flightVars, retryVars, verifyVars, pc, work>>

Environment ==
  \/ \E t \in pool : Include(t) \/ IncludeFailed(t) \/ Expire(t)
  \/ \E a \in Accounts : SiblingSend(a)
  \/ \E t \in chain : Reorg(t)
  \/ WsHalt

-----------------------------------------------------------------------------
(***************************************************************************)
(* watchTransaction: submission, and the ways a watch settles.             *)
(***************************************************************************)
TxOf(c) == [acct |-> acct, nonce |-> signed[c], cid |-> c]

(***************************************************************************)
(* Sign and submit the items of S at the nonces nf. The backend refuses a  *)
(* spent nonce, and may refuse one it already holds a transaction for; a   *)
(* backend the other transaction has not reached accepts both.             *)
(***************************************************************************)
Send(S, nf) ==
  /\ flight' = [c \in Items |-> IF c \in S THEN "sent" ELSE flight[c]]
  /\ signed' = [c \in Items |-> IF c \in S THEN nf[c] ELSE signed[c]]
  /\ \E accepted \in SUBSET S :
       /\ \A c \in accepted :
            /\ live /\ nf[c] >= onchain[acct]
            /\ ~TakenAt(acct, nf[c]) \/ "gossip" \in faults
       /\ \A c \in S \ accepted :
            ~live \/ nf[c] < onchain[acct] \/ TakenAt(acct, nf[c])
       /\ pool' = pool \cup
            {[acct |-> acct, nonce |-> nf[c], cid |-> c] : c \in accepted}
  /\ UNCHANGED <<chain, onchain, dropped, foreign, reorgs, faults>>

Settle(c, result) ==
  /\ flight[c] = "sent"
  /\ flight' = [flight EXCEPT ![c] = result]
  /\ UNCHANGED <<chainVars, connVars, uploadVars, signed, retryVars, verifyVars,
                 pc, work>>

\* next: inBestBlock, event.ok
SettleInBestBlock(c) ==
  /\ live /\ TxOf(c) \in chain
  /\ Settle(c, "watched")

\* error: the pool rejected it. The best block is probed before giving up.
SettleRejected(c) ==
  /\ live /\ TxOf(c) \notin pool /\ TxOf(c) \notin chain
  /\ \/ OnChain(c) /\ Settle(c, "probed")
     \/ Settle(c, IF signed[c] < onchain[acct] \/ TakenAt(acct, signed[c])
                    THEN "stale" ELSE "expired")
     \/ /\ "dispatch" \in faults     \* event.ok = false
        /\ signed[c] < onchain[acct]
        /\ Settle(c, "error")

\* the timer: probe, else time out
SettleTimeout(c) ==
  /\ "timeout" \in faults
  /\ \/ live /\ OnChain(c) /\ Settle(c, "probed")
     \/ Settle(c, "error")

\* error: WS halt, ChainHead disjointed, not connected
SettleConnection(c) ==
  /\ ~live \/ "conn" \in faults
  /\ Settle(c, "conn")

Watch == \E c \in Items :
  \/ SettleInBestBlock(c) \/ SettleRejected(c)
  \/ SettleTimeout(c) \/ SettleConnection(c)

-----------------------------------------------------------------------------
\* Fault: off by one in the reconnection budget.
MayReconnectOnceMore == HasReconnect /\ reconUsed <= MaxReconnections

(***************************************************************************)
(* Reconnection and the retry budget.                                      *)
(***************************************************************************)
MayReconnect == HasReconnect /\ reconUsed < MaxReconnections
Recorded == IF recov < BudgetMax THEN recov + 1 ELSE recov
BudgetTrips == recov = BudgetMax        \* all of them may be in the window
ReconnectMayFail == "reconnect" \in faults

\* The storage account a fresh provider may come with.
NextAccount(a) == a = acct \/ "rotate" \in faults

\* doReconnect, successful, onto account a.
ReconnectTo(a) ==
  /\ MayReconnect
  /\ NextAccount(a)
  /\ acct' = a /\ live' = TRUE /\ halted' = FALSE
  /\ owns' = TRUE
  /\ reconUsed' = reconUsed + 1
  /\ recov' = Recorded

\* doReconnect throws where the exception ends the call.
ReconnectThrows == ~MayReconnect \/ BudgetTrips \/ ReconnectMayFail

\* try { await doReconnect() } catch {}
ReconnectSwallowed ==
  \/ \E a \in Accounts : ReconnectTo(a)
  \/ /\ MayReconnect /\ BudgetTrips
     /\ recov' = Recorded
     /\ UNCHANGED <<acct, live, owns, halted, reconUsed>>
  \/ /\ MayReconnect /\ ReconnectMayFail      \* the old client is gone
     /\ reconUsed' = reconUsed + 1 /\ live' = FALSE /\ recov' = Recorded
     /\ UNCHANGED <<acct, owns, halted>>

\* doReconnectAndRebase after a successful doReconnect onto account a.
Rebase(a) ==
  IF a # acct
    THEN /\ \E n \in NonceReads(a) : assigned' = DenseNonces(stored, n)
         /\ base' = a
    ELSE UNCHANGED <<assigned, base>>

\* The catch clause closes a client the call owns, and rethrows.
Fail ==
  /\ pc' = "failed"
  /\ live' = (live /\ ~owns)
  /\ UNCHANGED <<chainVars, acct, owns, halted, reconUsed, recov,
                 uploadVars, flightVars, retryVars, verifyVars, work>>

Throw == pc = "throw" /\ Fail

RpcMayFail == "rpc" \in faults

-----------------------------------------------------------------------------
(***************************************************************************)
(* Preflight, seed nonce, skip pass.                                       *)
(***************************************************************************)
\* A dead client is refreshed; the account must hold an authorization.
Refresh ==
  \/ /\ live
     /\ UNCHANGED <<acct, live, owns>>
  \/ /\ HasReconnect
     /\ ~live \/ "conn" \in faults
     /\ acct' \in {a \in Accounts : NextAccount(a)}
     /\ live' = TRUE /\ owns' = TRUE

Preflight ==
  /\ pc = "preflight"
  /\ Refresh
  /\ base' = acct'
  /\ pc' = "seed"
  /\ UNCHANGED <<chainVars, halted, reconUsed, recov, stored, provisional,
                 assigned, cursor, size, flightVars, retryVars, verifyVars, work>>

\* What throws here throws outside the try block.
PreflightFails ==
  /\ pc = "preflight"
  /\ \/ ~live /\ ReconnectMayFail /\ UNCHANGED <<acct, live, owns>>
     \/ "auth" \in faults /\ Refresh
  /\ pc' = "failed"
  /\ UNCHANGED <<chainVars, halted, reconUsed, recov, uploadVars, flightVars,
                 retryVars, verifyVars, work>>

\* Fault: a probe that gave no answer skips the upload.
SeedSkipsUnanswered ==
  /\ pc = "seed"
  /\ \E n \in NonceReads(acct), found \in SUBSET (SkipCandidates \ Trusted) :
       /\ \A c \in found : ProbeAnswers(c) \cap {"present", "unanswered"} # {}
       /\ stored' = [c \in Chunks |->
                       IF c \in Trusted \cup found THEN "skipped" ELSE "null"]
       /\ assigned' = DenseNonces(stored', n)
  /\ base' = acct
  /\ pc' = "loop"
  /\ UNCHANGED <<chainVars, connVars, provisional, cursor, size, flightVars,
                 retryVars, verifyVars, work>>

\* Only a positive probe answer skips an upload.
Seed ==
  /\ pc = "seed"
  /\ \E n \in NonceReads(acct), found \in SUBSET (SkipCandidates \ Trusted) :
       /\ \A c \in found : "present" \in ProbeAnswers(c)
       /\ \A c \in SkipCandidates \ (Trusted \cup found) :
            ProbeAnswers(c) # {"present"}
       /\ stored' = [c \in Chunks |->
                       IF c \in Trusted \cup found THEN "skipped" ELSE "null"]
       /\ assigned' = DenseNonces(stored', n)
  /\ base' = acct
  /\ pc' = "loop"
  /\ UNCHANGED <<chainVars, connVars, provisional, cursor, size, flightVars,
                 retryVars, verifyVars, work>>

SeedFails == pc = "seed" /\ RpcMayFail /\ Fail

-----------------------------------------------------------------------------
(***************************************************************************)
(* The batch loop.                                                         *)
(***************************************************************************)
BatchSize == IF reconUsed > 0 THEN 1 ELSE 2
Batch == {c \in Chunks : /\ cursor <= c /\ c < cursor + BatchSize
                         /\ stored[c] = "null"}

\* The halt landed between batches: rebuild the client before submitting.
LoopReconnect ==
  /\ pc = "loop" /\ cursor <= N
  /\ halted
  /\ \E a \in Accounts : ReconnectTo(a) /\ Rebase(a)
  /\ UNCHANGED <<chainVars, stored, provisional, cursor, size, flightVars,
                 retryVars, verifyVars, pc, work>>

LoopReconnectFails ==
  /\ pc = "loop" /\ cursor <= N
  /\ halted /\ MayReconnect
  /\ ReconnectThrows \/ RpcMayFail
  /\ Fail

SkipBatch ==
  /\ pc = "loop" /\ cursor <= N
  /\ ~(halted /\ MayReconnect)
  /\ Batch = {}
  /\ cursor' = cursor + BatchSize
  /\ UNCHANGED <<chainVars, connVars, stored, provisional, assigned, base, size,
                 flightVars, retryVars, verifyVars, pc, work>>

SubmitBatch ==
  /\ pc = "loop" /\ cursor <= N
  /\ ~(halted /\ MayReconnect)
  /\ Batch # {}
  /\ Send(Batch, assigned)
  /\ work' = Batch
  /\ size' = BatchSize
  /\ pc' = "batchsent"
  /\ UNCHANGED <<connVars, stored, provisional, assigned, base, cursor,
                 retryVars, verifyVars>>

StoredAs(c) == IF flight[c] = "watched" THEN "watched" ELSE "fallback"

\* Fault: a lost connection does not restart the batch.
BatchSettledNoReconnect ==
  /\ pc = "batchsent"
  /\ \A c \in work : flight[c] # "sent"
  /\ LET landed == {c \in work : flight[c] \in Succeeded} IN
       /\ stored' = [c \in Chunks |->
                       IF c \in landed THEN StoredAs(c) ELSE stored[c]]
       /\ provisional' = provisional \cup {c \in work : flight[c] = "probed"}
       /\ assigned' = [c \in Chunks |->
                         IF c \in landed THEN NoNonce ELSE assigned[c]]
       /\ recov' = IF landed # {} THEN 0 ELSE recov
       /\ work' = work \ landed
  /\ pc' = "retry"
  /\ UNCHANGED <<chainVars, acct, live, owns, halted, reconUsed, base, cursor, size,
                 flightVars, retryVars, verifyVars>>

\* Promise.allSettled: record what landed, reconnect when a failure is a lost
\* connection, otherwise turn to the failures.
BatchSettled ==
  /\ pc = "batchsent"
  /\ \A c \in work : flight[c] # "sent"
  /\ LET landed == {c \in work : flight[c] \in Succeeded} IN
       /\ stored' = [c \in Chunks |->
                       IF c \in landed THEN StoredAs(c) ELSE stored[c]]
       /\ provisional' = provisional \cup {c \in work : flight[c] = "probed"}
       /\ assigned' = [c \in Chunks |->
                         IF c \in landed THEN NoNonce ELSE assigned[c]]
       /\ recov' = IF landed # {} THEN 0 ELSE recov
       /\ work' = work \ landed
  /\ pc' = IF (\E c \in work : flight[c] = "conn") /\ MayReconnect
             THEN "settled" ELSE "retry"
  /\ UNCHANGED <<chainVars, acct, live, owns, halted, reconUsed, base, cursor, size,
                 flightVars, retryVars, verifyVars>>

\* Fault: the batch is passed over after its reconnect.
BatchReconnectPassesOver ==
  /\ pc = "settled"
  /\ \E a \in Accounts : ReconnectTo(a) /\ Rebase(a)
  /\ cursor' = cursor + size
  /\ work' = {}
  /\ pc' = "loop"
  /\ UNCHANGED <<chainVars, stored, provisional, size, flightVars, retryVars,
                 verifyVars>>

(***************************************************************************)
(* After a reconnect onto the same account, a nonce the account has moved  *)
(* past routes its chunk to verification; onto another account it says     *)
(* nothing. Chunks still missing are submitted again from the loop top.    *)
(***************************************************************************)
BatchReconnect ==
  /\ pc = "settled"
  /\ \E a \in Accounts : \E n \in NonceReads(a) :
       /\ ReconnectTo(a)
       /\ base' = IF a # acct THEN a ELSE base
       /\ LET consumed == IF a # acct THEN {} ELSE
                            {c \in work : assigned[c] # NoNonce /\ assigned[c] < n}
          IN /\ stored' = [c \in Chunks |->
                             IF c \in consumed THEN "fallback" ELSE stored[c]]
             /\ provisional' = provisional \cup consumed
             /\ assigned' = IF a # acct THEN DenseNonces(stored, n) ELSE
                              [c \in Chunks |->
                                 IF c \in consumed THEN NoNonce ELSE assigned[c]]
             /\ cursor' = IF work \subseteq consumed THEN cursor + size ELSE cursor
  /\ work' = {}
  /\ pc' = "loop"
  /\ UNCHANGED <<chainVars, size, flightVars, retryVars, verifyVars>>

BatchReconnectFails ==
  /\ pc = "settled"
  /\ ReconnectThrows \/ RpcMayFail
  /\ Fail

-----------------------------------------------------------------------------
\* Fault (#1657): the chunk is recorded as stored, and never verified.
MarkStored(c) ==
  /\ stored' = [stored EXCEPT ![c] = "fallback"]
  /\ UNCHANGED provisional

(***************************************************************************)
(* The failures of a batch, one at a time. The reconnect the code makes    *)
(* here for a failure that was a lost connection is left out: a batch with *)
(* such a failure reconnects and starts over while it may, so here the     *)
(* budget is spent (LostConnectionsExhausted).                             *)
(***************************************************************************)
MarkProvisional(c) ==
  /\ stored' = [stored EXCEPT ![c] = "fallback"]
  /\ provisional' = provisional \cup {c}

FailuresHandled ==
  /\ pc = "retry" /\ work = {}
  /\ cursor' = cursor + size
  /\ pc' = "loop"
  /\ UNCHANGED <<chainVars, connVars, stored, provisional, assigned, base, size,
                 flightVars, retryVars, verifyVars, work>>

TakeFailure ==
  /\ pc = "retry"
  /\ \E c \in work :
       /\ IsFirst(c, work)
       /\ IF c \in ProbeFailed /\ flight[c] \in Rejected
            THEN /\ MarkProvisional(c)          \* pool-rejection backstop
                 /\ work' = work \ {c}
                 /\ UNCHANGED <<cur, attempt, connFail, pc>>
            ELSE /\ cur' = c /\ attempt' = 0
                 /\ connFail' = (flight[c] = "conn")
                 /\ pc' = "attempt"
                 /\ UNCHANGED <<stored, provisional, work>>
  /\ UNCHANGED <<chainVars, connVars, assigned, base, cursor, size, flightVars, verifyVars>>

StartAttempt ==
  /\ pc = "attempt" /\ attempt < MaxChunkRetries
  /\ attempt' = attempt + 1
  /\ recov' = Recorded
  /\ pc' = "reconcile"
  /\ UNCHANGED <<chainVars, acct, live, owns, halted, reconUsed, uploadVars,
                 flightVars, cur, connFail, verifyVars, work>>

AttemptsFail ==
  /\ pc = "attempt"
  /\ attempt = MaxChunkRetries \/ BudgetTrips
  /\ Fail

\* Fault: the consumed nonce is not recognised, and is signed with again.
ReconcileByProbeOnly ==
  /\ pc = "reconcile"
  /\ \E answer \in ProbeAnswers(cur) :
       IF answer = "present"
         THEN /\ MarkProvisional(cur)
              /\ assigned' = [assigned EXCEPT ![cur] = NoNonce]
              /\ recov' = 0
              /\ work' = work \ {cur}
              /\ pc' = "retry"
         ELSE /\ pc' = "resubmit"
              /\ UNCHANGED <<stored, provisional, assigned, recov, work>>
  /\ UNCHANGED <<chainVars, acct, live, owns, halted, reconUsed, base,
                 cursor, size, flightVars, retryVars, verifyVars>>

\* reconcileTimedOutChunk: the CID at best is inclusion; a consumed nonce only
\* routes to verification.
Reconcile ==
  /\ pc = "reconcile"
  /\ \E n \in NonceReads(acct), answer \in ProbeAnswers(cur) :
       IF \/ answer = "present"
          \/ assigned[cur] # NoNonce /\ assigned[cur] < n
         THEN /\ MarkProvisional(cur)
              /\ assigned' = [assigned EXCEPT ![cur] = NoNonce]
              /\ recov' = 0
              /\ work' = work \ {cur}
              /\ pc' = "retry"
         ELSE /\ pc' = "resubmit"
              /\ UNCHANGED <<stored, provisional, assigned, recov, work>>
  /\ UNCHANGED <<chainVars, acct, live, owns, halted, reconUsed, base, cursor, size,
                 flightVars, retryVars, verifyVars>>

ReconcileFails ==
  /\ pc = "reconcile" /\ RpcMayFail
  /\ pc' = "attempt"
  /\ UNCHANGED <<chainVars, connVars, uploadVars, flightVars, retryVars,
                 verifyVars, work>>

\* The liveness wait lies between the decision and this submission.
Resubmit ==
  /\ pc = "resubmit"
  /\ \E n \in NonceReads(acct) :
       Send({cur}, IF assigned[cur] # NoNonce THEN assigned
                     ELSE [assigned EXCEPT ![cur] = n])
  /\ pc' = "resubmitted"
  /\ UNCHANGED <<connVars, uploadVars, retryVars, verifyVars, work>>

ResubmitLanded ==
  /\ pc = "resubmitted"
  /\ flight[cur] \in Succeeded
  /\ stored' = [stored EXCEPT ![cur] = StoredAs(cur)]
  /\ provisional' = IF flight[cur] = "probed" THEN provisional \cup {cur}
                                              ELSE provisional
  /\ assigned' = [assigned EXCEPT ![cur] = NoNonce]
  /\ recov' = 0
  /\ work' = work \ {cur}
  /\ pc' = "retry"
  /\ UNCHANGED <<chainVars, acct, live, owns, halted, reconUsed, base, cursor, size,
                 flightVars, retryVars, verifyVars>>

ResubmitBackstop ==
  /\ pc = "resubmitted"
  /\ cur \in ProbeFailed /\ flight[cur] \in Rejected
  /\ MarkProvisional(cur)
  /\ assigned' = [assigned EXCEPT ![cur] = NoNonce]
  /\ work' = work \ {cur}
  /\ pc' = "retry"
  /\ UNCHANGED <<chainVars, connVars, base, cursor, size, flightVars,
                 retryVars, verifyVars>>

\* A lost connection is rebuilt by doReconnect alone, without the rebase.
ResubmitFailed ==
  /\ pc = "resubmitted"
  /\ flight[cur] \in Rejected \cup {"error", "conn"}
  /\ ~(cur \in ProbeFailed /\ flight[cur] \in Rejected)
  /\ IF flight[cur] = "conn" /\ MayReconnect
       THEN ReconnectSwallowed ELSE UNCHANGED connVars
  /\ pc' = "attempt"
  /\ UNCHANGED <<chainVars, uploadVars, flightVars, retryVars, verifyVars, work>>

-----------------------------------------------------------------------------
(***************************************************************************)
(* The post-batch verify loop: the only way out of provisional.            *)
(***************************************************************************)
EndBatches ==
  /\ pc = "loop" /\ cursor > N
  /\ pc' = IF provisional = {} THEN "root" ELSE "verify"
  /\ pending' = provisional
  /\ round' = 1 /\ attempt' = 0
  /\ UNCHANGED <<chainVars, connVars, uploadVars, flightVars, cur, connFail, answers, work>>

(***************************************************************************)
(* One probe round over what is still unanswered. When all have answered,  *)
(* the absent ones stay pending and are re-uploaded, for a bounded number  *)
(* of rounds; an item that stays unanswered fails the call.                *)
(***************************************************************************)
VerifyProbe ==
  /\ pc = "verify"
  /\ \E found \in [pending -> Answers] :
       /\ \A c \in pending : IF answers[c] = "unanswered"
                               THEN found[c] \in ProbeAnswers(c)
                               ELSE found[c] = answers[c]
       /\ LET absent == {c \in pending : found[c] = "absent"} IN
          IF \E c \in pending : found[c] = "unanswered"
            THEN /\ answers' = [c \in Chunks |->
                                  IF c \in pending THEN found[c] ELSE answers[c]]
                 /\ attempt' = attempt + 1
                 /\ pc' = IF attempt >= MaxReprobeRetries THEN "throw"
                                                          ELSE "reprobe"
                 /\ UNCHANGED <<pending, work>>
            ELSE /\ answers' = [c \in Chunks |-> "unanswered"]
                 /\ attempt' = 0
                 /\ pending' = absent
                 /\ work' = absent
                 /\ pc' = IF absent = {} THEN "root"
                          ELSE IF round > MaxReprobeRetries THEN "throw"
                          ELSE "gap"
  /\ UNCHANGED <<chainVars, connVars, uploadVars, flightVars, cur, connFail, round>>

\* Between two probe attempts: a halted socket is replaced, else wait.
Reprobe ==
  /\ pc = "reprobe"
  /\ IF halted /\ HasReconnect THEN \E a \in Accounts : ReconnectTo(a)
                               ELSE UNCHANGED connVars
  /\ pc' = "verify"
  /\ UNCHANGED <<chainVars, uploadVars, flightVars, retryVars, verifyVars, work>>

ReprobeFails ==
  /\ pc = "reprobe"
  /\ halted /\ HasReconnect
  /\ ReconnectThrows
  /\ Fail

\* A halt since the batch loop leaves the client destroyed: rebuild it first.
Gap ==
  /\ pc = "gap"
  /\ IF halted /\ MayReconnect THEN \E a \in Accounts : ReconnectTo(a)
                               ELSE UNCHANGED connVars
  /\ pc' = "reupload"
  /\ UNCHANGED <<chainVars, uploadVars, flightVars, retryVars, verifyVars, work>>

GapFails ==
  /\ pc = "gap"
  /\ halted /\ MayReconnect
  /\ ReconnectThrows
  /\ Fail

\* Re-upload at a fresh nonce; a nonce read that throws is a failed attempt.
Reupload ==
  /\ pc = "reupload"
  /\ cur' \in work /\ IsFirst(cur', work)
  /\ attempt' = attempt + 1
  /\ \/ \E n \in NonceReads(acct) : Send({cur'}, [c \in Items |-> n])
     \/ /\ RpcMayFail
        /\ flight' = [flight EXCEPT ![cur'] = "error"]
        /\ UNCHANGED <<chainVars, signed>>
  /\ pc' = "reuploaded"
  /\ UNCHANGED <<connVars, uploadVars, connFail, verifyVars, work>>

ReuploadLanded ==
  /\ pc = "reuploaded"
  /\ flight[cur] \in Succeeded
  /\ stored' = [stored EXCEPT ![cur] = StoredAs(cur)]
  /\ pending' = IF flight[cur] = "watched" THEN pending \ {cur} ELSE pending
  /\ work' = work \ {cur}
  /\ attempt' = 0
  /\ pc' = "reupload"
  /\ UNCHANGED <<chainVars, connVars, provisional, assigned, base, cursor, size,
                 flightVars, cur, connFail, round, answers>>

(***************************************************************************)
(* A nonce collision on the last attempt leaves the chunk to the next      *)
(* round; any other failure on the last attempt ends the call.             *)
(***************************************************************************)
ReuploadFailed ==
  /\ pc = "reuploaded"
  /\ flight[cur] \in Rejected \cup {"error", "conn"}
  /\ LET last == attempt >= MaxReprobeRetries IN
       /\ IF flight[cur] = "conn" /\ MayReconnect
            THEN ReconnectSwallowed ELSE UNCHANGED connVars
       /\ pc' = IF last /\ flight[cur] # "stale" THEN "throw" ELSE "reupload"
       /\ work' = IF last THEN work \ {cur} ELSE work
       /\ attempt' = IF last THEN 0 ELSE attempt
  /\ UNCHANGED <<chainVars, uploadVars, flightVars, cur, connFail,
                 verifyVars>>

RoundDone ==
  /\ pc = "reupload" /\ work = {}
  /\ pc' = IF pending = {} THEN "root" ELSE "verify"
  /\ round' = round + 1
  /\ attempt' = 0
  /\ UNCHANGED <<chainVars, connVars, uploadVars, flightVars, cur, connFail, pending, answers, work>>

-----------------------------------------------------------------------------
(***************************************************************************)
(* Integrity check, DAG root, return.                                      *)
(***************************************************************************)
RootProbe ==
  /\ pc = "root"
  /\ attempt' = 0
  /\ IF SkipRoot THEN pc' = "final"
       ELSE \E answer \in ProbeAnswers(Root) :
              pc' = IF answer = "present" THEN "final" ELSE "rootsend"
  /\ UNCHANGED <<chainVars, connVars, uploadVars, flightVars, cur, connFail, verifyVars, work>>

\* Fault: the attempt is not counted.
RootSendUncounted ==
  /\ pc = "rootsend"
  /\ \E n \in NonceReads(acct) : Send({Root}, [c \in Items |-> n])
  /\ pc' = "rootsent"
  /\ UNCHANGED <<connVars, uploadVars, retryVars, verifyVars, work>>

RootSend ==
  /\ pc = "rootsend"
  /\ attempt' = attempt + 1
  /\ \E n \in NonceReads(acct) : Send({Root}, [c \in Items |-> n])
  /\ pc' = "rootsent"
  /\ UNCHANGED <<connVars, uploadVars, cur, connFail, verifyVars, work>>

RootSendFails == pc = "rootsend" /\ RpcMayFail /\ Fail

RootLanded ==
  /\ pc = "rootsent"
  /\ flight[Root] \in Succeeded
  /\ pc' = "final"
  /\ UNCHANGED <<chainVars, connVars, uploadVars, flightVars, retryVars,
                 verifyVars, work>>

\* classifyRootSubmitError
RootCollided == flight[Root] = "stale" /\ ~halted

\* The last attempt rethrows; a collision only takes a fresh nonce, anything
\* else reconnects while it may.
RootFailed ==
  /\ pc = "rootsent"
  /\ flight[Root] \in Rejected \cup {"error", "conn"}
  /\ attempt < MaxRootRetries
  /\ IF ~RootCollided /\ MayReconnect
       THEN \E a \in Accounts : ReconnectTo(a)
       ELSE UNCHANGED connVars
  /\ pc' = "rootsend"
  /\ UNCHANGED <<chainVars, uploadVars, flightVars, retryVars, verifyVars, work>>

\* Fault (#1672): the loop runs out of attempts without an error.
RootFailsSilently ==
  /\ pc = "rootsent"
  /\ flight[Root] \in Rejected \cup {"error", "conn"}
  /\ attempt >= MaxRootRetries
  /\ pc' = "final"
  /\ UNCHANGED <<chainVars, connVars, uploadVars, flightVars, retryVars,
                 verifyVars, work>>

RootFails ==
  /\ pc = "rootsent"
  /\ flight[Root] \in Rejected \cup {"error", "conn"}
  /\ \/ attempt >= MaxRootRetries
     \/ ~RootCollided /\ MayReconnect /\ ReconnectThrows
  /\ Fail

\* Fault (#1672): the client the call opened is closed although it is handed back.
ReturnClosed ==
  /\ pc = "final"
  /\ IF halted /\ MayReconnect
       THEN \E a \in Accounts :
              /\ NextAccount(a)
              /\ acct' = a /\ live' = TRUE /\ halted' = FALSE
              /\ owns' = FALSE
              /\ reconUsed' = reconUsed + 1 /\ recov' = Recorded
       ELSE /\ live' = (live /\ ~owns)
            /\ UNCHANGED <<acct, owns, halted, reconUsed, recov>>
  /\ pc' = "ok"
  /\ UNCHANGED <<chainVars, uploadVars, flightVars, retryVars, verifyVars, work>>

(***************************************************************************)
(* A halt during the root store: hand back a fresh client, which is then   *)
(* not the call's to close. Otherwise a client the call opened is closed   *)
(* unless the caller asked for it.                                         *)
(***************************************************************************)
Return ==
  /\ pc = "final"
  /\ IF halted /\ MayReconnect
       THEN \E a \in Accounts :
              /\ NextAccount(a)
              /\ acct' = a /\ live' = TRUE /\ halted' = FALSE
              /\ owns' = FALSE
              /\ reconUsed' = reconUsed + 1 /\ recov' = Recorded
       ELSE /\ live' = (live /\ (~owns \/ HandOff))
            /\ UNCHANGED <<acct, owns, halted, reconUsed, recov>>
  /\ pc' = "ok"
  /\ UNCHANGED <<chainVars, uploadVars, flightVars, retryVars, verifyVars, work>>

ReturnFails ==
  /\ pc = "final"
  /\ halted /\ MayReconnect
  /\ ReconnectThrows
  /\ Fail

Terminated == pc \in Done /\ UNCHANGED vars

-----------------------------------------------------------------------------
Process ==
  \/ Preflight \/ PreflightFails \/ Seed \/ SeedFails
  \/ LoopReconnect \/ LoopReconnectFails \/ SkipBatch \/ SubmitBatch
  \/ BatchSettled \/ BatchReconnect \/ BatchReconnectFails
  \/ FailuresHandled \/ TakeFailure \/ StartAttempt \/ AttemptsFail
  \/ Reconcile \/ ReconcileFails \/ Resubmit
  \/ ResubmitLanded \/ ResubmitBackstop \/ ResubmitFailed
  \/ EndBatches \/ VerifyProbe \/ Reprobe \/ ReprobeFails
  \/ Gap \/ GapFails \/ Reupload \/ ReuploadLanded \/ ReuploadFailed
  \/ RoundDone
  \/ RootProbe \/ RootSend \/ RootSendFails
  \/ RootLanded \/ RootFailed \/ RootFails
  \/ Return \/ ReturnFails \/ Throw

Next == Process \/ Watch \/ Environment \/ Terminated

Spec == Init /\ [][Next]_vars

(***************************************************************************)
(* The event loop runs, a watch settles at the latest when its timer       *)
(* fires, and the chain keeps producing blocks. Nothing is assumed of      *)
(* faults, of the sibling, or of the order in which watches settle.        *)
(***************************************************************************)
FairSpec ==
  /\ Spec
  /\ WF_vars(Process)
  /\ WF_vars(Watch)
  /\ WF_vars(\E t \in pool : Include(t))

-----------------------------------------------------------------------------
TypeOK ==
  /\ pool \in SUBSET Txs /\ chain \in SUBSET Txs
  /\ onchain \in [Accounts -> Nat]
  /\ dropped \subseteq 0 .. (N + 1)
  /\ foreign \in Nat /\ reorgs \in Nat /\ faults \in Regimes
  /\ acct \in Accounts /\ live \in BOOLEAN /\ halted \in BOOLEAN
  /\ owns \in BOOLEAN
  /\ reconUsed \in 0 .. MaxReconnections /\ recov \in 0 .. BudgetMax
  /\ pc \in PCs
  /\ stored \in [Chunks -> StoredStates]
  /\ provisional \subseteq Chunks
  /\ assigned \in [Chunks -> Int]
  /\ base \in Accounts
  /\ cursor \in Nat /\ size \in 1 .. 2
  /\ flight \in [Items -> FlightStates]
  /\ signed \in [Items -> Int]
  /\ work \subseteq Chunks /\ cur \in Chunks /\ attempt \in Nat
  /\ connFail \in BOOLEAN
  /\ pending \subseteq Chunks /\ round \in Nat
  /\ answers \in [Chunks -> Answers]

\* The chain holds the item now, or held it until a reorg.
WasOnChain(c) == OnChain(c) \/ c \in dropped

(***************************************************************************)
(* storeChunkedContent returns only when every chunk was on the best chain *)
(* while the call ran: no nonce that moved, no rejected transaction and no *)
(* unanswered probe is ever taken for a stored chunk (#1656, #1657).       *)
(***************************************************************************)
OkMeansStored == pc = "ok" => \A c \in Chunks : WasOnChain(c)

(***************************************************************************)
(* A return that promised a root has one on chain: the retry loop never    *)
(* runs out without either a stored root or an error (#1672).              *)
(***************************************************************************)
OkMeansRooted == pc = "ok" /\ ~SkipRoot => WasOnChain(Root)

(***************************************************************************)
(* The integrity check before the DAG is built never finds a chunk without *)
(* a record: no batch restart, rebase or skipped failure loses one.        *)
(***************************************************************************)
AllStored == \A c \in Chunks : stored[c] # "null"
IntegrityHolds == pc = "root" => AllStored

(***************************************************************************)
(* Every chunk that still has to be submitted has a nonce of its own, so   *)
(* no batch signs two chunks at one nonce and the `?? currentNonce`        *)
(* fallback of a retry is never needed.                                    *)
(***************************************************************************)
Batching == pc \in {"loop", "batchsent", "settled", "retry", "attempt",
                    "reconcile", "resubmit", "resubmitted"}
NoncesDistinct ==
  Batching =>
    \A c \in Chunks : stored[c] = "null" =>
      /\ assigned[c] # NoNonce
      /\ \A d \in Chunks \ {c} :
           stored[d] = "null" => assigned[d] # assigned[c]

(***************************************************************************)
(* The provider handed back to a caller that asked for it works, unless    *)
(* the reconnection budget is spent: no halt, no reconnect that threw      *)
(* halfway, no watch that resolved without the socket, and no clean-up     *)
(* slips a destroyed client out.                                           *)
(***************************************************************************)
HealthyHandoff == pc = "ok" /\ HandOff => live \/ ~MayReconnect

(***************************************************************************)
(* The retry loop's own doReconnectAndRebase is never reached: a chunk     *)
(* retried after a lost connection finds the reconnections spent, so the   *)
(* rebase of #951 never happens there.                                     *)
(***************************************************************************)
LostConnectionsExhausted == pc = "attempt" /\ connFail => ~MayReconnect

(***************************************************************************)
(* "old-account nonces are invalid on the new account" (deploy.ts, above   *)
(* assignDenseNonces): a chunk is only ever signed with an assigned nonce  *)
(* that was computed for the account it is signed by.                      *)
(***************************************************************************)
NoncesOfCurrentAccount == pc \in {"batchsent", "resubmitted"} => base = acct

(***************************************************************************)
(* The call always returns or throws, whatever the faults: every loop is   *)
(* bounded, and each wait has a timer.                                     *)
(***************************************************************************)
Termination == <>(pc \in Done)

(***************************************************************************)
(* Two deploys signing with one account both finish (the S9 scenario): a   *)
(* nonce collision alone never fails a call.                               *)
(***************************************************************************)
CollisionRecovery == faults \subseteq {"sibling"} => <>(pc = "ok")

-----------------------------------------------------------------------------
(***************************************************************************)
(* Why OkMeansStored holds: the inductive invariant the proofs use.        *)
(***************************************************************************)
BatchPCs == {"batchsent", "settled", "retry", "attempt", "reconcile",
             "resubmit", "resubmitted"}
VerifyPCs == {"verify", "reprobe", "gap", "reupload", "reuploaded"}
RootPCs == {"root", "rootsend", "rootsent", "final", "ok"}

\* What the call takes for evidence is evidence: a watch in a best block, a
\* probe that answered present, a skip the caller or a probe vouches for.
\* Everything else is provisional.
Evidence ==
  /\ \A i \in Items : flight[i] \in Succeeded => WasOnChain(i)
  /\ \A c \in Chunks :
       /\ stored[c] \in {"skipped", "watched"} => WasOnChain(c)
       /\ stored[c] = "fallback" => c \in provisional
       /\ answers[c] = "present" => WasOnChain(c)

\* No chunk is passed over: behind the cursor every chunk has a record, and a
\* chunk of the batch without one is still in the work list.
Covered ==
  /\ pc \in {"preflight", "seed"} => cursor = 1
  /\ \A c \in Chunks : c < cursor => stored[c] # "null"
  /\ pc \in BatchPCs =>
       \A c \in Chunks : c < cursor + size /\ stored[c] = "null" => c \in work
  /\ pc \in {"attempt", "reconcile", "resubmit", "resubmitted", "reuploaded"} =>
       cur \in work
  /\ pc \in VerifyPCs \cup RootPCs => AllStored

\* A provisional chunk leaves pending only once it was seen on chain.
Verified ==
  /\ pc \in VerifyPCs =>
       /\ work \subseteq pending \/ pc \in {"verify", "reprobe"}
       /\ pending \subseteq provisional
       /\ \A c \in provisional : c \in pending \/ WasOnChain(c)
  /\ pc \in RootPCs => \A c \in Chunks : WasOnChain(c)
  /\ pc \in {"final", "ok"} => SkipRoot \/ WasOnChain(Root)

UploadInv == TypeOK /\ Evidence /\ Covered /\ Verified
=============================================================================
