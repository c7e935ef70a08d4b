----------------------------- MODULE StorageAccess -----------------------------
(***************************************************************************)
(* The account a deploy stores from: selectStorageReconnect and the four   *)
(* providers it chooses between, with the pool of shared accounts behind   *)
(* them, its stuck-queue check, and the bootstrap tool that authorises it. *)
(*                                                                         *)
(* The RPC endpoint is a load balancer: each next-index sample is answered *)
(* by another backend. A backend that is "shut" never passes its own queue *)
(* on, and authors no block.                                               *)
(***************************************************************************)
EXTENDS Naturals, Sequences, FiniteSets, FiniteSetsExt

CONSTANTS
    PoolAccounts,   \* //deploy/0, //deploy/1, ...
    SlotAccount,    \* the allowance slot of the login session
    OwnAccount,     \* the caller's own signer, or mnemonic
    NodeSet,        \* backends behind the endpoint
    NoAccount,
    StorageStarts,  \* records of StorageStart
    GapLimit,       \* STUCK_NONCE_GAP_THRESHOLD
    ConfirmReads,   \* NONCE_HEALTH_CONFIRM_READS
    SlotTries,      \* attempts of withTransientRetry
    AuthPeriod,     \* blocks an authorisation is granted for
    MaxBlock, MaxNonce, MaxConnects   \* bounds

StoreAccounts == PoolAccounts \union {SlotAccount, OwnAccount}

\* busy: accounts that other deploys send from; blocks: the time that passes.
StorageStart ==
    [options : SUBSET {"slot", "signer", "session", "mnemonic"},
     network : {"testnet", "mainnet", "undeclared"},
     pinned : PoolAccounts \union {NoAccount, "missing"},
     expires : [StoreAccounts -> Nat],
     shut : SUBSET NodeSet,
     next : [StoreAccounts -> [NodeSet -> 0..MaxNonce]],
     busy : SUBSET StoreAccounts, blocks : 0..MaxBlock,
     buffer : Nat, autoAuthorize : BOOLEAN, authorizer : BOOLEAN]

ASSUME StorageAssumption ==
    /\ IsFiniteSet(PoolAccounts) /\ PoolAccounts # {} /\ IsFiniteSet(NodeSet)
    /\ SlotAccount \notin PoolAccounts /\ NoAccount \notin StoreAccounts
    /\ {GapLimit, MaxBlock, MaxNonce} \subseteq Nat
    /\ {ConfirmReads, SlotTries, AuthPeriod, MaxConnects} \subseteq Nat \ {0}
    /\ StorageStarts \subseteq StorageStart
    /\ \A s \in StorageStarts : s.buffer < AuthPeriod

VARIABLES
    storage,     \* the start
    block,       \* the chain's block number
    expires,     \* expiration of each account's authorisation
    head,        \* nonce of each account at the best block
    next,        \* system_accountNextIndex by account and backend
    access,      \* the deploy's provider
    uses,        \* history: the accounts handed out
    boot         \* the bootstrap tool

StorageChain == <<block, expires, head, next>>
StorageVars == <<storage, StorageChain, access, uses, boot>>

\* __selectStorageProviderModeForTest.
StorageMode ==
    IF "slot" \in storage.options THEN "slot"
    ELSE IF "signer" \in storage.options /\ "session" \notin storage.options THEN "signer"
    ELSE IF "mnemonic" \in storage.options THEN "direct" ELSE "pool"

StorageBegin(start) ==
    /\ storage = start
    /\ block = 0 /\ expires = start.expires
    /\ head = [a \in StoreAccounts |-> 0] /\ next = start.next
    /\ access = [pc |-> "connect", useSlot |-> TRUE, checkQueue |-> TRUE, tries |-> 0,
                 rest |-> PoolAccounts, first |-> NoAccount, account |-> NoAccount,
                 base |-> {}, seen |-> {}, left |-> 0, why |-> "none"]
    /\ uses = <<>>
    /\ boot = [pc |-> "idle", at |-> 0, todo |-> {}, failed |-> {}]

StorageInit == \E start \in StorageStarts : StorageBegin(start)

(***************************************************************************)
(* The chain and its nodes.                                                *)
(***************************************************************************)
Open == NodeSet \ storage.shut
Further(i, j) == IF i > j THEN i ELSE j

NextBlock ==
    /\ block < storage.blocks
    /\ block' = block + 1
    /\ UNCHANGED <<storage, expires, head, next, access, uses, boot>>

\* Another deploy, which draws from the same pool, has sent a transaction.
SentElsewhere(a, n) ==
    /\ next[a][n] < MaxNonce
    /\ next' = [next EXCEPT ![a][n] = @ + 1]
    /\ UNCHANGED <<storage, block, expires, head, access, uses, boot>>

Gossip(a) ==
    LET known == Max({next[a][n] : n \in Open})
    IN /\ Open # {}
       /\ next' = [next EXCEPT ![a] = [n \in NodeSet |-> Further(@[n], known)]]
       /\ next' # next
       /\ UNCHANGED <<storage, block, expires, head, access, uses, boot>>

IncludeHead(a) ==
    /\ \E n \in Open : next[a][n] > head[a]
    /\ head' = [head EXCEPT ![a] = @ + 1]
    /\ next' = [next EXCEPT ![a] = [n \in NodeSet |-> Further(@[n], head[a] + 1)]]
    /\ UNCHANGED <<storage, block, expires, access, uses, boot>>

(***************************************************************************)
(* The providers.                                                          *)
(***************************************************************************)
Authorized(a) == expires[a] > block

AccessKeeps == UNCHANGED <<storage, StorageChain, boot>>
HandOut(a) ==
    /\ access' = [access EXCEPT !.pc = "has", !.account = a, !.base = {}, !.seen = {}]
    /\ uses' = Append(uses, a)
Reject(why) ==
    /\ access' = [access EXCEPT !.pc = "refused", !.why = why]
    /\ UNCHANGED uses

\* getSlotSignerProvider. A clean read decides at once; a failed one is tried again.
\* Fault: the fallback is not remembered.
FallBackOnce == [access EXCEPT !.pc = "draw", !.tries = 0]

FallBack == [access EXCEPT !.pc = "draw", !.useSlot = FALSE, !.tries = 0]

SlotUnusable ==
    IF storage.network = "mainnet" THEN Reject("slot")
    ELSE access' = FallBack /\ UNCHANGED uses

ConnectSlot ==
    /\ access.pc = "connect" /\ StorageMode = "slot" /\ access.useSlot
    /\ \/ Authorized(SlotAccount) /\ HandOut(SlotAccount)
       \/ ~Authorized(SlotAccount) /\ SlotUnusable
       \/ IF access.tries + 1 < SlotTries
            THEN access' = [access EXCEPT !.tries = @ + 1] /\ UNCHANGED uses
            ELSE SlotUnusable
    /\ AccessKeeps

\* getSignerProvider reads, and reads again before it refuses; no queue check.
ConnectSigner ==
    /\ access.pc = "connect" /\ StorageMode = "signer"
    /\ IF Authorized(OwnAccount) THEN HandOut(OwnAccount) ELSE Reject("unauthorised")
    /\ AccessKeeps

\* getDirectProvider and getProvider: with a queue check on the first connection only.
Checks(a) ==
    [access EXCEPT !.account = a, !.pc = IF access.checkQueue THEN "sample" ELSE "authorise"]

ConnectDirect ==
    /\ access.pc = "connect" /\ StorageMode = "direct"
    /\ access' = Checks(OwnAccount)
    /\ AccessKeeps /\ UNCHANGED uses

ConnectPool ==
    /\ access.pc = "connect"
    /\ StorageMode = "pool" \/ (StorageMode = "slot" /\ ~access.useSlot)
    /\ access' = [access EXCEPT !.pc = "draw"]
    /\ AccessKeeps /\ UNCHANGED uses

\* selectAccount: the pinned account, or a uniform draw from those not skipped.
Draw ==
    /\ access.pc = "draw"
    /\ \/ storage.pinned = "missing" /\ Reject("pin")
       \/ /\ storage.pinned # "missing"
          /\ \E a \in IF storage.pinned = NoAccount THEN access.rest ELSE {storage.pinned} :
               access' = [Checks(a) EXCEPT
                   !.first = IF access.first = NoAccount THEN a ELSE access.first]
          /\ UNCHANGED uses
    /\ AccessKeeps

(***************************************************************************)
(* checkPoolAccountNonceHealth. The on-chain nonce and the samples are read *)
(* side by side; a read that fails or times out leaves nothing.            *)
(***************************************************************************)
ReadOnchain ==
    /\ access.pc = "sample" /\ access.base = {}
    /\ access' = [access EXCEPT !.base = {head[access.account]}]
    /\ AccessKeeps /\ UNCHANGED uses

Sample(n) ==
    /\ access.pc = "sample"
    /\ access' = [access EXCEPT !.seen = @ \union {next[access.account][n]}]
    /\ access'.seen # access.seen
    /\ AccessKeeps /\ UNCHANGED uses

Base == CHOOSE b \in access.base : TRUE
Ahead(i) == i > Base + GapLimit
BackendLocal == Ahead(Max(access.seen)) /\ ~Ahead(Min(access.seen))

Judge ==
    /\ access.pc = "sample"
    /\ access' = IF access.base # {} /\ access.seen # {} /\ BackendLocal
                   THEN [access EXCEPT !.pc = "confirm", !.left = ConfirmReads]
                   ELSE [access EXCEPT !.pc = "authorise"]
    /\ AccessKeeps /\ UNCHANGED uses

\* A read that fails: unknown. An advance: busy. No advance in any read: stuck.
Stuck ==
    IF StorageMode = "direct" \/ storage.pinned # NoAccount THEN Reject("stuck")
    ELSE LET rest == access.rest \ {access.account}
         IN /\ access' = IF rest = {}
                 THEN [access EXCEPT !.pc = "authorise", !.account = access.first, !.rest = {}]
                 ELSE [access EXCEPT !.pc = "draw", !.rest = rest, !.base = {}, !.seen = {}]
            /\ UNCHANGED uses

\* Fault: the confirming reads are not compared with the first.
ConfirmBlindly ==
    /\ access.pc = "confirm"
    /\ \/ access' = [access EXCEPT !.pc = "authorise"] /\ UNCHANGED uses
       \/ IF access.left > 1
            THEN access' = [access EXCEPT !.left = @ - 1] /\ UNCHANGED uses
            ELSE Stuck
    /\ AccessKeeps

Confirm ==
    /\ access.pc = "confirm"
    /\ \/ access' = [access EXCEPT !.pc = "authorise"] /\ UNCHANGED uses
       \/ /\ head[access.account] = Base
          /\ IF access.left > 1
               THEN access' = [access EXCEPT !.left = @ - 1] /\ UNCHANGED uses
               ELSE Stuck
    /\ AccessKeeps

\* ensureAuthorized never grants: it refuses.
EnsureAuthorized ==
    /\ access.pc = "authorise"
    /\ IF Authorized(access.account) THEN HandOut(access.account) ELSE Reject("unauthorised")
    /\ AccessKeeps

\* The upload asks for another provider, and again if it is refused one. The pool is
\* drawn from anew; its queues are looked at in the first call only.
StorageReconnect ==
    /\ access.pc = "has" \/ (access.pc = "refused" /\ uses # <<>>)
    /\ Len(uses) < MaxConnects
    /\ access' = [access EXCEPT !.pc = "connect", !.tries = 0, !.why = "none",
                      !.checkQueue = @ /\ access.account = SlotAccount,
                      !.rest = PoolAccounts, !.first = NoAccount, !.account = NoAccount]
    /\ AccessKeeps /\ UNCHANGED uses

AccessStep ==
    \/ ConnectSlot \/ ConnectSigner \/ ConnectDirect \/ ConnectPool \/ Draw
    \/ ReadOnchain \/ (\E n \in NodeSet : Sample(n)) \/ Judge \/ Confirm
    \/ EnsureAuthorized \/ StorageReconnect

(***************************************************************************)
(* bootstrapPool.                                                          *)
(***************************************************************************)
BootKeeps == UNCHANGED <<storage, block, head, next, access, uses>>

\* isAutoReauthorizeAllowed.
Cleared == storage.network = "testnet" /\ storage.autoAuthorize

\* Accounts whose authorisation cannot be read count as unauthorised.
NeedsAuth(unread) ==
    {a \in PoolAccounts : a \in unread \/ expires[a] <= block + storage.buffer}

StartBoot ==
    /\ boot.pc = "idle"
    /\ \E unread \in {{}, PoolAccounts} :
         LET needs == NeedsAuth(unread)
         IN boot' = [boot EXCEPT !.at = block, !.todo = needs,
              !.pc = IF needs = {} THEN "done"
                     ELSE IF storage.buffer > 0 /\ ~Cleared THEN "stopped"
                     ELSE IF storage.authorizer THEN "grant" ELSE "stopped"]
    /\ BootKeeps /\ UNCHANGED expires

\* One account after the other; a grant that fails is only reported.
Grant ==
    /\ boot.pc = "grant"
    /\ \E a \in boot.todo :
         \/ /\ expires' = [expires EXCEPT ![a] = Further(@, block + AuthPeriod)]
            /\ boot' = [boot EXCEPT !.todo = @ \ {a}]
         \/ /\ boot' = [boot EXCEPT !.todo = @ \ {a}, !.failed = @ \union {a}]
            /\ UNCHANGED expires
    /\ BootKeeps

EndBoot ==
    /\ boot.pc = "grant" /\ boot.todo = {}
    /\ boot' = [boot EXCEPT !.pc = "done"]
    /\ BootKeeps /\ UNCHANGED expires

StorageNext ==
    \/ AccessStep \/ StartBoot \/ Grant \/ EndBoot
    \/ NextBlock
    \/ \E a \in storage.busy :
         Gossip(a) \/ IncludeHead(a) \/ \E n \in NodeSet : SentElsewhere(a, n)

StorageSpec == StorageInit /\ [][StorageNext]_StorageVars

(***************************************************************************)
(* Properties.                                                             *)
(***************************************************************************)
StorageTypeOK ==
    /\ storage \in StorageStart
    /\ block \in 0..MaxBlock /\ expires \in [StoreAccounts -> Nat]
    /\ head \in [StoreAccounts -> 0..MaxNonce]
    /\ next \in [StoreAccounts -> [NodeSet -> 0..MaxNonce]]
    /\ access.rest \subseteq PoolAccounts
    /\ access.account \in StoreAccounts \union {NoAccount}
    /\ access.left \in 0..ConfirmReads /\ access.tries \in 0..SlotTries
    /\ uses \in Seq(StoreAccounts) /\ Len(uses) <= MaxConnects
    /\ boot.todo \union boot.failed \subseteq PoolAccounts

\* A deploy that starts on its allowance slot never comes back to it once it has
\* stored from the pool, and on mainnet it never stores from the pool.
NoSignerDrift ==
    StorageMode = "slot" =>
        \A i \in DOMAIN uses :
            /\ uses[i] \in PoolAccounts => storage.network # "mainnet"
            /\ uses[i] = SlotAccount => \A j \in 1..i : uses[j] = SlotAccount

\* A pool account is only refused for a reason that holds. For a stuck queue: none of
\* its transactions was included since its nonce was first read, so a busy account
\* whose queue drains is never taken for a stuck one, whatever backends answered.
\* For want of authorisation: not before the buffer of a bootstrap that granted
\* everything has passed.
RefusedForCause ==
    [][/\ (access.pc = "confirm" /\ (access'.why = "stuck" \/ access'.rest # access.rest))
            => access.base = {head[access.account]} /\ ~Ahead(Min(access.seen))
       /\ (boot.pc = "done" /\ boot.failed = {} /\ block <= boot.at + storage.buffer
             /\ access.why = "none" /\ access.account \in PoolAccounts)
            => access'.why # "unauthorised"]_StorageVars
=============================================================================
