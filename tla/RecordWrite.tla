---------------------------- MODULE RecordWrite ----------------------------
(***************************************************************************)
(* Writing one record of a name, or several in a batch, through the DotNS  *)
(* contracts: DotNS.setContenthash and its siblings, down to               *)
(* signAndSubmitExtrinsic. A deployer runs the write again after it ended; *)
(* sibling deploys share its signer, and so its nonces; every read goes to *)
(* a backend that may lag.                                                 *)
(*                                                                         *)
(* The signer's transactions on the best chain are recordChain: the one    *)
(* with nonce n is at position n + 1, and a backend sees a prefix.         *)
(***************************************************************************)
EXTENDS Naturals, Sequences, FiniteSets

CONSTANTS
    Backends,       \* nodes behind the RPC endpoints
    OldValues,      \* what the record held, oldest first
    NewValue,       \* a value the record never held
    WriteKinds,     \* which records are written
    WriteRegimes,   \* what a behaviour meets: sets of WriteFaults
    MaxRuns,        \* bound: how often the deployer runs the write
    MaxTxAttempts,  \* DOTNS_TX_MAX_ATTEMPTS
    MaxContention,  \* DOTNS_NONCE_CONTENTION_MAX_ATTEMPTS
    MaxReads,       \* CONTENTHASH_VERIFY_ATTEMPTS
    MaxRearms,      \* PHONE_SILENCE_MAX_REARMS
    MaxSiblingTxs,  \* bound: transactions of siblings by the same signer
    MaxWriteReorgs  \* bound: reorganisations of the best chain

\* The deployer runs it again; a sibling takes a nonce; a block is undone; the
\* signer is a phone, which may not answer.
WriteFaults == {"rerun", "sibling", "reorg", "phone"}

(***************************************************************************)
(* What distinguishes the writes: whether a value that is there already is *)
(* not written, whether the nonce is polled, whether the effect can be     *)
(* observed while waiting, and how the record is read back.                *)
(***************************************************************************)
Contenthash ==
    [skips |-> TRUE, polls |-> TRUE, observes |-> TRUE, back |-> "rotating"]
Text == [skips |-> TRUE, polls |-> TRUE, observes |-> TRUE, back |-> "waiting"]
Resolver == [skips |-> TRUE, polls |-> TRUE, observes |-> TRUE, back |-> "never"]
ContenthashAndText ==
    [skips |-> TRUE, polls |-> FALSE, observes |-> TRUE, back |-> "once"]
ResolverAndText ==
    [skips |-> TRUE, polls |-> FALSE, observes |-> TRUE, back |-> "once"]
Texts == [skips |-> FALSE, polls |-> FALSE, observes |-> FALSE, back |-> "waiting"]

Policy ==
    [contenthash |-> Contenthash, text |-> Text, resolver |-> Resolver,
     pair |-> ContenthashAndText, redirect |-> ResolverAndText, texts |-> Texts]

None == "none"      \* what a transaction writes that is not about the record
Values == {OldValues[i] : i \in DOMAIN OldValues} \union {NewValue}

ASSUME WriteAssumption ==
    /\ OldValues \in Seq(STRING) /\ OldValues # <<>> /\ NewValue \in STRING
    /\ None \notin Values
    /\ WriteKinds \subseteq DOMAIN Policy
    /\ WriteRegimes \subseteq SUBSET WriteFaults
    /\ {MaxRuns, MaxTxAttempts, MaxContention, MaxReads} \subseteq Nat \ {0}
    /\ {MaxRearms, MaxSiblingTxs, MaxWriteReorgs} \subseteq Nat

VARIABLES
    recordChain,    \* the signer's transactions on the best chain, by nonce
    recordFinal,    \* length of the finalised prefix
    recordPool,     \* pending transactions of the deployer's runs
    backendView,    \* prefix each backend has seen
    call,           \* the current run of the write
    writeReorgs,    \* reorganisations so far
    writeRegime     \* what this behaviour meets

WriteVars == <<recordChain, recordFinal, recordPool, backendView, call,
               writeReorgs, writeRegime>>

NoNonce == 1000     \* no baseline: nonce polling is off, or its seed read failed

Sibling == MaxRuns + 1

\* The record as a backend that has seen the first k transactions reads it.
RecordAt(k) ==
    LET wrote == {i \in 1..k : recordChain[i].val # None}
    IN  recordChain[CHOOSE i \in wrote : \A j \in wrote : j <= i].val

Reads == RecordAt(backendView[call.conn])
ReadsTarget == Reads = call.target

\* system_accountNextIndex: what the backend saw, and the pool's queue behind it.
QueueFrom(n) ==
    CHOOSE m \in n..(n + Cardinality(recordPool)) :
        /\ \A i \in n..(m - 1) : \E t \in recordPool : t.n = i
        /\ ~\E t \in recordPool : t.n = m

IndexReads == UNION {{backendView[b], QueueFrom(backendView[b])} : b \in Backends}

NewCall(run, kind, target, conn) ==
    [run |-> run, pc |-> "precheck", kind |-> kind, target |-> target, conn |-> conn,
     attempt |-> 1, slot |-> 0, rearms |-> 0, base |-> NoNonce, n |-> NoNonce,
     inBest |-> FALSE, read |-> FALSE, reads |-> 0, how |-> None, from |-> 0]

WriteStart(regime, kind, target, conn, views) ==
    /\ writeRegime = regime
    /\ recordChain = [i \in DOMAIN OldValues |-> [by |-> 0, val |-> OldValues[i]]]
    /\ recordFinal = Len(OldValues)
    /\ recordPool = {}
    /\ backendView = views
    /\ call = NewCall(1, kind, target, conn)
    /\ writeReorgs = 0

WriteInit ==
    \E regime \in WriteRegimes, kind \in WriteKinds, target \in Values,
       conn \in Backends, views \in [Backends -> DOMAIN OldValues] :
        WriteStart(regime, kind, target, conn, views)

(***************************************************************************)
(* The chain, its pools and the backends.                                  *)
(***************************************************************************)
Included(entry) ==
    /\ recordChain' = Append(recordChain, entry)
    /\ recordPool' = {t \in recordPool : t.n > Len(recordChain)}
    /\ recordFinal' = IF "reorg" \in writeRegime THEN recordFinal
                                                ELSE Len(recordChain')
    /\ UNCHANGED <<backendView, call, writeReorgs, writeRegime>>

\* A pending transaction is included and takes effect, or its dispatch fails. One
\* that a pool drops is one that is never included.
IncludeTx ==
    \E t \in recordPool, ok \in BOOLEAN :
        /\ t.n = Len(recordChain)
        /\ Included([by |-> t.run, val |-> IF ok THEN t.val ELSE None])

\* Another deploy of the same signer takes the next nonce, for this name or not.
SiblingTx ==
    /\ "sibling" \in writeRegime
    /\ Cardinality({i \in DOMAIN recordChain : recordChain[i].by = Sibling})
         < MaxSiblingTxs
    /\ \E val \in {None, NewValue} : Included([by |-> Sibling, val |-> val])

FinaliseTx ==
    /\ recordFinal < Len(recordChain)
    /\ recordFinal' = Len(recordChain)
    /\ UNCHANGED <<recordChain, recordPool, backendView, call, writeReorgs, writeRegime>>

CatchUp ==
    \E b \in Backends :
        /\ backendView[b] < Len(recordChain)
        /\ backendView' = [backendView EXCEPT ![b] = @ + 1]
        /\ UNCHANGED <<recordChain, recordFinal, recordPool, call, writeReorgs,
                       writeRegime>>

\* What is not final is undone; the deployer's transactions may come back.
ReorgTxs ==
    /\ "reorg" \in writeRegime /\ writeReorgs < MaxWriteReorgs
    /\ recordFinal < Len(recordChain)
    /\ recordChain' = SubSeq(recordChain, 1, recordFinal)
    /\ recordPool' = recordPool \union
           {[run |-> recordChain[i].by, n |-> i - 1, val |-> recordChain[i].val] :
                i \in {j \in (recordFinal + 1)..Len(recordChain) :
                           recordChain[j].by # Sibling /\ recordChain[j].val # None}}
    /\ backendView' = [b \in Backends |->
                           IF backendView[b] > recordFinal THEN recordFinal
                                                           ELSE backendView[b]]
    /\ writeReorgs' = writeReorgs + 1
    /\ UNCHANGED <<recordFinal, call, writeRegime>>

WriteEnvironment ==
    IncludeTx \/ SiblingTx \/ FinaliseTx \/ CatchUp \/ ReorgTxs

(***************************************************************************)
(* One run of the write.                                                   *)
(***************************************************************************)
KeepChain == UNCHANGED <<recordChain, recordFinal, recordPool, backendView,
                         writeReorgs, writeRegime>>

\* What a call leaves behind.
Ended(pc) == [NewCall(call.run, call.kind, call.target, call.conn) EXCEPT
                  !.pc = pc, !.read = call.read, !.from = call.from, !.how = call.how]
Failed == [Ended("failed") EXCEPT !.read = FALSE, !.from = 0, !.how = None]

Does == Policy[call.kind]

\* The pre-check: a value that is already there is not written again.
PreCheck ==
    /\ call.pc = "precheck"
    /\ \/ /\ Does.skips /\ ReadsTarget
          /\ call' = [call EXCEPT !.pc = "done", !.how = "skipped"]
       \/ /\ Does.skips /\ ~ReadsTarget
          /\ call' = [call EXCEPT !.pc = "prepare", !.read = TRUE,
                                  !.from = backendView[call.conn]]
       \/ call' = [call EXCEPT !.pc = "prepare"]      \* no read, or it failed
    /\ KeepChain

\* submitTransaction: the dry run, and the baseline for nonce polling.
Prepare ==
    /\ call.pc = "prepare" /\ Does.polls
    /\ \/ call' = Failed
       \/ \E base \in {NoNonce} \union IndexReads :
              call' = [call EXCEPT !.pc = "sign", !.base = base]
    /\ KeepChain

\* submitBatchedContractCalls: a dry run of the calls, no baseline.
PrepareBatch ==
    /\ call.pc = "prepare" /\ ~Does.polls
    /\ call' \in {Failed, [call EXCEPT !.pc = "sign"]}
    /\ KeepChain

\* Fault: every attempt takes the nonce after the one before it.
NonceByAttempt == backendView[call.conn] + call.attempt - 1

\* papi signs with the account's nonce as the connected backend has it.
SigningNonce == backendView[call.conn]

Sign ==
    /\ call.pc = "sign"
    /\ call' = [call EXCEPT !.pc = "watch", !.n = SigningNonce, !.inBest = FALSE]
    /\ recordPool' =
           IF SigningNonce < Len(recordChain) THEN recordPool
           ELSE recordPool \union
                  {[run |-> call.run, n |-> SigningNonce, val |-> call.target]}
    /\ UNCHANGED <<recordChain, recordFinal, backendView, writeReorgs, writeRegime>>

\* Fault: the attempts are not counted.
MayAlwaysRetry == call.slot = 0

\* A retryable error (stale, future, transport, silence) starts another attempt,
\* but not in the contention loop; any other error ends the call.
MayRetry == call.slot = 0 /\ call.attempt < MaxTxAttempts
NextAttempt == [call EXCEPT !.pc = "sign", !.n = NoNonce, !.attempt = @ + 1]

\* Signing, the funding gate or the subscription fails.
SubmitFails ==
    /\ call.pc \in {"sign", "watch"}
    /\ \/ MayRetry /\ call' = NextAttempt
       \/ call' = Failed
    /\ KeepChain

\* The poller gives up: the watcher has been silent for too long (retryable), or
\* the chain's clock or the wall clock has run out.
PollGivesUp ==
    /\ call.pc = "watch"
    /\ \/ MayRetry /\ call' = NextAttempt
       \/ call' = Failed
    /\ KeepChain

\* Nobody answers on the phone: contractTransaction submits again from the start.
PhoneSilent ==
    /\ "phone" \in writeRegime /\ call.pc = "sign"
    /\ call' = IF call.kind = "contenthash" /\ call.slot = 0 /\ call.rearms < MaxRearms
                 THEN [call EXCEPT !.pc = "prepare", !.attempt = 1, !.slot = 0,
                                   !.base = NoNonce, !.rearms = @ + 1]
                 ELSE Failed
    /\ KeepChain

Mine ==
    /\ call.n + 1 \in DOMAIN recordChain
    /\ recordChain[call.n + 1].by = call.run

\* What is left to do after the submission resolved; setResolver reads nothing back.
Resolved(how) ==
    [Ended(IF Does.back = "never" THEN "done" ELSE "readback") EXCEPT !.how = how]

\* The subscription reports that the transaction is final.
WatchFinal ==
    /\ call.pc = "watch" /\ Mine /\ call.n < recordFinal
    /\ call' = IF recordChain[call.n + 1].val = None
                 THEN Failed      \* dispatch error
                 ELSE Resolved("hash")
    /\ KeepChain

\* The subscription reports that it entered the best chain, or left it.
WatchBest ==
    /\ call.pc = "watch" /\ call.inBest # Mine
    /\ call' = [call EXCEPT !.inBest = Mine]
    /\ KeepChain

\* verifyNonceAdvanced: one endpoint that answers is enough.
NonceAdvanced == \E n \in IndexReads : n > call.base

\* reacquireNonceOnContention: the baseline is read again, or kept if that fails.
Reacquire ==
    \E base \in {call.base} \union IndexReads :
        call' = [call EXCEPT !.pc = "sign", !.n = NoNonce, !.slot = @ + 1, !.base = base]

\* Fault: the advanced nonce alone is taken for the effect.
PollTrustsNonce ==
    /\ call.pc = "watch" /\ call.base # NoNonce
    /\ NonceAdvanced
    /\ call' = Resolved("advanced")
    /\ KeepChain

\* The poller sees the nonce past the baseline. With the effect it resolves;
\* without, the slot is taken to be a sibling's and a new one is acquired.
PollAdvanced ==
    /\ call.pc = "watch" /\ call.base # NoNonce
    /\ NonceAdvanced
    /\ \/ ReadsTarget /\ call' = Resolved("advanced")
       \/ ~ReadsTarget /\ call.slot < MaxContention /\ Reacquire
       \/ /\ ~ReadsTarget /\ call.slot = MaxContention
          /\ call' = Failed
    /\ KeepChain

\* The poller finds an included transaction's effect before it is final.
PollBest ==
    /\ call.pc = "watch" /\ call.inBest /\ Does.observes /\ ReadsTarget
    /\ call' = Resolved("best")
    /\ KeepChain

\* withTimeout gives the whole submission OPERATION_TIMEOUT_MS.
OperationTimeout ==
    /\ call.pc \in {"sign", "watch"}
    /\ call' = Failed
    /\ KeepChain

\* The record is read again after the submission: once, on the same connection
\* until the chain's clock ends it, or on another one each time.
ReadBackMatches ==
    /\ call.pc = "readback" /\ ReadsTarget
    /\ call' = Ended("done")
    /\ KeepChain

ReadBackRotates ==
    /\ call.pc = "readback" /\ ~ReadsTarget
    /\ Does.back = "rotating" /\ call.reads + 1 < MaxReads
    /\ \E b \in Backends : call' = [call EXCEPT !.reads = @ + 1, !.conn = b]
    /\ KeepChain

ReadBackFails ==
    /\ call.pc = "readback" /\ ~ReadsTarget
    /\ Does.back = "rotating" => call.reads + 1 = MaxReads
    /\ call' = Failed
    /\ KeepChain

WriteEnded == call.pc \in {"done", "failed"}

\* The deployer runs the write again, through a new client.
RunAgain ==
    /\ "rerun" \in writeRegime /\ WriteEnded /\ call.run < MaxRuns
    /\ \E target \in Values, conn \in Backends :
           call' = NewCall(call.run + 1, call.kind, target, conn)
    /\ KeepChain

WriteStep ==
    \/ PreCheck \/ Prepare \/ PrepareBatch \/ Sign \/ SubmitFails \/ PollGivesUp
    \/ PhoneSilent \/ WatchFinal \/ WatchBest \/ PollAdvanced \/ PollBest
    \/ OperationTimeout \/ ReadBackMatches \/ ReadBackRotates \/ ReadBackFails

WriteNext == WriteEnvironment \/ WriteStep \/ RunAgain

WriteSpec == WriteInit /\ [][WriteNext]_WriteVars

(***************************************************************************)
(* Properties.                                                             *)
(***************************************************************************)

\* The call is well formed, and no backend sees more than there is.
WriteTypeOK ==
    /\ recordChain \in Seq([by : 0..Sibling, val : Values \union {None}])
    /\ recordFinal \in 0..Len(recordChain)
    /\ recordPool \subseteq [run : 1..MaxRuns, n : Nat, val : Values]
    /\ backendView \in [Backends -> 0..Len(recordChain)]
    /\ call \in
         [run : 1..MaxRuns, kind : WriteKinds, target : Values, conn : Backends,
          pc : {"precheck", "prepare", "sign", "watch", "readback", "done", "failed"},
          attempt : 1..MaxTxAttempts, slot : 0..MaxContention, rearms : 0..MaxRearms,
          base : Nat, n : Nat, inBest : BOOLEAN, read : BOOLEAN, reads : 0..MaxReads,
          from : Nat,
          how : {None, "skipped", "hash", "advanced", "best"}]
    /\ writeReorgs \in 0..MaxWriteReorgs
    /\ writeRegime \in WriteRegimes

\* A run that read the record before it wrote, and reports success, wrote a
\* value that the record took after the version it had read, although the nonce
\* a poller saw advance may be a sibling's, and a lagging backend may still serve
\* an older version that equals the one being written (a roll-back). Only a
\* reorganisation can take it back, and not from a call that saw finality.
SuccessWasOnChain ==
    call.pc = "done" =>
        /\ (call.read /\ writeReorgs = 0) =>
               \E k \in (call.from + 1)..Len(recordChain) : RecordAt(k) = call.target
        /\ call.how = "hash" =>
               \E k \in 1..recordFinal :
                   recordChain[k] = [by |-> call.run, val |-> call.target]

\* A run that ended never overwrites what a later run wrote, even if it gave up
\* with a transaction pending.
NoLateOverwrite ==
    writeReorgs = 0 =>
        \A i, j \in DOMAIN recordChain :
            (i < j /\ recordChain[j].by # Sibling /\ recordChain[i].by # Sibling) =>
                recordChain[i].by <= recordChain[j].by
=============================================================================
