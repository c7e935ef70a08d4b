-------------------------- MODULE ChunkUpload_proofs --------------------------
(***************************************************************************)
(* Proofs about ChunkUpload, for any number of chunks, accounts, retries   *)
(* and faults: the types, that a call of storeChunkedContent that returns  *)
(* has seen every chunk, and the root it promised, on chain, that its      *)
(* dense nonces are distinct, and how it deals with a lost connection: the *)
(* retry loop never rebases, and no destroyed client is handed back. Which *)
(* faults it takes to sign with another account's nonces is a theorem too. *)
(* Last, the safety half of its termination: no loop goes round for ever.  *)
(***************************************************************************)
EXTENDS ChunkUpload, FiniteSetTheorems, WellFoundedInduction, TLAPS

(***************************************************************************)
(* A nonce read yields a nonce.                                            *)
(***************************************************************************)
LEMMA NonceReadsNat ==
  ASSUME TypeOK, NEW a \in Accounts
  PROVE  NonceReads(a) \subseteq Nat
<1>1. PendingNonces(a) \subseteq Nat
  BY DEF PendingNonces, TypeOK, Txs
<1>2. onchain[a] \in Nat /\ onchain[a] + StuckRun \in Nat
  BY ConstantsAssumption DEF TypeOK
<1>3. NextIndexes(a) \subseteq Nat
  BY <1>1, <1>2 DEF NextIndexes
<1> QED
  BY <1>2, <1>3 DEF NonceReads

(***************************************************************************)
(* assignDenseNonces yields a nonce, or none, for every chunk.             *)
(***************************************************************************)
LEMMA DenseNoncesType ==
  ASSUME NEW st, NEW start \in Nat
  PROVE  DenseNonces(st, start) \in [Chunks -> Int]
<1>1. ASSUME NEW c \in Chunks
      PROVE  Cardinality({d \in Chunks : d < c /\ st[d] = "null"}) \in Nat
  <2>1. IsFiniteSet(Chunks)
    BY ConstantsAssumption, FS_Interval DEF Chunks
  <2>2. IsFiniteSet({d \in Chunks : d < c /\ st[d] = "null"})
    BY <2>1, FS_Subset
  <2> QED
    BY <2>2, FS_CardinalityType
<1> QED
  BY <1>1 DEF DenseNonces, NoNonce

(***************************************************************************)
(* Submitting items at integer nonces keeps the pool, the flight states    *)
(* and the signed nonces well typed.                                       *)
(***************************************************************************)
LEMMA SendType ==
  ASSUME TypeOK, NEW S \in SUBSET Items, NEW nf,
         \A c \in S : nf[c] \in Int,
         Send(S, nf)
  PROVE  /\ pool' \in SUBSET Txs /\ chain' \in SUBSET Txs
         /\ onchain' \in [Accounts -> Nat]
         /\ dropped' \subseteq 0 .. (N + 1)
         /\ foreign' \in Nat /\ reorgs' \in Nat /\ faults' \in Regimes
         /\ flight' \in [Items -> FlightStates]
         /\ signed' \in [Items -> Int]
<1>1. pool' \in SUBSET Txs
  <2>1. PICK accepted \in SUBSET S :
          /\ \A c \in accepted : nf[c] >= onchain[acct]
          /\ pool' = pool \cup
               {[acct |-> acct, nonce |-> nf[c], cid |-> c] : c \in accepted}
    BY DEF Send
  <2>2. ASSUME NEW c \in accepted
        PROVE  [acct |-> acct, nonce |-> nf[c], cid |-> c] \in Txs
    <3>1. c \in 0 .. (N + 1)
      BY ConstantsAssumption DEF Items
    <3>2. nf[c] \in Nat
      BY <2>1 DEF TypeOK
    <3> QED
      BY <3>1, <3>2 DEF TypeOK, Txs
  <2> QED
    BY <2>1, <2>2 DEF TypeOK
<1>2. flight' \in [Items -> FlightStates] /\ signed' \in [Items -> Int]
  BY DEF Send, TypeOK, FlightStates
<1> QED
  BY <1>1, <1>2 DEF Send, TypeOK

(***************************************************************************)
(* A reconnect, whether it works, fails or is swallowed, leaves the        *)
(* connection state well typed.                                            *)
(***************************************************************************)
LEMMA ReconnectType ==
  ASSUME TypeOK,
         \/ \E a \in Accounts : ReconnectTo(a)
         \/ ReconnectSwallowed
         \/ UNCHANGED connVars
  PROVE  /\ acct' \in Accounts /\ live' \in BOOLEAN /\ halted' \in BOOLEAN
         /\ owns' \in BOOLEAN
         /\ reconUsed' \in 0 .. MaxReconnections
         /\ recov' \in 0 .. BudgetMax
<1>1. Recorded \in 0 .. BudgetMax
  BY ConstantsAssumption DEF TypeOK, Recorded
<1>2. MayReconnect => reconUsed + 1 \in 0 .. MaxReconnections
  BY ConstantsAssumption DEF TypeOK, MayReconnect
<1>3. ASSUME NEW a \in Accounts, ReconnectTo(a)
      PROVE  /\ acct' \in Accounts /\ live' \in BOOLEAN /\ halted' \in BOOLEAN
         /\ owns' \in BOOLEAN
             /\ reconUsed' \in 0 .. MaxReconnections
             /\ recov' \in 0 .. BudgetMax
  BY <1>1, <1>2, <1>3 DEF ReconnectTo
<1>4. CASE UNCHANGED connVars
  BY <1>4 DEF TypeOK, connVars
<1>5. CASE ReconnectSwallowed
  BY <1>1, <1>2, <1>3, <1>5 DEF TypeOK, ReconnectSwallowed
<1> QED
  BY <1>3, <1>4, <1>5

(***************************************************************************)
(* Every step of the call keeps the types.                                 *)
(***************************************************************************)
LEMMA ProcessType ==
  ASSUME TypeOK, Process
  PROVE  TypeOK'
<1> USE ConstantsAssumption
    DEF PCs, Done, StoredStates, FlightStates, Answers,
        vars, chainVars, connVars, uploadVars, flightVars, retryVars, verifyVars
<1>1. ASSUME Preflight PROVE TypeOK'
  BY <1>1 DEF Preflight, TypeOK, Refresh
<1>2. ASSUME PreflightFails PROVE TypeOK'
  BY <1>2 DEF PreflightFails, TypeOK, Refresh
<1>3. ASSUME Seed PROVE TypeOK'
  <2>1. PICK n \in NonceReads(acct) :
          /\ stored' \in [Chunks -> StoredStates]
          /\ assigned' = DenseNonces(stored', n)
    BY <1>3 DEF Seed, StoredStates
  <2>2. n \in Nat
    BY <2>1, NonceReadsNat DEF TypeOK
  <2>3. assigned' \in [Chunks -> Int]
    BY <2>1, <2>2, DenseNoncesType
  <2> QED
    BY <1>3, <2>1, <2>3 DEF Seed, TypeOK
<1>4. ASSUME SeedFails PROVE TypeOK'
  BY <1>4 DEF SeedFails, TypeOK, Fail
<1>5. ASSUME LoopReconnect PROVE TypeOK'
  <2>1. PICK a \in Accounts : ReconnectTo(a) /\ Rebase(a)
    BY <1>5 DEF LoopReconnect
  <2>2. assigned' \in [Chunks -> Int] /\ base' \in Accounts
    <3>1. CASE a # acct
      <4>1. PICK n \in NonceReads(a) : assigned' = DenseNonces(stored, n)
        BY <2>1, <3>1 DEF Rebase
      <4>2. n \in Nat
        BY <4>1, NonceReadsNat
      <4> QED
        BY <2>1, <3>1, <4>1, <4>2, DenseNoncesType DEF Rebase
    <3>2. CASE a = acct
      BY <2>1, <3>2 DEF Rebase, TypeOK
    <3> QED
      BY <3>1, <3>2
  <2> QED
    BY <1>5, <2>1, <2>2, ReconnectType DEF LoopReconnect, TypeOK
<1>6. ASSUME LoopReconnectFails PROVE TypeOK'
  BY <1>6 DEF LoopReconnectFails, TypeOK, Fail
<1>7. ASSUME SkipBatch PROVE TypeOK'
  BY <1>7 DEF SkipBatch, TypeOK, BatchSize
<1>8. ASSUME SubmitBatch PROVE TypeOK'
  <2>1. Batch \subseteq Items /\ \A c \in Batch : assigned[c] \in Int
    BY DEF TypeOK, Batch, Chunks, Items
  <2>2. Send(Batch, assigned) /\ size' \in 1 .. 2 /\ work' \subseteq Chunks
    BY <1>8 DEF SubmitBatch, BatchSize, Batch
  <2> QED
    BY <1>8, <2>1, <2>2, SendType DEF SubmitBatch, TypeOK
<1>9. ASSUME BatchSettled PROVE TypeOK'
  <2>1. stored' \in [Chunks -> StoredStates] /\ assigned' \in [Chunks -> Int]
    BY <1>9 DEF BatchSettled, TypeOK, StoredAs, NoNonce
  <2>2. provisional' \subseteq Chunks /\ work' \subseteq Chunks
    BY <1>9 DEF BatchSettled, TypeOK
  <2>3. recov' \in 0 .. BudgetMax /\ pc' \in PCs
    BY <1>9 DEF BatchSettled, TypeOK
  <2> QED
    BY <1>9, <2>1, <2>2, <2>3 DEF BatchSettled, TypeOK
<1>10. ASSUME BatchReconnect PROVE TypeOK'
  <2>1. PICK a \in Accounts, n \in Nat :
          /\ ReconnectTo(a)
          /\ base' \in {a, base}
          /\ assigned' \in {DenseNonces(stored, n)} \cup [Chunks -> Int]
          /\ stored' \in [Chunks -> StoredStates]
          /\ provisional' \subseteq Chunks
          /\ cursor' \in {cursor, cursor + size}
    BY <1>10, NonceReadsNat DEF BatchReconnect, TypeOK, NoNonce
  <2>2. assigned' \in [Chunks -> Int]
    BY <2>1, DenseNoncesType
  <2> QED
    BY <1>10, <2>1, <2>2, ReconnectType DEF BatchReconnect, TypeOK
<1>11. ASSUME BatchReconnectFails PROVE TypeOK'
  BY <1>11 DEF BatchReconnectFails, TypeOK, Fail
<1>12. ASSUME FailuresHandled PROVE TypeOK'
  BY <1>12 DEF FailuresHandled, TypeOK
<1>13. ASSUME TakeFailure PROVE TypeOK'
  <2>1. stored' \in [Chunks -> StoredStates] /\ provisional' \subseteq Chunks
    BY <1>13 DEF TakeFailure, TypeOK, MarkProvisional
  <2>2. /\ work' \subseteq Chunks /\ cur' \in Chunks /\ attempt' \in Nat
        /\ connFail' \in BOOLEAN /\ pc' \in PCs
    <3>1. PICK c \in work :
            \/ work' = work \ {c} /\ UNCHANGED <<cur, attempt, connFail, pc>>
            \/ /\ cur' = c /\ attempt' = 0 /\ connFail' = (flight[c] = "conn")
               /\ pc' = "attempt" /\ UNCHANGED work
      BY <1>13 DEF TakeFailure
    <3>2. (flight[c] = "conn") \in BOOLEAN
      OBVIOUS
    <3>3. connFail' \in BOOLEAN
      BY <3>1, <3>2 DEF TypeOK
    <3> QED
      BY <3>1, <3>3 DEF TypeOK
  <2> QED
    BY <1>13, <2>1, <2>2 DEF TakeFailure, TypeOK
<1>14. ASSUME StartAttempt PROVE TypeOK'
  BY <1>14 DEF StartAttempt, TypeOK, Recorded
<1>15. ASSUME AttemptsFail PROVE TypeOK'
  BY <1>15 DEF AttemptsFail, TypeOK, Fail
<1>16. ASSUME Reconcile PROVE TypeOK'
  BY <1>16 DEF Reconcile, TypeOK, MarkProvisional, NoNonce
<1>17. ASSUME ReconcileFails PROVE TypeOK'
  BY <1>17 DEF ReconcileFails, TypeOK
<1>18. ASSUME Resubmit PROVE TypeOK'
  <2>1. PICK n \in NonceReads(acct) :
          Send({cur}, IF assigned[cur] # NoNonce THEN assigned
                        ELSE [assigned EXCEPT ![cur] = n])
    BY <1>18 DEF Resubmit
  <2> DEFINE nf == IF assigned[cur] # NoNonce THEN assigned
                     ELSE [assigned EXCEPT ![cur] = n]
  <2>2. n \in Nat
    BY <2>1, NonceReadsNat DEF TypeOK
  <2>3. {cur} \subseteq Items /\ \A c \in {cur} : nf[c] \in Int
    BY <2>2 DEF TypeOK, Chunks, Items
  <2>4. Send({cur}, nf)
    BY <2>1
  <2> HIDE DEF nf
  <2> QED
    BY <1>18, <2>3, <2>4, SendType DEF Resubmit, TypeOK
<1>19. ASSUME ResubmitLanded PROVE TypeOK'
  BY <1>19 DEF ResubmitLanded, TypeOK, StoredAs, NoNonce
<1>20. ASSUME ResubmitBackstop PROVE TypeOK'
  BY <1>20 DEF ResubmitBackstop, TypeOK, MarkProvisional, NoNonce
<1>21. ASSUME ResubmitFailed PROVE TypeOK'
  BY <1>21, ReconnectType DEF ResubmitFailed, TypeOK
<1>22. ASSUME EndBatches PROVE TypeOK'
  BY <1>22 DEF EndBatches, TypeOK
<1>23. ASSUME VerifyProbe PROVE TypeOK'
  <2>1. PICK found \in [pending -> Answers] :
          \/ /\ answers' = [c \in Chunks |->
                              IF c \in pending THEN found[c] ELSE answers[c]]
             /\ attempt' = attempt + 1
             /\ pc' \in {"throw", "reprobe"}
             /\ UNCHANGED <<pending, work>>
          \/ /\ answers' = [c \in Chunks |-> "unanswered"]
             /\ attempt' = 0
             /\ pending' \subseteq pending /\ work' \subseteq pending
             /\ pc' \in {"root", "throw", "gap"}
    BY <1>23 DEF VerifyProbe
  <2> QED
    BY <1>23, <2>1 DEF VerifyProbe, TypeOK
<1>24. ASSUME Reprobe PROVE TypeOK'
  BY <1>24, ReconnectType DEF Reprobe, TypeOK
<1>25. ASSUME ReprobeFails PROVE TypeOK'
  BY <1>25 DEF ReprobeFails, TypeOK, Fail
<1>26. ASSUME Gap PROVE TypeOK'
  BY <1>26, ReconnectType DEF Gap, TypeOK
<1>27. ASSUME GapFails PROVE TypeOK'
  BY <1>27 DEF GapFails, TypeOK, Fail
<1>28. ASSUME Reupload PROVE TypeOK'
  <2>1. cur' \in Chunks /\ cur' \in Items
    BY <1>28 DEF Reupload, TypeOK, Chunks, Items
  <2>2. CASE \E n \in NonceReads(acct) : Send({cur'}, [c \in Items |-> n])
    <3>1. PICK n \in NonceReads(acct) : Send({cur'}, [c \in Items |-> n])
      BY <2>2
    <3>2. n \in Nat
      BY <3>1, NonceReadsNat DEF TypeOK
    <3> DEFINE nf == [c \in Items |-> n]
    <3>3. {cur'} \subseteq Items /\ \A c \in {cur'} : nf[c] \in Int
      BY <2>1, <3>2
    <3>4. Send({cur'}, nf)
      BY <3>1
    <3> HIDE DEF nf
    <3>5. /\ pool' \in SUBSET Txs /\ chain' \in SUBSET Txs
          /\ onchain' \in [Accounts -> Nat] /\ dropped' \subseteq 0 .. (N + 1)
          /\ foreign' \in Nat /\ reorgs' \in Nat /\ faults' \in Regimes
          /\ flight' \in [Items -> FlightStates] /\ signed' \in [Items -> Int]
      BY <3>3, <3>4, SendType
    <3>6. attempt' \in Nat /\ pc' \in PCs
      BY <1>28 DEF Reupload, TypeOK
    <3> QED
      BY <1>28, <2>1, <3>5, <3>6 DEF Reupload, TypeOK
  <2>3. CASE /\ flight' = [flight EXCEPT ![cur'] = "error"]
             /\ UNCHANGED <<chainVars, signed>>
    BY <1>28, <2>1, <2>3 DEF Reupload, TypeOK
  <2> QED
    BY <1>28, <2>2, <2>3 DEF Reupload
<1>29. ASSUME ReuploadLanded PROVE TypeOK'
  BY <1>29 DEF ReuploadLanded, TypeOK, StoredAs
<1>30. ASSUME ReuploadFailed PROVE TypeOK'
  BY <1>30, ReconnectType DEF ReuploadFailed, TypeOK
<1>31. ASSUME RoundDone PROVE TypeOK'
  BY <1>31 DEF RoundDone, TypeOK
<1>32. ASSUME RootProbe PROVE TypeOK'
  BY <1>32 DEF RootProbe, TypeOK
<1>33. ASSUME RootSend PROVE TypeOK'
  <2>1. PICK n \in NonceReads(acct) : Send({Root}, [c \in Items |-> n])
    BY <1>33 DEF RootSend
  <2>2. n \in Nat /\ Root \in Items
    BY <2>1, NonceReadsNat DEF TypeOK, Root, Items
  <2> DEFINE nf == [c \in Items |-> n]
  <2>3. {Root} \subseteq Items /\ \A c \in {Root} : nf[c] \in Int
    BY <2>2
  <2>4. Send({Root}, nf)
    BY <2>1
  <2> HIDE DEF nf
  <2>5. /\ pool' \in SUBSET Txs /\ chain' \in SUBSET Txs
        /\ onchain' \in [Accounts -> Nat] /\ dropped' \subseteq 0 .. (N + 1)
        /\ foreign' \in Nat /\ reorgs' \in Nat /\ faults' \in Regimes
        /\ flight' \in [Items -> FlightStates] /\ signed' \in [Items -> Int]
    BY <2>3, <2>4, SendType
  <2>6. attempt' \in Nat /\ pc' \in PCs
    BY <1>33 DEF RootSend, TypeOK
  <2> QED
    BY <1>33, <2>5, <2>6 DEF RootSend, TypeOK
<1>34. ASSUME RootSendFails PROVE TypeOK'
  BY <1>34 DEF RootSendFails, TypeOK, Fail
<1>35. ASSUME RootLanded PROVE TypeOK'
  BY <1>35 DEF RootLanded, TypeOK
<1>36. ASSUME RootFailed PROVE TypeOK'
  BY <1>36, ReconnectType DEF RootFailed, TypeOK
<1>37. ASSUME RootFails PROVE TypeOK'
  BY <1>37 DEF RootFails, TypeOK, Fail
<1>38. ASSUME Return PROVE TypeOK'
  <2>1. Recorded \in 0 .. BudgetMax
    BY DEF Recorded, TypeOK
  <2>2. CASE halted /\ MayReconnect
    <3>1. reconUsed + 1 \in 0 .. MaxReconnections
      BY <2>2 DEF TypeOK, MayReconnect
    <3> QED
      BY <1>38, <2>1, <2>2, <3>1 DEF Return, TypeOK
  <2>3. CASE ~(halted /\ MayReconnect)
    <3>1. live' \in BOOLEAN
      BY <1>38, <2>3 DEF Return, TypeOK
    <3> QED
      BY <1>38, <2>3, <3>1 DEF Return, TypeOK
  <2> QED
    BY <2>2, <2>3
<1>39. ASSUME ReturnFails PROVE TypeOK'
  BY <1>39 DEF ReturnFails, TypeOK, Fail
<1>40. ASSUME Throw PROVE TypeOK'
  BY <1>40 DEF Throw, TypeOK, Fail
<1> QED
  BY <1>1, <1>2, <1>3, <1>4, <1>5, <1>6, <1>7, <1>8, <1>9, <1>10, <1>11,
     <1>12, <1>13, <1>14, <1>15, <1>16, <1>17, <1>18, <1>19, <1>20, <1>21,
     <1>22, <1>23, <1>24, <1>25, <1>26, <1>27, <1>28, <1>29, <1>30, <1>31,
     <1>32, <1>33, <1>34, <1>35, <1>36, <1>37, <1>38, <1>39, <1>40 DEF
     Process

(***************************************************************************)
(* Neither the settling of a watch nor the environment breaks the types.   *)
(***************************************************************************)
LEMMA EnvironmentType ==
  ASSUME TypeOK, Watch \/ Environment \/ Terminated \/ UNCHANGED vars
  PROVE  TypeOK'
<1> USE ConstantsAssumption
    DEF vars, chainVars, connVars, uploadVars, flightVars, retryVars, verifyVars,
        ProcessUnchanged
<1>1. ASSUME Watch PROVE TypeOK'
  <2>1. PICK c \in Items, result \in FlightStates : Settle(c, result)
    BY <1>1 DEF Watch, SettleInBestBlock, SettleRejected, SettleTimeout,
                SettleConnection, FlightStates
  <2> QED
    BY <2>1 DEF Settle, TypeOK
<1>2. ASSUME NEW t \in pool, NEW cid \in 0 .. (N + 1), IncludeAs(t, cid)
      PROVE  TypeOK'
  <2>1. t \in Txs /\ [t EXCEPT !.cid = cid] \in Txs
    BY DEF TypeOK, Txs
  <2>2. onchain' \in [Accounts -> Nat]
    BY <1>2, <2>1 DEF IncludeAs, TypeOK, Txs
  <2> QED
    BY <1>2, <2>1, <2>2 DEF IncludeAs, TypeOK
<1>3. ASSUME NEW t \in pool, Include(t) \/ IncludeFailed(t) PROVE TypeOK'
  <2>1. t.cid \in 0 .. (N + 1) /\ Foreign \in 0 .. (N + 1)
    BY DEF TypeOK, Txs, Foreign
  <2> QED
    BY <1>2, <1>3, <2>1 DEF Include, IncludeFailed
<1>4. ASSUME NEW t \in pool, Expire(t) PROVE TypeOK'
  BY <1>4 DEF Expire, TypeOK
<1>5. ASSUME NEW a \in Accounts, SiblingSend(a) PROVE TypeOK'
  <2>1. PICK n \in NonceReads(a) :
          pool' = pool \cup {[acct |-> a, nonce |-> n, cid |-> Foreign]}
    BY <1>5 DEF SiblingSend
  <2>2. [acct |-> a, nonce |-> n, cid |-> Foreign] \in Txs
    BY NonceReadsNat DEF Txs, Foreign
  <2> QED
    BY <1>5, <2>1, <2>2 DEF SiblingSend, TypeOK
<1>6. ASSUME NEW t \in chain, Reorg(t) PROVE TypeOK'
  <2>1. t \in Txs /\ t.nonce \in Nat /\ t.cid \in 0 .. (N + 1)
    BY DEF TypeOK, Txs
  <2>2. onchain' \in [Accounts -> Nat] /\ reorgs' \in Nat
    BY <1>6, <2>1 DEF Reorg, TypeOK, Txs
  <2>3. pool' \in SUBSET Txs /\ chain' \in SUBSET Txs
    BY <1>6, <2>1 DEF Reorg, TypeOK
  <2> QED
    BY <1>6, <2>1, <2>2, <2>3 DEF Reorg, TypeOK
<1>7. ASSUME WsHalt PROVE TypeOK'
  BY <1>7 DEF WsHalt, TypeOK
<1>8. ASSUME Terminated \/ UNCHANGED vars PROVE TypeOK'
  BY <1>8 DEF Terminated, TypeOK
<1> QED
  BY <1>1, <1>3, <1>4, <1>5, <1>6, <1>7, <1>8 DEF Environment

(***************************************************************************)
(* Type correctness.                                                       *)
(***************************************************************************)
THEOREM TypeCorrect == Spec => []TypeOK
<1>1. Init => TypeOK
  <2> SUFFICES ASSUME Init PROVE TypeOK
    OBVIOUS
  <2>1. live \in BOOLEAN /\ owns \in BOOLEAN
    BY ConstantsAssumption DEF Init
  <2>2. pc \in PCs /\ halted \in BOOLEAN /\ connFail \in BOOLEAN
    BY DEF Init, PCs
  <2>3. /\ stored \in [Chunks -> StoredStates] /\ assigned \in [Chunks -> Int]
        /\ flight \in [Items -> FlightStates] /\ signed \in [Items -> Int]
        /\ answers \in [Chunks -> Answers] /\ onchain \in [Accounts -> Nat]
    BY DEF Init, StoredStates, FlightStates, Answers, NoNonce
  <2>4. /\ reconUsed \in 0 .. MaxReconnections /\ recov \in 0 .. BudgetMax
        /\ cur \in Chunks
    BY ConstantsAssumption DEF Init, Chunks
  <2> QED
    BY <2>1, <2>2, <2>3, <2>4 DEF Init, TypeOK
<1>2. TypeOK /\ [Next]_vars => TypeOK'
  BY ProcessType, EnvironmentType DEF Next
<1> QED
  BY <1>1, <1>2, PTL DEF Spec

(***************************************************************************)
(* The chain never forgets: an item that was on chain stays one that was,  *)
(* and the steps of the call themselves change nothing about it.           *)
(***************************************************************************)
LEMMA SeenStable ==
  ASSUME NEW i, WasOnChain(i), [Next]_vars
  PROVE  WasOnChain(i)'
<1>1. ASSUME UNCHANGED <<chain, dropped>> PROVE WasOnChain(i)'
  BY <1>1 DEF WasOnChain, OnChain
<1>2. ASSUME Process PROVE UNCHANGED <<chain, dropped>>
  BY <1>2 DEF Process, Preflight, PreflightFails, Seed, SeedFails,
              LoopReconnect, LoopReconnectFails, SkipBatch, SubmitBatch,
              BatchSettled, BatchReconnect, BatchReconnectFails,
              FailuresHandled, TakeFailure, StartAttempt, AttemptsFail,
              Reconcile, ReconcileFails, Resubmit, ResubmitLanded,
              ResubmitBackstop, ResubmitFailed, EndBatches, VerifyProbe,
              Reprobe, ReprobeFails, Gap, GapFails, Reupload,
              ReuploadLanded, ReuploadFailed, RoundDone, RootProbe,
              RootSend, RootSendFails, RootLanded, RootFailed, RootFails,
              Return, ReturnFails, Throw, Fail, Send, chainVars
<1>3. ASSUME Watch \/ Terminated \/ UNCHANGED vars PROVE UNCHANGED <<chain, dropped>>
  BY <1>3 DEF Watch, SettleInBestBlock, SettleRejected, SettleTimeout,
              SettleConnection, Settle, Terminated, vars, chainVars
<1>4. ASSUME Environment PROVE WasOnChain(i)'
  BY <1>4 DEF Environment, Include, IncludeFailed, IncludeAs, Expire, SiblingSend,
              Reorg, WsHalt, chainVars, WasOnChain, OnChain
<1> QED
  BY <1>1, <1>2, <1>3, <1>4 DEF Next

(***************************************************************************)
(* A submission leaves the evidence as it is: what is sent has not         *)
(* succeeded yet.                                                          *)
(***************************************************************************)
LEMMA SendEvidence ==
  ASSUME UploadInv, NEW S, NEW nf, Send(S, nf), NEW i \in Items
  PROVE  flight'[i] \in Succeeded => flight[i] \in Succeeded
BY DEF Send, Succeeded

(***************************************************************************)
(* A recorded chunk that is not provisional was seen on chain.             *)
(***************************************************************************)
LEMMA UnprovisionalSeen ==
  ASSUME UploadInv, NEW c \in Chunks, stored[c] # "null", c \notin provisional
  PROVE  WasOnChain(c)
BY DEF UploadInv, TypeOK, StoredStates, Evidence

(***************************************************************************)
(* Every step of the call keeps the evidence, the coverage of the chunks   *)
(* and the verification of the provisional ones.                           *)
(***************************************************************************)
LEMMA ProcessInv ==
  ASSUME UploadInv, Process
  PROVE  (Evidence /\ Covered /\ Verified)'
<1>a. \A i : WasOnChain(i) => WasOnChain(i)'
  BY SeenStable DEF Next
<1> USE <1>a, ConstantsAssumption
    DEF UploadInv, TypeOK, BatchPCs, VerifyPCs, RootPCs, Succeeded, AllStored,
        chainVars, connVars, uploadVars, flightVars, retryVars, verifyVars
<1>1. ASSUME Preflight PROVE (Evidence /\ Covered /\ Verified)'
  BY <1>1 DEF Preflight, Evidence, Covered, Verified, Refresh
<1>2. ASSUME PreflightFails PROVE (Evidence /\ Covered /\ Verified)'
  BY <1>2 DEF PreflightFails, Evidence, Covered, Verified, Refresh
<1>3. ASSUME Seed PROVE (Evidence /\ Covered /\ Verified)'
  <2>1. Evidence'
    BY <1>3, TrustedAssumption DEF Seed, Evidence, ProbeAnswers, WasOnChain, OnChain
  <2>2. Covered'
    BY <1>3 DEF Seed, Covered, Chunks
  <2>3. Verified'
    BY <1>3 DEF Seed, Verified
  <2> QED
    BY <2>1, <2>2, <2>3
<1>4. ASSUME SeedFails PROVE (Evidence /\ Covered /\ Verified)'
  BY <1>4 DEF SeedFails, Evidence, Covered, Verified, Fail
<1>5. ASSUME LoopReconnect PROVE (Evidence /\ Covered /\ Verified)'
  BY <1>5 DEF LoopReconnect, Evidence, Covered, Verified
<1>6. ASSUME LoopReconnectFails PROVE (Evidence /\ Covered /\ Verified)'
  BY <1>6 DEF LoopReconnectFails, Evidence, Covered, Verified, Fail
<1>7. ASSUME SkipBatch PROVE (Evidence /\ Covered /\ Verified)'
  <2>1. \A c \in Chunks : cursor <= c /\ c < cursor + BatchSize => stored[c] # "null"
    BY <1>7 DEF SkipBatch, Batch
  <2>2. \A c \in Chunks : c < cursor => stored[c] # "null"
    BY DEF Covered
  <2>3. \A c \in Chunks : c < cursor' => stored'[c] # "null"
    BY <1>7, <2>1, <2>2 DEF SkipBatch, BatchSize, Chunks
  <2>4. Evidence' /\ Verified'
    BY <1>7 DEF SkipBatch, Evidence, Verified
  <2>5. Covered'
    BY <1>7, <2>3 DEF SkipBatch, Covered
  <2> QED
    BY <2>4, <2>5
<1>8. ASSUME SubmitBatch PROVE (Evidence /\ Covered /\ Verified)'
  <2>a. \A i \in Items : flight'[i] \in Succeeded => flight[i] \in Succeeded
    BY <1>8, SendEvidence DEF SubmitBatch
  <2>1. Evidence'
    BY <1>8, <2>a DEF SubmitBatch, Evidence
  <2>2. Covered'
    BY <1>8 DEF SubmitBatch, Covered, Batch, BatchSize, Chunks
  <2>3. Verified'
    BY <1>8 DEF SubmitBatch, Verified
  <2> QED
    BY <2>1, <2>2, <2>3
<1>9. ASSUME BatchSettled PROVE (Evidence /\ Covered /\ Verified)'
  <2>1. Evidence'
    BY <1>9 DEF BatchSettled, Evidence, StoredAs, Chunks, Items
  <2>2. Covered'
    BY <1>9 DEF BatchSettled, Covered, StoredAs
  <2>3. Verified'
    BY <1>9 DEF BatchSettled, Verified, StoredAs
  <2> QED
    BY <2>1, <2>2, <2>3
<1>10. ASSUME BatchReconnect PROVE (Evidence /\ Covered /\ Verified)'
  BY <1>10 DEF BatchReconnect, Evidence, Covered, Verified
<1>11. ASSUME BatchReconnectFails PROVE (Evidence /\ Covered /\ Verified)'
  BY <1>11 DEF BatchReconnectFails, Evidence, Covered, Verified, Fail
<1>12. ASSUME FailuresHandled PROVE (Evidence /\ Covered /\ Verified)'
  BY <1>12 DEF FailuresHandled, Evidence, Covered, Verified
<1>13. ASSUME TakeFailure PROVE (Evidence /\ Covered /\ Verified)'
  <2>1. Evidence'
    BY <1>13 DEF TakeFailure, Evidence, MarkProvisional
  <2>2. Covered'
    BY <1>13 DEF TakeFailure, Covered, MarkProvisional, IsFirst
  <2>3. Verified'
    BY <1>13 DEF TakeFailure, Verified, MarkProvisional
  <2> QED
    BY <2>1, <2>2, <2>3
<1>14. ASSUME StartAttempt PROVE (Evidence /\ Covered /\ Verified)'
  BY <1>14 DEF StartAttempt, Evidence, Covered, Verified, Recorded
<1>15. ASSUME AttemptsFail PROVE (Evidence /\ Covered /\ Verified)'
  BY <1>15 DEF AttemptsFail, Evidence, Covered, Verified, Fail
<1>16. ASSUME Reconcile PROVE (Evidence /\ Covered /\ Verified)'
  BY <1>16 DEF Reconcile, Evidence, Covered, Verified, MarkProvisional, NoNonce
<1>17. ASSUME ReconcileFails PROVE (Evidence /\ Covered /\ Verified)'
  BY <1>17 DEF ReconcileFails, Evidence, Covered, Verified
<1>18. ASSUME Resubmit PROVE (Evidence /\ Covered /\ Verified)'
  <2>a. \A i \in Items : flight'[i] \in Succeeded => flight[i] \in Succeeded
    BY <1>18, SendEvidence DEF Resubmit
  <2>1. Evidence'
    BY <1>18, <2>a DEF Resubmit, Evidence
  <2>2. Covered'
    BY <1>18 DEF Resubmit, Covered
  <2>3. Verified'
    BY <1>18 DEF Resubmit, Verified
  <2> QED
    BY <2>1, <2>2, <2>3
<1>19. ASSUME ResubmitLanded PROVE (Evidence /\ Covered /\ Verified)'
  <2>1. Evidence'
    BY <1>19 DEF ResubmitLanded, Evidence, StoredAs, Chunks, Items
  <2>2. Covered'
    BY <1>19 DEF ResubmitLanded, Covered, StoredAs
  <2>3. Verified'
    BY <1>19 DEF ResubmitLanded, Verified, StoredAs
  <2> QED
    BY <2>1, <2>2, <2>3
<1>20. ASSUME ResubmitBackstop PROVE (Evidence /\ Covered /\ Verified)'
  BY <1>20 DEF ResubmitBackstop, Evidence, Covered, Verified, MarkProvisional, NoNonce
<1>21. ASSUME ResubmitFailed PROVE (Evidence /\ Covered /\ Verified)'
  BY <1>21 DEF ResubmitFailed, Evidence, Covered, Verified
<1>22. ASSUME EndBatches PROVE (Evidence /\ Covered /\ Verified)'
  <2>1. Evidence'
    BY <1>22 DEF EndBatches, Evidence
  <2>2. Covered'
    BY <1>22 DEF EndBatches, Covered, Chunks
  <2>3. Verified'
    BY SMTT(60), <1>22, UnprovisionalSeen DEF EndBatches, Verified, Covered, Chunks
  <2> QED
    BY <2>1, <2>2, <2>3
<1>23. ASSUME VerifyProbe PROVE (Evidence /\ Covered /\ Verified)'
  <2>1. PICK found \in [pending -> Answers] :
          /\ \A c \in pending : IF answers[c] = "unanswered"
                                  THEN found[c] \in ProbeAnswers(c)
                                  ELSE found[c] = answers[c]
          /\ \/ /\ answers' = [c \in Chunks |->
                                 IF c \in pending THEN found[c] ELSE answers[c]]
                /\ pc' \in {"throw", "reprobe"}
                /\ UNCHANGED <<pending, work>>
             \/ /\ \A c \in pending : found[c] # "unanswered"
                /\ answers' = [c \in Chunks |-> "unanswered"]
                /\ pending' = {c \in pending : found[c] = "absent"}
                /\ work' = pending'
                /\ pc' \in {"throw", "gap"} \/ (pc' = "root" /\ pending' = {})
    BY <1>23 DEF VerifyProbe
  <2>2. \A c \in pending : found[c] = "present" => WasOnChain(c)
    BY <1>23, <2>1 DEF VerifyProbe, Evidence, ProbeAnswers, WasOnChain
  <2>3. Evidence'
    BY <1>23, <2>1, <2>2 DEF VerifyProbe, Evidence
  <2>4. Covered'
    BY <1>23, <2>1 DEF VerifyProbe, Covered
  <2>5. \A c \in provisional : c \in pending' \/ WasOnChain(c)
    BY <1>23, <2>1, <2>2 DEF VerifyProbe, Verified, Answers
  <2>6. pc' = "root" => \A c \in Chunks : WasOnChain(c)
    BY <1>23, <2>1, <2>5, UnprovisionalSeen DEF VerifyProbe, Covered
  <2>7. Verified'
    BY <1>23, <2>1, <2>5, <2>6 DEF VerifyProbe, Verified
  <2> QED
    BY <2>3, <2>4, <2>7
<1>24. ASSUME Reprobe PROVE (Evidence /\ Covered /\ Verified)'
  BY <1>24 DEF Reprobe, Evidence, Covered, Verified
<1>25. ASSUME ReprobeFails PROVE (Evidence /\ Covered /\ Verified)'
  BY <1>25 DEF ReprobeFails, Evidence, Covered, Verified, Fail
<1>26. ASSUME Gap PROVE (Evidence /\ Covered /\ Verified)'
  BY <1>26 DEF Gap, Evidence, Covered, Verified
<1>27. ASSUME GapFails PROVE (Evidence /\ Covered /\ Verified)'
  BY <1>27 DEF GapFails, Evidence, Covered, Verified, Fail
<1>28. ASSUME Reupload PROVE (Evidence /\ Covered /\ Verified)'
  <2>a. \A i \in Items : flight'[i] \in Succeeded => flight[i] \in Succeeded
    BY <1>28, SendEvidence DEF Reupload
  <2>1. Evidence'
    BY <1>28, <2>a DEF Reupload, Evidence
  <2>2. Covered'
    BY <1>28 DEF Reupload, Covered
  <2>3. Verified'
    BY <1>28 DEF Reupload, Verified
  <2> QED
    BY <2>1, <2>2, <2>3
<1>29. ASSUME ReuploadLanded PROVE (Evidence /\ Covered /\ Verified)'
  <2>1. Evidence'
    BY <1>29 DEF ReuploadLanded, Evidence, StoredAs, Verified, Covered, Chunks, Items
  <2>2. Covered'
    BY <1>29 DEF ReuploadLanded, Covered, StoredAs
  <2>3. Verified'
    BY <1>29 DEF ReuploadLanded, Verified, Evidence, Chunks, Items
  <2> QED
    BY <2>1, <2>2, <2>3
<1>30. ASSUME ReuploadFailed PROVE (Evidence /\ Covered /\ Verified)'
  BY <1>30 DEF ReuploadFailed, Evidence, Covered, Verified
<1>31. ASSUME RoundDone PROVE (Evidence /\ Covered /\ Verified)'
  <2>1. Evidence'
    BY <1>31 DEF RoundDone, Evidence
  <2>2. Covered'
    BY <1>31 DEF RoundDone, Covered
  <2>3. Verified'
    BY <1>31, UnprovisionalSeen DEF RoundDone, Verified, Covered
  <2> QED
    BY <2>1, <2>2, <2>3
<1>32. ASSUME RootProbe PROVE (Evidence /\ Covered /\ Verified)'
  <2>1. Evidence'
    BY <1>32 DEF RootProbe, Evidence
  <2>2. Covered'
    BY <1>32 DEF RootProbe, Covered
  <2>3. Verified'
    BY <1>32 DEF RootProbe, Verified, ProbeAnswers, WasOnChain
  <2> QED
    BY <2>1, <2>2, <2>3
<1>33. ASSUME RootSend PROVE (Evidence /\ Covered /\ Verified)'
  <2>a. \A i \in Items : flight'[i] \in Succeeded => flight[i] \in Succeeded
    BY <1>33, SendEvidence DEF RootSend
  <2>1. Evidence'
    BY <1>33, <2>a DEF RootSend, Evidence
  <2>2. Covered'
    BY <1>33 DEF RootSend, Covered
  <2>3. Verified'
    BY <1>33 DEF RootSend, Verified
  <2> QED
    BY <2>1, <2>2, <2>3
<1>34. ASSUME RootSendFails PROVE (Evidence /\ Covered /\ Verified)'
  BY <1>34 DEF RootSendFails, Evidence, Covered, Verified, Fail
<1>35. ASSUME RootLanded PROVE (Evidence /\ Covered /\ Verified)'
  <2>1. Evidence'
    BY <1>35 DEF RootLanded, Evidence
  <2>2. Covered'
    BY <1>35 DEF RootLanded, Covered
  <2>3. Verified'
    BY <1>35 DEF RootLanded, Verified, Evidence, Root, Items
  <2> QED
    BY <2>1, <2>2, <2>3
<1>36. ASSUME RootFailed PROVE (Evidence /\ Covered /\ Verified)'
  BY <1>36 DEF RootFailed, Evidence, Covered, Verified
<1>37. ASSUME RootFails PROVE (Evidence /\ Covered /\ Verified)'
  BY <1>37 DEF RootFails, Evidence, Covered, Verified, Fail
<1>38. ASSUME Return PROVE (Evidence /\ Covered /\ Verified)'
  BY <1>38 DEF Return, Evidence, Covered, Verified
<1>39. ASSUME ReturnFails PROVE (Evidence /\ Covered /\ Verified)'
  BY <1>39 DEF ReturnFails, Evidence, Covered, Verified, Fail
<1>40. ASSUME Throw PROVE (Evidence /\ Covered /\ Verified)'
  BY <1>40 DEF Throw, Evidence, Covered, Verified, Fail
<1> QED
  BY <1>1, <1>2, <1>3, <1>4, <1>5, <1>6, <1>7, <1>8, <1>9, <1>10, <1>11,
     <1>12, <1>13, <1>14, <1>15, <1>16, <1>17, <1>18, <1>19, <1>20, <1>21,
     <1>22, <1>23, <1>24, <1>25, <1>26, <1>27, <1>28, <1>29, <1>30, <1>31,
     <1>32, <1>33, <1>34, <1>35, <1>36, <1>37, <1>38, <1>39, <1>40 DEF
     Process

(***************************************************************************)
(* Nor do the settling of a watch or the environment break them.           *)
(***************************************************************************)
LEMMA EnvironmentInv ==
  ASSUME UploadInv, Watch \/ Environment \/ Terminated \/ UNCHANGED vars
  PROVE  (Evidence /\ Covered /\ Verified)'
<1>a. \A i : WasOnChain(i) => WasOnChain(i)'
  BY SeenStable DEF Next
<1> USE DEF UploadInv, chainVars, connVars, uploadVars, flightVars, retryVars, verifyVars
<1>1. CASE Watch
  <2>1. PICK c \in Items, result \in FlightStates :
          /\ Settle(c, result)
          /\ result \in Succeeded => WasOnChain(c)
    BY <1>1 DEF Watch, SettleInBestBlock, SettleRejected, SettleTimeout,
                SettleConnection, FlightStates, Succeeded, TxOf, WasOnChain, OnChain
  <2>2. \A i \in Items : flight'[i] \in Succeeded => WasOnChain(i)
    BY <2>1 DEF Settle, Evidence, TypeOK
  <2>3. Evidence'
    BY <1>a, <2>1, <2>2 DEF Settle, Evidence
  <2>4. Covered' /\ Verified'
    BY <1>a, <2>1 DEF Settle, Covered, Verified, AllStored
  <2> QED
    BY <2>3, <2>4
<1>2. CASE Environment \/ Terminated \/ UNCHANGED vars
  <2>1. UNCHANGED <<uploadVars, flightVars, retryVars, verifyVars, pc, work>>
    BY <1>2 DEF Environment, Include, IncludeFailed, IncludeAs, Expire, SiblingSend,
                Reorg, WsHalt, ProcessUnchanged, Terminated, vars
  <2> QED
    BY <1>a, <2>1 DEF Evidence, Covered, Verified, AllStored
<1> QED
  BY <1>1, <1>2

(***************************************************************************)
(* The inductive invariant, and what it is for: a call that returns has    *)
(* seen every chunk on chain, and the root unless it was told to skip it,  *)
(* and its integrity check never fails.                                    *)
(***************************************************************************)
THEOREM UploadInvariant == Spec => []UploadInv
<1>1. Init => Evidence /\ Covered /\ Verified
  BY DEF Init, Evidence, Covered, Verified, BatchPCs, VerifyPCs, RootPCs,
         Succeeded, Chunks
<1>2. UploadInv /\ [Next]_vars => (Evidence /\ Covered /\ Verified)'
  BY ProcessInv, EnvironmentInv DEF Next
<1>3. Init /\ TypeOK => UploadInv
  BY <1>1 DEF UploadInv
<1>4. UploadInv /\ TypeOK' /\ [Next]_vars => UploadInv'
  BY <1>2 DEF UploadInv
<1> QED
  BY <1>3, <1>4, TypeCorrect, PTL DEF Spec

\* No call returns over a chunk that never was on chain (#1656, #1657).
THEOREM OkMeansStoredHolds == Spec => []OkMeansStored
<1>1. UploadInv => OkMeansStored
  BY DEF UploadInv, Verified, RootPCs, OkMeansStored
<1> QED
  BY <1>1, UploadInvariant, PTL

\* No call returns without the root it was to store (#1672).
THEOREM OkMeansRootedHolds == Spec => []OkMeansRooted
<1>1. UploadInv => OkMeansRooted
  BY DEF UploadInv, Verified, RootPCs, OkMeansRooted
<1> QED
  BY <1>1, UploadInvariant, PTL

\* The integrity check before the DAG is built never throws.
THEOREM IntegrityHoldsAlways == Spec => []IntegrityHolds
<1>1. UploadInv => IntegrityHolds
  BY DEF UploadInv, Covered, RootPCs, IntegrityHolds
<1> QED
  BY <1>1, UploadInvariant, PTL

-----------------------------------------------------------------------------
(***************************************************************************)
(* assignDenseNonces gives every chunk that is still to be submitted a     *)
(* nonce, and no two of them the same: of two pending chunks, the later    *)
(* one has strictly more pending chunks before it.                         *)
(***************************************************************************)
LEMMA DenseNoncesDistinct ==
  ASSUME NEW st, NEW start \in Nat, NEW c \in Chunks, st[c] = "null"
  PROVE  /\ DenseNonces(st, start)[c] # NoNonce
         /\ \A d \in Chunks \ {c} : st[d] = "null"
              => DenseNonces(st, start)[d] # DenseNonces(st, start)[c]
<1> DEFINE Before(d) == {e \in Chunks : e < d /\ st[e] = "null"}
<1>1. \A d \in Chunks : /\ IsFiniteSet(Before(d))
                        /\ Cardinality(Before(d)) \in Nat
  <2> TAKE d \in Chunks
  <2>1. IsFiniteSet(Chunks)
    BY ConstantsAssumption, FS_Interval DEF Chunks
  <2>2. IsFiniteSet(Before(d))
    BY <2>1, FS_Subset
  <2> QED
    BY <2>2, FS_CardinalityType
<1>2. ASSUME NEW d \in Chunks, NEW e \in Chunks, d < e, st[d] = "null"
      PROVE  Cardinality(Before(d)) < Cardinality(Before(e))
  <2>1. Before(d) \in SUBSET Before(e)
    BY <1>2 DEF Chunks
  <2>2. d \in Before(e) /\ d \notin Before(d)
    BY <1>2 DEF Chunks
  <2>3. Before(d) # Before(e)
    BY <2>2
  <2> HIDE DEF Before
  <2>4. /\ Cardinality(Before(d)) <= Cardinality(Before(e))
        /\ Cardinality(Before(e)) # Cardinality(Before(d))
    BY <1>1, <2>1, <2>3, FS_Subset
  <2> QED
    BY <1>1, <2>4
<1>3. \A d \in Chunks : st[d] = "null"
        => DenseNonces(st, start)[d] = start + Cardinality(Before(d))
  BY DEF DenseNonces
<1>4. \A d \in Chunks \ {c} : d < c \/ c < d
  BY DEF Chunks
<1> HIDE DEF Before
<1>5. DenseNonces(st, start)[c] # NoNonce
  BY <1>1, <1>3 DEF NoNonce
<1>6. ASSUME NEW d \in Chunks \ {c}, st[d] = "null"
      PROVE  DenseNonces(st, start)[d] # DenseNonces(st, start)[c]
  <2>1. Cardinality(Before(d)) # Cardinality(Before(c))
    BY <1>1, <1>2, <1>4, <1>6
  <2> QED
    BY <1>1, <1>3, <1>6, <2>1
<1> QED
  BY <1>5, <1>6

(***************************************************************************)
(* Every step of the call computes the nonces afresh, or leaves those of   *)
(* the chunks that still need one.                                         *)
(***************************************************************************)
LEMMA NoncesOfStep ==
  ASSUME TypeOK, Process
  PROVE  \/ \E n \in Nat : assigned' = DenseNonces(stored', n)
         \/ /\ Batching' => Batching
            /\ \A c \in Chunks : stored'[c] = "null"
                 => stored[c] = "null" /\ assigned'[c] = assigned[c]
<1> USE DEF Batching, uploadVars, StoredStates
<1>1. CASE Seed
  <2>1. PICK n \in NonceReads(acct) : assigned' = DenseNonces(stored', n)
    BY <1>1 DEF Seed
  <2> QED
    BY <2>1, NonceReadsNat DEF TypeOK
<1>2. CASE LoopReconnect
  <2>1. PICK a \in Accounts : Rebase(a)
    BY <1>2 DEF LoopReconnect
  <2>2. pc' = pc /\ stored' = stored
    BY <1>2 DEF LoopReconnect
  <2>3. CASE a # acct
    BY <2>1, <2>2, <2>3, NonceReadsNat DEF Rebase
  <2>4. CASE a = acct
    BY <2>1, <2>2, <2>4 DEF Rebase
  <2> QED
    BY <2>3, <2>4
<1>3. CASE BatchReconnect
  <2>1. PICK a \in Accounts : \E n \in NonceReads(a) :
          LET consumed == IF a # acct THEN {} ELSE
                            {c \in work : assigned[c] # NoNonce /\ assigned[c] < n}
          IN /\ stored' = [c \in Chunks |->
                             IF c \in consumed THEN "fallback" ELSE stored[c]]
             /\ assigned' = IF a # acct THEN DenseNonces(stored, n) ELSE
                              [c \in Chunks |->
                                 IF c \in consumed THEN NoNonce ELSE assigned[c]]
    BY <1>3 DEF BatchReconnect
  <2>2. CASE a # acct
    <3>1. PICK n \in NonceReads(a) :
            stored' = stored /\ assigned' = DenseNonces(stored, n)
      BY <2>1, <2>2 DEF TypeOK
    <3> QED
      BY <3>1, NonceReadsNat
  <2>3. CASE a = acct
    BY <1>3, <2>1, <2>3 DEF BatchReconnect
  <2> QED
    BY <2>2, <2>3
<1>4. CASE BatchSettled
  BY <1>4 DEF BatchSettled, StoredAs
<1>5. CASE TakeFailure \/ Reconcile
  BY <1>5 DEF TakeFailure, Reconcile, MarkProvisional, TypeOK
<1>6. CASE ResubmitLanded \/ ResubmitBackstop \/ ReuploadLanded
  BY <1>6 DEF ResubmitLanded, ResubmitBackstop, ReuploadLanded, StoredAs,
              MarkProvisional, TypeOK
<1>7. CASE \/ SkipBatch \/ SubmitBatch \/ FailuresHandled \/ StartAttempt
           \/ ReconcileFails \/ Resubmit \/ ResubmitFailed
  BY <1>7 DEF SkipBatch, SubmitBatch, FailuresHandled, StartAttempt,
              ReconcileFails, Resubmit, ResubmitFailed
<1>8. CASE \/ Preflight \/ PreflightFails \/ EndBatches \/ VerifyProbe
           \/ Reprobe \/ Gap \/ Reupload \/ ReuploadFailed \/ RoundDone
           \/ RootProbe \/ RootSend \/ RootLanded \/ RootFailed \/ Return
  BY <1>8 DEF Preflight, PreflightFails, EndBatches, VerifyProbe, Reprobe, Gap,
              Reupload, ReuploadFailed, RoundDone, RootProbe, RootSend,
              RootLanded, RootFailed, Return
<1>9. CASE Fail
  BY <1>9 DEF Fail
<1> QED
  BY <1>1, <1>2, <1>3, <1>4, <1>5, <1>6, <1>7, <1>8, <1>9
     DEF Process, SeedFails, LoopReconnectFails, BatchReconnectFails,
         AttemptsFail, ReprobeFails, GapFails, RootSendFails, RootFails,
         ReturnFails, Throw

(***************************************************************************)
(* What is not a step of the call leaves its bookkeeping alone.            *)
(***************************************************************************)
LEMMA OthersKeepBooks ==
  ASSUME Watch \/ Environment \/ Terminated \/ UNCHANGED vars
  PROVE  UNCHANGED <<uploadVars, retryVars, verifyVars, pc, work>>
BY DEF Watch, SettleInBestBlock, SettleRejected, SettleTimeout,
       SettleConnection, Settle, Environment, Include, IncludeFailed,
       IncludeAs, Expire, SiblingSend, Reorg, WsHalt, ProcessUnchanged,
       Terminated, vars

\* Every chunk still to be submitted has a nonce of its own, through every
\* restart of a batch, retry and rebase onto another account.
THEOREM NoncesAlwaysDistinct == Spec => []NoncesDistinct
<1>1. Init => NoncesDistinct
  BY DEF Init, NoncesDistinct, Batching
<1>2. TypeOK /\ TypeOK' /\ NoncesDistinct /\ [Next]_vars => NoncesDistinct'
  <2> SUFFICES ASSUME TypeOK, TypeOK', NoncesDistinct, [Next]_vars
               PROVE  NoncesDistinct'
    OBVIOUS
  <2>1. CASE \E n \in Nat : assigned' = DenseNonces(stored', n)
    <3>1. PICK n \in Nat : assigned' = DenseNonces(stored', n)
      BY <2>1
    <3>2. \A c \in Chunks : stored'[c] = "null"
            => /\ assigned'[c] # NoNonce
               /\ \A d \in Chunks \ {c} :
                    stored'[d] = "null" => assigned'[d] # assigned'[c]
      BY <3>1, DenseNoncesDistinct
    <3> QED
      BY <3>2 DEF NoncesDistinct
  <2>2. CASE /\ Batching' => Batching
             /\ \A c \in Chunks : stored'[c] = "null"
                  => stored[c] = "null" /\ assigned'[c] = assigned[c]
    BY <2>2 DEF NoncesDistinct
  <2>3. CASE Process
    BY <2>1, <2>2, <2>3, NoncesOfStep
  <2>4. CASE Watch \/ Environment \/ Terminated \/ UNCHANGED vars
    BY <2>2, <2>4, OthersKeepBooks DEF uploadVars, Batching
  <2> QED
    BY <2>3, <2>4 DEF Next
<1> QED
  BY <1>1, <1>2, TypeCorrect, PTL DEF Spec

-----------------------------------------------------------------------------
(***************************************************************************)
(* The reconnections used up never come back.                              *)
(***************************************************************************)
LEMMA ReconnectionsOnlyUsed ==
  ASSUME TypeOK, [Next]_vars, ~MayReconnect
  PROVE  ~MayReconnect'
<1> USE ConstantsAssumption
    DEF TypeOK, MayReconnect, chainVars, connVars, uploadVars, flightVars,
        retryVars, verifyVars
<1>1. CASE ReconnectSwallowed \/ \E a \in Accounts : ReconnectTo(a)
  BY <1>1 DEF ReconnectSwallowed, ReconnectTo
<1>2. CASE Process
  <2>1. CASE Return
    BY <2>1 DEF Return
  <2>2. CASE Fail
    BY <2>2 DEF Fail
  <2>3. CASE \/ LoopReconnect \/ BatchReconnect \/ ResubmitFailed \/ Reprobe
             \/ Gap \/ ReuploadFailed \/ RootFailed
    <3>1. \/ ReconnectSwallowed \/ \E a \in Accounts : ReconnectTo(a)
          \/ UNCHANGED reconUsed
      BY <2>3 DEF LoopReconnect, BatchReconnect, ResubmitFailed, Reprobe,
                  Gap, ReuploadFailed, RootFailed
    <3> QED
      BY <1>1, <3>1
  <2>4. CASE \/ Preflight \/ PreflightFails \/ Seed \/ SkipBatch \/ SubmitBatch
             \/ BatchSettled \/ FailuresHandled \/ TakeFailure \/ StartAttempt
             \/ Reconcile \/ ReconcileFails \/ Resubmit \/ ResubmitLanded
             \/ ResubmitBackstop \/ EndBatches \/ VerifyProbe \/ Reupload
             \/ ReuploadLanded \/ RoundDone \/ RootProbe \/ RootSend
             \/ RootLanded
    BY <2>4 DEF Preflight, PreflightFails, Seed, SkipBatch, SubmitBatch,
                BatchSettled, FailuresHandled, TakeFailure, StartAttempt,
                Reconcile, ReconcileFails, Resubmit, ResubmitLanded,
                ResubmitBackstop, EndBatches, VerifyProbe, Reupload,
                ReuploadLanded, RoundDone, RootProbe, RootSend, RootLanded
  <2> QED
    BY <1>2, <2>1, <2>2, <2>3, <2>4
       DEF Process, SeedFails, LoopReconnectFails, BatchReconnectFails,
           AttemptsFail, ReprobeFails, GapFails, RootSendFails, RootFails,
           ReturnFails, Throw
<1>3. CASE Watch \/ Environment \/ Terminated \/ UNCHANGED vars
  BY <1>3 DEF Watch, SettleInBestBlock, SettleRejected, SettleTimeout,
              SettleConnection, Settle, Environment, Include, IncludeFailed,
              IncludeAs, Expire, SiblingSend, Reorg, WsHalt,
              ProcessUnchanged, Terminated, vars
<1> QED
  BY <1>2, <1>3 DEF Next

(***************************************************************************)
(* Why a chunk retried after a lost connection finds the reconnections     *)
(* spent: the batch it was in would have reconnected.  The failures of a   *)
(* batch still to be handled have all settled, and none of them has a      *)
(* record.                                                                 *)
(***************************************************************************)
RetryPCs == {"attempt", "reconcile", "resubmit", "resubmitted"}

Spent(c) == flight[c] # "sent" /\ (flight[c] = "conn" => ~MayReconnect)

RetryInv ==
  /\ pc \in BatchPCs => \A c \in work : stored[c] = "null"
  /\ pc = "retry" => \A c \in work : Spent(c)
  /\ pc \in RetryPCs =>
       /\ \A c \in work \ {cur} : Spent(c)
       /\ connFail => ~MayReconnect

\* Every step of the call itself keeps the account of the reconnections.
LEMMA RetryProcess ==
  ASSUME UploadInv, RetryInv, [Next]_vars, Process
  PROVE  RetryInv'
<1>a. ~MayReconnect => ~MayReconnect'
  BY ReconnectionsOnlyUsed DEF UploadInv
<1> USE DEF UploadInv, TypeOK, RetryPCs, BatchPCs, Chunks, Items, chainVars,
        connVars, uploadVars, flightVars, retryVars, verifyVars
<1>1. CASE SubmitBatch
  BY <1>1 DEF SubmitBatch, RetryInv, Batch
<1>2. CASE BatchSettled
  <2>1. /\ work' = work \ {c \in work : flight[c] \in Succeeded}
        /\ stored' = [c \in Chunks |->
              IF c \in {d \in work : flight[d] \in Succeeded}
                THEN StoredAs(c) ELSE stored[c]]
        /\ pc' \in {"settled", "retry"} /\ pc = "batchsent"
        /\ UNCHANGED <<flight, reconUsed>>
        /\ \A c \in work : flight[c] # "sent"
        /\ pc' = "retry" => \A c \in work : flight[c] = "conn" => ~MayReconnect
    BY <1>2 DEF BatchSettled
  <2>2. \A c \in work' : stored'[c] = "null"
    BY <2>1 DEF RetryInv
  <2>3. pc' = "retry" => \A c \in work' : Spent(c)'
    BY <1>a, <2>1 DEF Spent
  <2> QED
    BY <2>1, <2>2, <2>3 DEF RetryInv
<1>3. CASE TakeFailure
  <2>1. PICK c \in work :
          \/ /\ MarkProvisional(c) /\ work' = work \ {c} /\ pc' = "retry"
          \/ /\ cur' = c /\ connFail' = (flight[c] = "conn")
             /\ pc' = "attempt" /\ UNCHANGED <<stored, work>>
    BY <1>3 DEF TakeFailure
  <2>2. pc = "retry" /\ UNCHANGED <<flight, reconUsed>>
    BY <1>3 DEF TakeFailure
  <2>3. \A d \in work : Spent(d) /\ Spent(d)'
    BY <1>a, <2>2 DEF RetryInv, Spent
  <2>4. CASE MarkProvisional(c) /\ work' = work \ {c} /\ pc' = "retry"
    BY <2>2, <2>3, <2>4 DEF RetryInv, MarkProvisional
  <2>5. CASE /\ cur' = c /\ connFail' = (flight[c] = "conn")
             /\ pc' = "attempt" /\ UNCHANGED <<stored, work>>
    <3>1. connFail' => ~MayReconnect'
      BY <1>a, <2>3, <2>5 DEF Spent
    <3> QED
      BY <2>2, <2>3, <2>5, <3>1 DEF RetryInv
  <2> QED
    BY <2>1, <2>4, <2>5
<1>4. CASE StartAttempt \/ ReconcileFails
  <2>1. /\ UNCHANGED <<flight, stored, cur, connFail, work>>
        /\ pc \in RetryPCs /\ pc' \in RetryPCs
    BY <1>4 DEF StartAttempt, ReconcileFails
  <2>2. \A c \in work \ {cur} : Spent(c)'
    BY <1>a, <2>1 DEF RetryInv, Spent
  <2> QED
    BY <1>a, <2>1, <2>2 DEF RetryInv
<1>5. CASE Reconcile
  BY <1>a, <1>5 DEF Reconcile, RetryInv, Spent, MarkProvisional
<1>6. CASE Resubmit
  <2>1. /\ \A i \in Items : i # cur => flight'[i] = flight[i]
        /\ pc = "resubmit" /\ pc' = "resubmitted"
        /\ UNCHANGED <<connVars, uploadVars, retryVars, work>>
    BY <1>6 DEF Resubmit, Send
  <2>2. \A c \in work \ {cur} : Spent(c) /\ c \in Items
    BY <2>1, ConstantsAssumption DEF RetryInv
  <2>3. \A c \in work \ {cur} : Spent(c)'
    BY <1>a, <2>1, <2>2 DEF Spent
  <2> QED
    BY <1>a, <2>1, <2>3 DEF RetryInv
<1>7. CASE ResubmitLanded \/ ResubmitBackstop
  BY <1>a, <1>7 DEF ResubmitLanded, ResubmitBackstop, RetryInv, Spent,
                    MarkProvisional
<1>8. CASE ResubmitFailed
  BY <1>a, <1>8 DEF ResubmitFailed, RetryInv, Spent
<1>9. CASE pc' \notin BatchPCs
  BY <1>9 DEF RetryInv
<1>10. \/ SubmitBatch \/ BatchSettled \/ TakeFailure \/ StartAttempt
       \/ ReconcileFails \/ Reconcile \/ Resubmit \/ ResubmitLanded
       \/ ResubmitBackstop \/ ResubmitFailed \/ pc' \notin BatchPCs
  BY DEF Process, Preflight, PreflightFails, Seed, SeedFails, LoopReconnect,
         LoopReconnectFails, SkipBatch, BatchReconnect, BatchReconnectFails,
         FailuresHandled, AttemptsFail, EndBatches, VerifyProbe, Reprobe,
         ReprobeFails, Gap, GapFails, Reupload, ReuploadLanded,
         ReuploadFailed, RoundDone, RootProbe, RootSend, RootSendFails,
         RootLanded, RootFailed, RootFails, Return, ReturnFails, Throw, Fail
<1> QED
  BY <1>1, <1>2, <1>3, <1>4, <1>5, <1>6, <1>7, <1>8, <1>9, <1>10

(***************************************************************************)
(* A watch that settles was sent, and only a live client lets it succeed   *)
(* or be rejected.                                                         *)
(***************************************************************************)
LEMMA WatchSettles ==
  ASSUME TypeOK, Watch
  PROVE  \E c \in Items, result \in FlightStates :
           /\ flight[c] = "sent"
           /\ flight' = [flight EXCEPT ![c] = result]
           /\ result # "sent"
           /\ result \in {"error", "conn"} \/ live
           /\ UNCHANGED <<chainVars, connVars, uploadVars, signed, retryVars,
                          verifyVars, pc, work>>
BY DEF Watch, SettleInBestBlock, SettleRejected, SettleTimeout,
       SettleConnection, Settle, FlightStates

\* So does every step.
LEMMA RetryStep ==
  ASSUME UploadInv, RetryInv, [Next]_vars
  PROVE  RetryInv'
<1>a. ~MayReconnect => ~MayReconnect'
  BY ReconnectionsOnlyUsed DEF UploadInv
<1>1. CASE Process
  BY <1>1, RetryProcess
<1>2. CASE Watch
  <2>1. PICK c \in Items, result \in FlightStates :
           /\ flight[c] = "sent"
           /\ flight' = [flight EXCEPT ![c] = result]
           /\ UNCHANGED <<chainVars, connVars, uploadVars, signed, retryVars,
                          verifyVars, pc, work>>
    BY <1>2, WatchSettles DEF UploadInv
  <2>2. \A d \in Chunks : Spent(d) => Spent(d)'
    BY <1>a, <2>1 DEF Spent, UploadInv, TypeOK, Chunks, Items
  <2> QED
    BY <1>a, <2>1, <2>2 DEF RetryInv, UploadInv, TypeOK, uploadVars, retryVars
<1>3. CASE Environment \/ Terminated \/ UNCHANGED vars
  <2>1. UNCHANGED <<uploadVars, flightVars, retryVars, pc, work>>
    BY <1>3 DEF Environment, Include, IncludeFailed, IncludeAs, Expire,
                SiblingSend, Reorg, WsHalt, ProcessUnchanged, Terminated, vars
  <2> QED
    BY <1>a, <2>1 DEF RetryInv, Spent, uploadVars, flightVars, retryVars
<1> QED
  BY <1>1, <1>2, <1>3 DEF Next

\* A chunk retried after a lost connection finds the reconnections spent, so
\* the rebase of the retry loop is never reached.
THEOREM LostConnectionsAreExhausted == Spec => []LostConnectionsExhausted
<1>1. Init => RetryInv
  BY DEF Init, RetryInv, BatchPCs, RetryPCs
<1>2. UploadInv /\ RetryInv /\ [Next]_vars => RetryInv'
  BY RetryStep
<1>3. RetryInv => LostConnectionsExhausted
  BY DEF RetryInv, RetryPCs, LostConnectionsExhausted
<1> QED
  BY <1>1, <1>2, <1>3, UploadInvariant, PTL DEF Spec

-----------------------------------------------------------------------------
(***************************************************************************)
(* When the assigned nonces are those of the account that signs: a call    *)
(* that keeps its account, or that loses no connection before its root,    *)
(* never leaves the account its nonces were read for.                      *)
(***************************************************************************)
AccountStays == "rotate" \notin faults
ConnectionStays == faults \cap {"conn", "halt"} = {}

Uploading == PCs \ (Done \cup {"rootsend", "rootsent", "final"})

Connected ==
  /\ ~halted /\ pc # "settled"
  /\ pc \notin Done =>
       /\ \A c \in Items : flight[c] # "conn"
       /\ live \/ pc = "preflight"
  /\ pc = "preflight" => \A c \in Items : flight[c] = "idle"
  /\ pc \in Uploading => base = acct

AccountInv ==
  /\ AccountStays => (pc \notin Done => base = acct)
  /\ ConnectionStays => Connected

\* Where no reconnect changes the account, the nonces stay with it.
LEMMA AccountStaysStep ==
  ASSUME TypeOK, AccountStays, pc \notin Done => base = acct, [Next]_vars
  PROVE  pc' \notin Done => base' = acct'
<1> USE DEF AccountStays, NextAccount, connVars, uploadVars, chainVars, vars
<1>1. \A a \in Accounts : ReconnectTo(a) => acct' = acct /\ a = acct
  BY DEF ReconnectTo
<1>2. ReconnectSwallowed => acct' = acct
  BY <1>1 DEF ReconnectSwallowed
<1>3. CASE LoopReconnect
  BY <1>1, <1>3 DEF LoopReconnect, Rebase, Done
<1>4. CASE BatchReconnect
  BY <1>1, <1>4 DEF BatchReconnect, Done
<1>5. CASE Preflight \/ Seed
  BY <1>5 DEF Preflight, Seed
<1>6. CASE \/ Reprobe \/ Gap \/ RootFailed \/ ResubmitFailed \/ ReuploadFailed
  <2>1. acct' = acct
    BY <1>1, <1>2, <1>6
       DEF Reprobe, Gap, RootFailed, ResubmitFailed, ReuploadFailed
  <2>2. base' = base /\ pc \notin Done
    BY <1>6 DEF Reprobe, Gap, RootFailed, ResubmitFailed, ReuploadFailed, Done
  <2> QED
    BY <2>1, <2>2
<1>7. CASE pc' \in Done
  BY <1>7
<1>8. CASE UNCHANGED <<acct, base>> /\ (pc \in Done => pc' \in Done)
  BY <1>8
<1>9. \/ LoopReconnect \/ BatchReconnect \/ Preflight \/ Seed \/ Reprobe \/ Gap
      \/ RootFailed \/ ResubmitFailed \/ ReuploadFailed \/ pc' \in Done
      \/ UNCHANGED <<acct, base>> /\ (pc \in Done => pc' \in Done)
  <2>1. CASE Process
    BY <2>1
       DEF Process, PreflightFails, SeedFails, LoopReconnectFails, SkipBatch,
           SubmitBatch, BatchSettled, BatchReconnectFails, FailuresHandled,
           TakeFailure, StartAttempt, AttemptsFail, Reconcile, ReconcileFails,
           Resubmit, ResubmitLanded, ResubmitBackstop, EndBatches,
           VerifyProbe, ReprobeFails, GapFails, Reupload, ReuploadLanded,
           RoundDone, RootProbe, RootSend, RootSendFails, RootLanded,
           RootFails, Return, ReturnFails, Throw, Fail, Done
  <2>2. CASE Watch
    BY <2>2, WatchSettles
  <2>3. CASE Environment \/ Terminated \/ UNCHANGED vars
    BY <2>3
       DEF Environment, Include, IncludeFailed, IncludeAs, Expire, SiblingSend,
           Reorg, WsHalt, ProcessUnchanged, Terminated
  <2> QED
    BY <2>1, <2>2, <2>3 DEF Next
<1> QED
  BY <1>3, <1>4, <1>5, <1>6, <1>7, <1>8, <1>9

\* A step of a connected call, up to its root, changes neither the account
\* nor the client, and no watch reports a lost connection.
LEMMA ConnectedProcess ==
  ASSUME TypeOK, ConnectionStays, Connected, Process
  PROVE  Connected'
<1> USE DEF ConnectionStays, Connected, Uploading, Done, PCs, TypeOK, chainVars,
            connVars, uploadVars, flightVars, retryVars, verifyVars
<1>0. Chunks \subseteq Items
  BY ConstantsAssumption DEF Chunks, Items
<1>1. ASSUME NEW S, NEW nf, Send(S, nf), pc \notin Done
      PROVE  \A c \in Items : flight'[c] # "conn"
  BY <1>1 DEF Send
<1>2. CASE Preflight \/ PreflightFails
  BY <1>2 DEF Preflight, PreflightFails, Refresh
<1>3. CASE Seed \/ SkipBatch \/ FailuresHandled \/ TakeFailure \/ StartAttempt
  BY <1>3 DEF Seed, SkipBatch, FailuresHandled, TakeFailure, StartAttempt
<1>4. CASE SubmitBatch \/ Resubmit \/ RootSend
  <2>1. \A c \in Items : flight'[c] # "conn"
    BY <1>1, <1>4 DEF SubmitBatch, Resubmit, RootSend
  <2> QED
    BY <1>4, <2>1 DEF SubmitBatch, Resubmit, RootSend
<1>5. CASE BatchSettled
  <2>1. ~(\E c \in work : flight[c] = "conn")
    BY <1>0, <1>5 DEF BatchSettled
  <2> QED
    BY <1>5, <2>1 DEF BatchSettled
<1>6. CASE \/ LoopReconnect \/ BatchReconnect
  BY <1>6 DEF LoopReconnect, BatchReconnect
<1>7. CASE Reconcile \/ ReconcileFails \/ ResubmitLanded \/ ResubmitBackstop
  BY <1>7 DEF Reconcile, ReconcileFails, ResubmitLanded, ResubmitBackstop
<1>8. CASE ResubmitFailed \/ ReuploadFailed
  <2>1. flight[cur] # "conn"
    BY <1>0, <1>8 DEF ResubmitFailed, ReuploadFailed
  <2> QED
    BY <1>8, <2>1 DEF ResubmitFailed, ReuploadFailed
<1>9. CASE EndBatches \/ VerifyProbe \/ Reprobe \/ Gap
  BY <1>9 DEF EndBatches, VerifyProbe, Reprobe, Gap
<1>10. CASE Reupload
  <2>1. \A c \in Items : flight'[c] # "conn"
    BY <1>1, <1>10 DEF Reupload
  <2> QED
    BY <1>10, <2>1 DEF Reupload
<1>11. CASE ReuploadLanded \/ RoundDone \/ RootProbe \/ RootLanded
  BY <1>11 DEF ReuploadLanded, RoundDone, RootProbe, RootLanded
<1>12. CASE RootFailed \/ Return
  BY <1>12 DEF RootFailed, Return, ReconnectTo
<1>13. CASE \/ SeedFails \/ LoopReconnectFails \/ BatchReconnectFails
            \/ AttemptsFail \/ ReprobeFails \/ GapFails \/ RootSendFails
            \/ RootFails \/ ReturnFails \/ Throw
  BY <1>13 DEF SeedFails, LoopReconnectFails, BatchReconnectFails,
               AttemptsFail, ReprobeFails, GapFails, RootSendFails, RootFails,
               ReturnFails, Throw, Fail
<1> QED
  BY <1>2, <1>3, <1>4, <1>5, <1>6, <1>7, <1>8, <1>9, <1>10, <1>11, <1>12, <1>13
     DEF Process

\* A behaviour meets the faults it started with.
LEMMA FaultsFixed == [Next]_vars => faults' = faults
<1> USE DEF chainVars, vars, Fail, Send
<1>1. CASE Process
  BY <1>1
     DEF Process, Preflight, PreflightFails, Seed, SeedFails, LoopReconnect,
         LoopReconnectFails, SkipBatch, SubmitBatch, BatchSettled,
         BatchReconnect, BatchReconnectFails, FailuresHandled, TakeFailure,
         StartAttempt, AttemptsFail, Reconcile, ReconcileFails, Resubmit,
         ResubmitLanded, ResubmitBackstop, ResubmitFailed, EndBatches,
         VerifyProbe, Reprobe, ReprobeFails, Gap, GapFails, Reupload,
         ReuploadLanded, ReuploadFailed, RoundDone, RootProbe, RootSend,
         RootSendFails, RootLanded, RootFailed, RootFails, Return,
         ReturnFails, Throw
<1>2. CASE Watch \/ Environment \/ Terminated \/ UNCHANGED vars
  BY <1>2
     DEF Watch, SettleInBestBlock, SettleRejected, SettleTimeout,
         SettleConnection, Settle, Environment, Include, IncludeFailed,
         IncludeAs, Expire, SiblingSend, Reorg, WsHalt, Terminated
<1> QED
  BY <1>1, <1>2 DEF Next

\* Every step keeps the account invariant.
LEMMA AccountStep ==
  ASSUME TypeOK, AccountInv, [Next]_vars
  PROVE  AccountInv'
<1>0. faults' = faults
  BY FaultsFixed
<1>1. AccountStays' => (pc' \notin Done => base' = acct')
  BY <1>0, AccountStaysStep DEF AccountInv, AccountStays
<1>2. ConnectionStays' => Connected'
  <2> SUFFICES ASSUME ConnectionStays
               PROVE  Connected'
    BY <1>0 DEF ConnectionStays
  <2>1. Connected
    BY DEF AccountInv
  <2>2. CASE Process
    BY <2>1, <2>2, ConnectedProcess
  <2>3. CASE Watch
    <3>1. PICK c \in Items, r \in FlightStates :
            /\ Settle(c, r) /\ (r = "conn" => ~live \/ "conn" \in faults)
      BY <2>3 DEF Watch, SettleInBestBlock, SettleRejected, SettleTimeout,
                  SettleConnection, FlightStates
    <3>2. flight[c] = "sent"
      BY <3>1 DEF Settle
    <3>3. r = "conn" => pc \in Done
      BY <2>1, <3>1, <3>2 DEF Connected, ConnectionStays
    <3>4. pc = "preflight" => FALSE
      BY <2>1, <3>2 DEF Connected, Done
    <3> QED
      BY <2>1, <3>1, <3>3, <3>4
         DEF Settle, Connected, TypeOK, connVars, uploadVars
  <2>4. CASE Environment
    BY <2>1, <2>4
       DEF Environment, Include, IncludeFailed, IncludeAs, Expire, SiblingSend,
           Reorg, WsHalt, ProcessUnchanged, ConnectionStays, Connected,
           connVars, uploadVars, flightVars
  <2>5. CASE Terminated \/ UNCHANGED vars
    BY <2>1, <2>5 DEF Terminated, vars, Connected, connVars, uploadVars,
                      flightVars
  <2> QED
    BY <2>2, <2>3, <2>4, <2>5 DEF Next
<1> QED
  BY <1>1, <1>2 DEF AccountInv, AccountStays

(* A call that keeps its account, or loses no connection before its root,  *)
(* signs with nonces of the account it signs by.  ChunkUpload_oldnonces.cfg *)
(* shows that one that does neither may not.                               *)
THEOREM NoncesOfCurrentAccountIf ==
  Spec => [](AccountStays \/ ConnectionStays => NoncesOfCurrentAccount)
<1>1. Init => AccountInv
  BY DEF Init, AccountInv, Connected, Uploading, Done, PCs
<1>2. TypeOK /\ AccountInv /\ [Next]_vars => AccountInv'
  BY AccountStep
<1>3. AccountInv => (AccountStays \/ ConnectionStays => NoncesOfCurrentAccount)
  BY DEF AccountInv, Connected, Uploading, Done, PCs, NoncesOfCurrentAccount
<1> QED
  BY <1>1, <1>2, <1>3, TypeCorrect, PTL DEF Spec

-----------------------------------------------------------------------------
(***************************************************************************)
(* Why no destroyed client is handed back.  A call is severed when its     *)
(* client is destroyed by no halt and may still be replaced: a reconnect   *)
(* threw halfway.  It then has a chunk without a record that cannot get    *)
(* one, or a provisional chunk that no probe will answer for, so it never  *)
(* comes to the root before it has reconnected.                            *)
(***************************************************************************)
Severed == ~live /\ ~halted /\ MayReconnect

Unfinished ==
  \/ provisional # {}
  \/ \E c \in Chunks : stored[c] = "null" /\ flight[c] \notin Succeeded

AnswersInv ==
  /\ pc \in {"verify", "reprobe"} => \E c \in pending : answers[c] = "unanswered"
  /\ pc \notin {"verify", "reprobe", "throw", "failed"}
       => \A c \in Chunks : answers[c] = "unanswered"

SeveredInv == Severed =>
  \/ pc \in {"preflight", "throw", "failed", "ok", "verify", "reprobe"}
  \/ pc \in {"loop"} \cup BatchPCs /\ Unfinished
  \/ pc = "reupload" /\ work # {}
  \/ pc = "reuploaded" /\ flight[cur] \in {"sent", "error", "conn"}

HandoffInv == UploadInv /\ AnswersInv /\ SeveredInv /\ HealthyHandoff

(***************************************************************************)
(* Only a reconnect that throws after a lost connection severs a call that *)
(* goes on.                                                                *)
(***************************************************************************)
LEMMA NewlySevered ==
  ASSUME TypeOK, [Next]_vars, Severed'
  PROVE  \/ Severed /\ UNCHANGED <<live, halted, reconUsed>>
         \/ pc' \in {"failed", "ok"}
         \/ ResubmitFailed /\ flight[cur] = "conn"
         \/ ReuploadFailed /\ flight[cur] = "conn"
<1>a. MayReconnect /\ live' = FALSE /\ halted' = FALSE
  BY ReconnectionsOnlyUsed DEF Severed, TypeOK
<1> USE DEF chainVars, connVars, uploadVars, flightVars, retryVars, verifyVars
<1>1. ASSUME UNCHANGED <<live, halted, reconUsed>> PROVE Severed
  BY <1>1 DEF Severed, MayReconnect
<1>2. ASSUME NEW a \in Accounts, ReconnectTo(a) PROVE FALSE
  BY <1>a, <1>2 DEF ReconnectTo
<1>3. CASE Process
  <2>1. CASE Return \/ Fail \/ PreflightFails
    BY <2>1 DEF Return, Fail, PreflightFails
  <2>2. CASE ResubmitFailed \/ ReuploadFailed
    BY <1>1, <2>2 DEF ResubmitFailed, ReuploadFailed
  <2>3. CASE LoopReconnect \/ BatchReconnect \/ Reprobe \/ Gap \/ RootFailed
    BY <1>1, <1>2, <2>3
       DEF LoopReconnect, BatchReconnect, Reprobe, Gap, RootFailed
  <2>4. CASE Preflight
    BY <1>1, <1>a, <2>4 DEF Preflight, Refresh
  <2>5. CASE \/ Seed \/ SkipBatch \/ SubmitBatch
             \/ BatchSettled \/ FailuresHandled \/ TakeFailure \/ StartAttempt
             \/ Reconcile \/ ReconcileFails \/ Resubmit \/ ResubmitLanded
             \/ ResubmitBackstop \/ EndBatches \/ VerifyProbe \/ Reupload
             \/ ReuploadLanded \/ RoundDone \/ RootProbe \/ RootSend
             \/ RootLanded
    BY <1>1, <2>5
       DEF Seed, SkipBatch, SubmitBatch,
           BatchSettled, FailuresHandled, TakeFailure, StartAttempt,
           Reconcile, ReconcileFails, Resubmit, ResubmitLanded,
           ResubmitBackstop, EndBatches, VerifyProbe, Reupload,
           ReuploadLanded, RoundDone, RootProbe, RootSend, RootLanded
  <2> QED
    BY <1>3, <2>1, <2>2, <2>3, <2>4, <2>5
       DEF Process, SeedFails, LoopReconnectFails, BatchReconnectFails,
           AttemptsFail, ReprobeFails, GapFails, RootSendFails, RootFails,
           ReturnFails, Throw
<1>4. CASE WsHalt
  BY <1>a, <1>4 DEF WsHalt
<1>5. CASE Watch \/ (Environment /\ ~WsHalt) \/ Terminated \/ UNCHANGED vars
  BY <1>1, <1>5
     DEF Watch, SettleInBestBlock, SettleRejected, SettleTimeout,
         SettleConnection, Settle, Environment, Include, IncludeFailed,
         IncludeAs, Expire, SiblingSend, Reorg, ProcessUnchanged, Terminated,
         vars
<1> QED
  BY <1>3, <1>4, <1>5 DEF Next

(***************************************************************************)
(* A round of probes ends with an answer for every chunk, or goes on with  *)
(* one that has none.                                                      *)
(***************************************************************************)
LEMMA AnswersStep ==
  ASSUME UploadInv, AnswersInv, [Next]_vars
  PROVE  AnswersInv'
<1> USE DEF UploadInv, TypeOK, PCs, Done, chainVars, connVars, uploadVars,
        flightVars, retryVars, verifyVars
<1>1. CASE VerifyProbe
  <2>1. PICK found \in [pending -> Answers] :
          \/ /\ \E c \in pending : found[c] = "unanswered"
             /\ answers' = [c \in Chunks |->
                              IF c \in pending THEN found[c] ELSE answers[c]]
             /\ pc' \in {"throw", "reprobe"}
             /\ UNCHANGED <<pending, work>>
          \/ /\ answers' = [c \in Chunks |-> "unanswered"]
             /\ pc' \in {"root", "throw", "gap"}
    BY <1>1 DEF VerifyProbe
  <2> QED
    BY <2>1 DEF AnswersInv
<1>2. CASE EndBatches
  BY <1>2 DEF EndBatches, AnswersInv
<1>3. CASE RoundDone
  BY <1>3 DEF RoundDone, AnswersInv
<1>4. CASE /\ answers' = answers
           /\ \/ pc' \in {"throw", "failed"}
              \/ /\ pc' \notin {"verify", "reprobe"}
                 /\ pc \notin {"verify", "reprobe", "throw", "failed"}
              \/ pc' \in {"verify", "reprobe"} /\ pc \in {"verify", "reprobe"}
                 /\ pending' = pending
              \/ pc' = pc /\ pending' = pending
  BY <1>4 DEF AnswersInv
<1>5. CASE Process /\ ~VerifyProbe /\ ~EndBatches /\ ~RoundDone
  <2>1. CASE Fail \/ PreflightFails \/ Throw
    BY <1>4, <2>1 DEF Fail, PreflightFails, Throw
  <2>2. CASE Reprobe
    BY <1>4, <2>2 DEF Reprobe
  <2>3. CASE \/ Preflight \/ Seed \/ LoopReconnect \/ SkipBatch \/ SubmitBatch
             \/ BatchSettled \/ BatchReconnect \/ FailuresHandled \/ TakeFailure
             \/ StartAttempt \/ Reconcile \/ ReconcileFails \/ Resubmit
             \/ ResubmitLanded \/ ResubmitBackstop \/ ResubmitFailed \/ Gap
             \/ Reupload \/ ReuploadLanded \/ ReuploadFailed \/ RootProbe
             \/ RootSend \/ RootLanded \/ RootFailed \/ Return
    BY <1>4, <2>3
       DEF Preflight, Seed, LoopReconnect, SkipBatch, SubmitBatch,
           BatchSettled, BatchReconnect, FailuresHandled, TakeFailure,
           StartAttempt, Reconcile, ReconcileFails, Resubmit, ResubmitLanded,
           ResubmitBackstop, ResubmitFailed, Gap, Reupload, ReuploadLanded,
           ReuploadFailed, RootProbe, RootSend, RootLanded, RootFailed, Return
  <2> QED
    BY <1>5, <2>1, <2>2, <2>3
       DEF Process, SeedFails, LoopReconnectFails, BatchReconnectFails,
           AttemptsFail, ReprobeFails, GapFails, RootSendFails, RootFails,
           ReturnFails
<1>6. CASE Watch \/ Environment \/ Terminated \/ UNCHANGED vars
  BY <1>4, <1>6, OthersKeepBooks
<1> QED
  BY <1>1, <1>2, <1>3, <1>5, <1>6 DEF Next

(***************************************************************************)
(* What a severed call stays with as it goes on.                           *)
(***************************************************************************)
LEMMA SeveredProcess ==
  ASSUME HandoffInv, RetryInv, Process, Severed,
         UNCHANGED <<live, halted, reconUsed>>
  PROVE  SeveredInv'
<1>a. ~live /\ live \in BOOLEAN /\ ~halted /\ MayReconnect
  BY DEF HandoffInv, UploadInv, TypeOK, Severed
<1>b. \A a \in Accounts : ~ReconnectTo(a)
  BY <1>a DEF ReconnectTo
<1> USE DEF HandoffInv, UploadInv, TypeOK, BatchPCs, chainVars, connVars,
        uploadVars, flightVars, retryVars, verifyVars, SeveredInv
<1>c. pc \in {"loop"} \cup BatchPCs => Unfinished
  OBVIOUS
<1>d. ASSUME pc \in {"loop"} \cup BatchPCs, pc' \in {"loop"} \cup BatchPCs,
             provisional \subseteq provisional',
             \A c \in Chunks :
                stored[c] = "null" /\ flight[c] \notin Succeeded
                  => \/ stored'[c] = "null" /\ flight'[c] \notin Succeeded
                     \/ provisional' # {}
      PROVE  SeveredInv'
  BY <1>c, <1>d DEF Unfinished
<1>1. CASE SkipBatch \/ FailuresHandled \/ StartAttempt \/ ReconcileFails
  BY <1>d, <1>1 DEF SkipBatch, FailuresHandled, StartAttempt, ReconcileFails
<1>2. CASE SubmitBatch \/ Resubmit
  <2>1. PICK S \in SUBSET Items :
          flight' = [c \in Items |-> IF c \in S THEN "sent" ELSE flight[c]]
    <3>1. ASSUME NEW S, NEW nf, Send(S, nf)
          PROVE  flight' = [c \in Items |->
                              IF c \in S \cap Items THEN "sent" ELSE flight[c]]
      BY <3>1 DEF Send
    <3> QED
      BY <1>2, <3>1 DEF SubmitBatch, Resubmit
  <2>2. \A c \in Chunks : flight[c] \notin Succeeded => flight'[c] \notin Succeeded
    BY <2>1, ConstantsAssumption DEF Chunks, Items, Succeeded
  <2> QED
    BY <1>d, <1>2, <2>2 DEF SubmitBatch, Resubmit
<1>3. CASE BatchSettled
  BY <1>d, <1>3 DEF BatchSettled
<1>4. CASE TakeFailure
  BY <1>d, <1>4 DEF TakeFailure, MarkProvisional
<1>5. CASE Reconcile
  BY <1>d, <1>5 DEF Reconcile, MarkProvisional
<1>6. CASE ResubmitLanded \/ ResubmitBackstop
  BY <1>d, <1>6 DEF ResubmitLanded, ResubmitBackstop, MarkProvisional
<1>7. CASE ResubmitFailed
  BY <1>d, <1>7 DEF ResubmitFailed
<1>8. CASE EndBatches
  <2>1. AllStored
    BY <1>8, ConstantsAssumption
       DEF EndBatches, Covered, AllStored, Chunks, UploadInv
  <2>2. provisional # {}
    BY <1>8, <1>c, <2>1 DEF EndBatches, AllStored, Unfinished
  <2> QED
    BY <1>8, <2>2 DEF EndBatches
<1>9. CASE VerifyProbe
  <2>1. PICK c \in pending : answers[c] = "unanswered"
    BY <1>9 DEF VerifyProbe, AnswersInv
  <2>2. ProbeAnswers(c) = {"unanswered"}
    BY <1>a DEF ProbeAnswers
  <2>3. pc' \in {"throw", "reprobe"}
    BY <1>9, <2>1, <2>2 DEF VerifyProbe
  <2> QED
    BY <2>3
<1>10. CASE Reprobe
  BY <1>10 DEF Reprobe
<1>11. CASE Reupload
  <2>1. cur' \in Items /\ pc' = "reuploaded"
    BY <1>11, ConstantsAssumption DEF Reupload, Chunks, Items
  <2>2. flight'[cur'] \in {"sent", "error"}
    BY <1>11, <2>1 DEF Reupload, Send
  <2> QED
    BY <2>1, <2>2
<1>12. CASE ReuploadFailed
  <2>1. /\ flight[cur] \in {"sent", "error", "conn"} /\ cur \in work
        /\ pc = "reuploaded"
    BY <1>12 DEF ReuploadFailed, Covered
  <2>2. pc' = "throw" \/ (pc' = "reupload" /\ work' = work)
    BY <1>12, <2>1 DEF ReuploadFailed
  <2> QED
    BY <2>1, <2>2
<1>13. CASE Fail \/ PreflightFails \/ Throw
  BY <1>13 DEF Fail, PreflightFails, Throw
<1>14. CASE \/ LoopReconnect \/ BatchReconnect \/ RoundDone \/ ReuploadLanded
            \/ Gap \/ RootProbe \/ RootSend \/ RootLanded \/ RootFailed
            \/ Return \/ Seed
  BY <1>b, <1>14
     DEF LoopReconnect, BatchReconnect, RoundDone, ReuploadLanded, Gap,
         RootProbe, RootSend, RootLanded, RootFailed, Return, Seed, Succeeded
<1>15. CASE Preflight
  BY <1>a, <1>15 DEF Preflight, Refresh
<1> QED
  BY <1>1, <1>2, <1>3, <1>4, <1>5, <1>6, <1>7, <1>8, <1>9, <1>10, <1>11,
     <1>12, <1>13, <1>14, <1>15
     DEF Process, SeedFails, LoopReconnectFails, BatchReconnectFails,
         AttemptsFail, ReprobeFails, GapFails, RootSendFails, RootFails,
         ReturnFails

\* Every step keeps what a severed call waits for.
LEMMA SeveredStep ==
  ASSUME HandoffInv, RetryInv, [Next]_vars
  PROVE  SeveredInv'
<1> SUFFICES ASSUME Severed' PROVE SeveredInv'
  BY DEF SeveredInv
<1> USE DEF HandoffInv, UploadInv, BatchPCs, chainVars, connVars, uploadVars,
        flightVars, retryVars, verifyVars
<1>1. CASE pc' \in {"failed", "ok"}
  BY <1>1 DEF SeveredInv
<1>2. CASE ResubmitFailed /\ flight[cur] = "conn"
  <2>1. /\ stored[cur] = "null" /\ cur \in Chunks /\ pc' = "attempt"
        /\ UNCHANGED <<stored, flight, cur>>
    BY <1>2 DEF ResubmitFailed, RetryInv, Covered, TypeOK
  <2> QED
    BY <1>2, <2>1 DEF SeveredInv, Unfinished, Succeeded
<1>3. CASE ReuploadFailed /\ flight[cur] = "conn"
  <2>1. cur \in work
    BY <1>3 DEF ReuploadFailed, Covered
  <2>2. pc' = "throw" \/ (pc' = "reupload" /\ work' = work)
    BY <1>3 DEF ReuploadFailed
  <2> QED
    BY <2>1, <2>2 DEF SeveredInv
<1>4. CASE Severed /\ UNCHANGED <<live, halted, reconUsed>>
  <2>1. CASE Process
    BY <1>4, <2>1, SeveredProcess
  <2>2. CASE Watch
    <3>1. PICK c \in Items, result \in FlightStates :
             /\ flight[c] = "sent"
             /\ flight' = [flight EXCEPT ![c] = result]
             /\ result \in {"error", "conn"} \/ live
             /\ UNCHANGED <<uploadVars, retryVars, verifyVars, pc, work>>
      BY <2>2, WatchSettles
    <3>2. result \in {"error", "conn"}
      BY <1>4, <3>1 DEF Severed
    <3>3. \A d \in Items : \/ flight'[d] = flight[d]
                            \/ flight'[d] \in {"error", "conn"}
      BY <3>1, <3>2 DEF TypeOK
    <3>4. cur \in Items /\ Chunks \subseteq Items
      BY ConstantsAssumption DEF TypeOK, Chunks, Items
    <3> QED
      BY <1>4, <3>1, <3>3, <3>4 DEF SeveredInv, Unfinished, Succeeded
  <2>3. CASE Environment \/ Terminated \/ UNCHANGED vars
    <3>1. UNCHANGED <<uploadVars, flightVars, retryVars, verifyVars, pc, work>>
      BY <2>3 DEF Environment, Include, IncludeFailed, IncludeAs, Expire,
                  SiblingSend, Reorg, WsHalt, ProcessUnchanged, Terminated,
                  vars
    <3> QED
      BY <1>4, <3>1 DEF SeveredInv, Unfinished
  <2> QED
    BY <2>1, <2>2, <2>3 DEF Next
<1> QED
  BY <1>1, <1>2, <1>3, <1>4, NewlySevered

(***************************************************************************)
(* What is returned: a fresh client after a halt, else the one in hand.    *)
(***************************************************************************)
LEMMA HandoffStep ==
  ASSUME HandoffInv, [Next]_vars
  PROVE  HealthyHandoff'
<1>a. ~MayReconnect => ~MayReconnect'
  BY ReconnectionsOnlyUsed DEF HandoffInv, UploadInv
<1> USE DEF HandoffInv, UploadInv, TypeOK, chainVars, connVars
<1>1. CASE Return
  <2>1. CASE halted /\ MayReconnect
    BY <1>1, <2>1 DEF Return, HealthyHandoff
  <2>2. CASE ~(halted /\ MayReconnect) /\ HandOff
    <3>1. live \/ ~MayReconnect
      BY <1>1, <2>2 DEF Return, SeveredInv, Severed, BatchPCs
    <3>2. live => live'
      BY <1>1, <2>2 DEF Return
    <3> QED
      BY <1>a, <3>1, <3>2 DEF HealthyHandoff
  <2>3. CASE ~HandOff
    BY <2>3 DEF HealthyHandoff
  <2> QED
    BY <2>1, <2>2, <2>3
<1>2. CASE Process /\ ~Return
  <2>1. pc' # "ok"
    BY <1>2 DEF Process, Preflight, PreflightFails, Seed, SeedFails,
              LoopReconnect, LoopReconnectFails, SkipBatch, SubmitBatch,
              BatchSettled, BatchReconnect, BatchReconnectFails,
              FailuresHandled, TakeFailure, StartAttempt, AttemptsFail,
              Reconcile, ReconcileFails, Resubmit, ResubmitLanded,
              ResubmitBackstop, ResubmitFailed, EndBatches, VerifyProbe,
              Reprobe, ReprobeFails, Gap, GapFails, Reupload,
              ReuploadLanded, ReuploadFailed, RoundDone, RootProbe,
              RootSend, RootSendFails, RootLanded, RootFailed, RootFails,
              ReturnFails, Throw, Fail
  <2> QED
    BY <2>1 DEF HealthyHandoff
<1>3. CASE Watch \/ Environment \/ Terminated \/ UNCHANGED vars
  <2>1. pc' = "ok" => pc = "ok" /\ UNCHANGED live
    BY <1>3 DEF Watch, SettleInBestBlock, SettleRejected, SettleTimeout,
                SettleConnection, Settle, Environment, Include,
                IncludeFailed, IncludeAs, Expire, SiblingSend, Reorg, WsHalt,
                ProcessUnchanged, Running, Done, Terminated, vars
  <2> QED
    BY <1>a, <2>1 DEF HealthyHandoff
<1> QED
  BY <1>1, <1>2, <1>3 DEF Next

\* The provider handed back to a caller that asked for it works, unless the
\* reconnections are spent, whatever halted, threw or timed out on the way.
THEOREM HandsBackHealthy == Spec => []HealthyHandoff
<1> DEFINE Inv == AnswersInv /\ SeveredInv /\ HealthyHandoff /\ RetryInv
<1>1. Init => Inv
  BY DEF Init, AnswersInv, SeveredInv, Severed, HealthyHandoff, RetryInv,
         BatchPCs, RetryPCs
<1>2. UploadInv /\ Inv /\ [Next]_vars => Inv'
  BY AnswersStep, SeveredStep, HandoffStep, RetryStep DEF HandoffInv
<1>3. Inv => HealthyHandoff
  OBVIOUS
<1> QED
  BY <1>1, <1>2, <1>3, UploadInvariant, PTL DEF Spec

-----------------------------------------------------------------------------
(***************************************************************************)
(* Every loop is bounded: what is left to do, largest unit first. A step   *)
(* of the call makes it smaller in the lexicographic order, and nothing    *)
(* else the system does changes it.                                        *)
(***************************************************************************)
LoopPCs == {"loop"} \cup BatchPCs
ChunkRetryPCs == {"attempt", "reconcile", "resubmit", "resubmitted"}
RootLoopPCs == {"root", "rootsend", "rootsent"}

Stage ==
  CASE pc = "preflight" -> 6
    [] pc = "seed" -> 5
    [] pc \in LoopPCs -> 4
    [] pc \in VerifyPCs -> 3
    [] pc \in RootLoopPCs -> 2
    [] pc \in {"final", "throw"} -> 1
    [] OTHER -> 0

\* The batch loop starts over after a reconnect, as often as there are some.
ReconnectionsLeft == IF pc \in LoopPCs THEN MaxReconnections - reconUsed ELSE 0

\* Chunks behind the cursor, or rounds of the verify loop.
PassesLeft ==
  CASE pc \in LoopPCs -> N + 2 - cursor
    [] pc \in VerifyPCs -> MaxReprobeRetries + 1 - round
    [] OTHER -> 0

Phase ==
  CASE pc = "loop" -> 3
    [] pc \in {"batchsent", "verify", "reprobe"} -> 2
    [] pc \in {"settled", "gap", "root"} -> 1
    [] OTHER -> 0

AttemptsLeft ==
  CASE pc = "retry" -> MaxChunkRetries + 1
    [] pc \in ChunkRetryPCs -> MaxChunkRetries - attempt
    [] pc \in VerifyPCs -> MaxReprobeRetries - attempt
    [] pc \in {"rootsend", "rootsent"} -> MaxRootRetries - attempt
    [] OTHER -> 0

\* The steps of one attempt.
StepsLeft ==
  CASE pc = "reconcile" -> 3
    [] pc = "resubmit" -> 2
    [] pc \in {"resubmitted", "reprobe", "reuploaded", "rootsent"} -> 1
    [] OTHER -> 0

WorkLeft == <<Stage, ReconnectionsLeft, PassesLeft, Phase, Cardinality(work),
              AttemptsLeft, StepsLeft>>

Smaller == LexProductOrdering(OpToRel(<, Nat), Nat, 7)

\* No counter of a loop passes its bound.
LoopBounds ==
  /\ cursor \in 1 .. (N + 2) /\ round \in 0 .. (MaxReprobeRetries + 1)
  /\ pc \in BatchPCs => cursor <= N
  /\ pc \in ChunkRetryPCs => attempt <= MaxChunkRetries
  /\ pc \in {"verify", "reprobe"} => attempt <= MaxReprobeRetries
  /\ pc \in {"gap", "reupload", "reuploaded"} => round <= MaxReprobeRetries
  /\ pc \in {"gap", "reupload"} => attempt < MaxReprobeRetries
  /\ pc = "reuploaded" => attempt <= MaxReprobeRetries
  /\ pc = "rootsend" => attempt < MaxRootRetries
  /\ pc = "rootsent" => attempt <= MaxRootRetries

\* The order has no infinite descent.
LEMMA SmallerWellFounded == IsWellFoundedOn(Smaller, [1 .. 7 -> Nat])
  BY NatLessThanWellFounded, WFLexProductOrdering DEF Smaller

\* Two measures are ordered by the first place they differ in.
LEMMA FirstDifference ==
  ASSUME NEW m \in [1 .. 7 -> Nat], NEW k \in [1 .. 7 -> Nat],
         \/ m[1] < k[1]
         \/ m[1] = k[1] /\ m[2] < k[2]
         \/ m[1] = k[1] /\ m[2] = k[2] /\ m[3] < k[3]
         \/ m[1] = k[1] /\ m[2] = k[2] /\ m[3] = k[3] /\ m[4] < k[4]
         \/ /\ m[1] = k[1] /\ m[2] = k[2] /\ m[3] = k[3] /\ m[4] = k[4]
            /\ m[5] < k[5]
         \/ /\ m[1] = k[1] /\ m[2] = k[2] /\ m[3] = k[3] /\ m[4] = k[4]
            /\ m[5] = k[5] /\ m[6] < k[6]
         \/ /\ m[1] = k[1] /\ m[2] = k[2] /\ m[3] = k[3] /\ m[4] = k[4]
            /\ m[5] = k[5] /\ m[6] = k[6] /\ m[7] < k[7]
  PROVE  <<m, k>> \in Smaller
<1>1. PICK i \in 1 .. 7 :
        m[i] < k[i] /\ \A j \in 1 .. (i - 1) : m[j] = k[j]
  OBVIOUS
<1>2. <<m[i], k[i]>> \in OpToRel(<, Nat)
  BY <1>1 DEF OpToRel
<1> QED
  BY <1>1, <1>2 DEF Smaller, LexProductOrdering

(***************************************************************************)
(* Watches, the chain and the sibling leave the loops alone.               *)
(***************************************************************************)
LEMMA OthersWait ==
  ASSUME Watch \/ Environment \/ Terminated \/ UNCHANGED vars
  PROVE  UNCHANGED <<reconUsed, uploadVars, retryVars, verifyVars, pc, work>>
<1>1. CASE Watch
  BY <1>1 DEF Watch, SettleInBestBlock, SettleRejected, SettleTimeout,
              SettleConnection, Settle, connVars
<1>2. CASE Environment
  BY <1>2 DEF Environment, Include, IncludeFailed, IncludeAs, Expire,
              SiblingSend, Reorg, WsHalt, ProcessUnchanged, connVars
<1>3. CASE Terminated \/ UNCHANGED vars
  BY <1>3 DEF Terminated, vars, connVars
<1> QED
  BY <1>1, <1>2, <1>3

(***************************************************************************)
(* The counters of the loops stay in their bounds.                         *)
(***************************************************************************)
LEMMA BoundsStep ==
  ASSUME UploadInv, LoopBounds, [Next]_vars
  PROVE  LoopBounds'
<1> USE ConstantsAssumption DEF UploadInv, TypeOK, LoopBounds, LoopPCs,
        BatchPCs, VerifyPCs, ChunkRetryPCs
<1>1. CASE Preflight \/ PreflightFails \/ Seed \/ SeedFails
  BY <1>1 DEF Preflight, PreflightFails, Seed, SeedFails, Fail, uploadVars,
              retryVars, verifyVars
<1>2. CASE LoopReconnect \/ LoopReconnectFails \/ SkipBatch \/ SubmitBatch
  BY <1>2 DEF LoopReconnect, LoopReconnectFails, SkipBatch, SubmitBatch,
              BatchSize, Fail, uploadVars, retryVars, verifyVars
<1>3. CASE BatchSettled
  BY <1>3 DEF BatchSettled, retryVars, verifyVars
<1>4. CASE BatchReconnect
  BY <1>4 DEF BatchReconnect, retryVars, verifyVars
<1>5. CASE BatchReconnectFails \/ FailuresHandled
  BY <1>5 DEF BatchReconnectFails, FailuresHandled, Fail, uploadVars,
              retryVars, verifyVars
<1>6. CASE TakeFailure
  BY <1>6 DEF TakeFailure, verifyVars
<1>7. CASE StartAttempt \/ AttemptsFail
  BY <1>7 DEF StartAttempt, AttemptsFail, Fail, uploadVars, retryVars,
              verifyVars
<1>8. CASE Reconcile \/ ReconcileFails
  BY <1>8 DEF Reconcile, ReconcileFails, uploadVars, retryVars, verifyVars
<1>9. CASE Resubmit \/ ResubmitLanded \/ ResubmitBackstop \/ ResubmitFailed
  BY <1>9 DEF Resubmit, ResubmitLanded, ResubmitBackstop, ResubmitFailed,
              uploadVars, retryVars, verifyVars
<1>10. CASE EndBatches
  BY <1>10 DEF EndBatches, uploadVars
<1>11. CASE VerifyProbe
  BY <1>11 DEF VerifyProbe, uploadVars
<1>12. CASE Reprobe \/ ReprobeFails \/ Gap \/ GapFails
  BY <1>12 DEF Reprobe, ReprobeFails, Gap, GapFails, Fail, uploadVars,
               retryVars, verifyVars
<1>13. CASE Reupload \/ ReuploadLanded \/ ReuploadFailed
  BY <1>13 DEF Reupload, ReuploadLanded, ReuploadFailed, uploadVars,
               verifyVars
<1>14. CASE RoundDone
  BY <1>14 DEF RoundDone, uploadVars
<1>15. CASE RootProbe \/ RootSend \/ RootSendFails
  BY <1>15 DEF RootProbe, RootSend, RootSendFails, Fail, uploadVars,
               retryVars, verifyVars
<1>16. CASE RootLanded \/ RootFailed \/ RootFails
  BY <1>16 DEF RootLanded, RootFailed, RootFails, Fail, uploadVars,
               retryVars, verifyVars
<1>17. CASE Return \/ ReturnFails \/ Throw
  BY <1>17 DEF Return, ReturnFails, Throw, Fail, uploadVars, retryVars,
               verifyVars
<1>18. CASE Watch \/ Environment \/ Terminated \/ UNCHANGED vars
  <2>1. UNCHANGED <<uploadVars, retryVars, verifyVars, pc>>
    BY <1>18, OthersWait
  <2> QED
    BY <2>1 DEF uploadVars, retryVars, verifyVars
<1> QED
  BY <1>1, <1>2, <1>3, <1>4, <1>5, <1>6, <1>7, <1>8, <1>9, <1>10, <1>11,
     <1>12, <1>13, <1>14, <1>15, <1>16, <1>17, <1>18 DEF Next, Process

(***************************************************************************)
(* The work list is finite.                                                *)
(***************************************************************************)
LEMMA WorkFinite ==
  ASSUME TypeOK
  PROVE  IsFiniteSet(work) /\ Cardinality(work) \in Nat
<1>1. N \in Nat
  BY ConstantsAssumption
<1>2. IsFiniteSet(1 .. N)
  BY <1>1, FS_Interval
<1>3. work \subseteq 1 .. N
  BY DEF TypeOK, Chunks
<1> QED
  BY <1>2, <1>3, FS_Subset, FS_CardinalityType

(***************************************************************************)
(* One chunk less makes the work list smaller.                             *)
(***************************************************************************)
LEMMA WorkShrinks ==
  ASSUME TypeOK, NEW c \in work
  PROVE  Cardinality(work \ {c}) < Cardinality(work)
<1>1. IsFiniteSet(work) /\ Cardinality(work) \in Nat
  BY WorkFinite
<1>2. Cardinality(work \ {c}) = Cardinality(work) - 1
  BY <1>1, FS_RemoveElement
<1> QED
  BY <1>1, <1>2

(***************************************************************************)
(* The measure is made of natural numbers.                                 *)
(***************************************************************************)
LEMMA WorkLeftType ==
  ASSUME UploadInv, LoopBounds
  PROVE  WorkLeft \in [1 .. 7 -> Nat]
<1>1. Stage \in Nat /\ Phase \in Nat /\ StepsLeft \in Nat
  BY DEF Stage, Phase, StepsLeft
<1>2. /\ N \in Nat /\ MaxReconnections \in Nat /\ MaxChunkRetries \in Nat
      /\ MaxReprobeRetries \in Nat /\ MaxRootRetries \in Nat
      /\ reconUsed \in 0 .. MaxReconnections /\ attempt \in Nat
  BY ConstantsAssumption DEF UploadInv, TypeOK
<1>3. ReconnectionsLeft \in Nat
  BY <1>2 DEF ReconnectionsLeft
<1>4. PassesLeft \in Nat
  BY <1>2 DEF PassesLeft, LoopBounds
<1>5. AttemptsLeft \in Nat
  BY <1>2 DEF AttemptsLeft, LoopBounds, VerifyPCs
<1>6. Cardinality(work) \in Nat
  BY WorkFinite DEF UploadInv
<1> QED
  BY <1>1, <1>3, <1>4, <1>5, <1>6 DEF WorkLeft

(***************************************************************************)
(* A step of the call leaves less to do. By action: the first place where  *)
(* the measures differ.                                                    *)
(***************************************************************************)
LEMMA ProcessAdvances ==
  ASSUME UploadInv, LoopBounds, UploadInv', LoopBounds', Process,
         WorkLeft \in [1 .. 7 -> Nat], WorkLeft' \in [1 .. 7 -> Nat]
  PROVE  <<WorkLeft', WorkLeft>> \in Smaller
<1> DEFINE
      StageEnds == Stage' < Stage
      Reconnected == Stage' = Stage /\ ReconnectionsLeft' < ReconnectionsLeft
      PassEnds ==
        /\ Stage' = Stage /\ ReconnectionsLeft' = ReconnectionsLeft
        /\ PassesLeft' < PassesLeft
      SamePass ==
        /\ Stage' = Stage /\ ReconnectionsLeft' = ReconnectionsLeft
        /\ PassesLeft' = PassesLeft
      PhaseEnds == SamePass /\ Phase' < Phase
      ChunkDone ==
        SamePass /\ Phase' = Phase /\ Cardinality(work') < Cardinality(work)
      AttemptTaken ==
        /\ SamePass /\ Phase' = Phase /\ work' = work
        /\ AttemptsLeft' < AttemptsLeft
      StepTaken ==
        /\ SamePass /\ Phase' = Phase /\ work' = work
        /\ AttemptsLeft' = AttemptsLeft /\ StepsLeft' < StepsLeft
<1>a. /\ N \in Nat /\ MaxReconnections \in Nat /\ MaxChunkRetries \in Nat
      /\ MaxReprobeRetries \in Nat \ {0} /\ MaxRootRetries \in Nat \ {0}
      /\ reconUsed \in 0 .. MaxReconnections /\ attempt \in Nat
      /\ reconUsed' \in 0 .. MaxReconnections /\ attempt' \in Nat
      /\ cursor \in 1 .. (N + 2) /\ round \in 0 .. (MaxReprobeRetries + 1)
      /\ size \in 1 .. 2
  BY ConstantsAssumption DEF UploadInv, TypeOK, LoopBounds
<1>b. cur \in work => Cardinality(work \ {cur}) < Cardinality(work)
  BY WorkShrinks DEF UploadInv
<1> USE <1>a DEF LoopPCs, BatchPCs, VerifyPCs, ChunkRetryPCs, RootLoopPCs,
        Stage, ReconnectionsLeft, PassesLeft, Phase, AttemptsLeft, StepsLeft
<1>1. ASSUME Preflight \/ PreflightFails \/ Seed \/ SeedFails
      PROVE  StageEnds
  BY <1>1 DEF Preflight, PreflightFails, Seed, SeedFails, Fail
<1>2. ASSUME LoopReconnect
      PROVE  Reconnected
  BY <1>2 DEF LoopReconnect, ReconnectTo
<1>3. ASSUME SkipBatch
      PROVE  PassEnds
  BY <1>3 DEF SkipBatch, BatchSize, connVars
<1>4. ASSUME SubmitBatch
      PROVE  PhaseEnds
  BY <1>4 DEF SubmitBatch, connVars
<1>5. ASSUME BatchSettled
      PROVE  PhaseEnds
  BY <1>5 DEF BatchSettled
<1>6. ASSUME BatchReconnect
      PROVE  Reconnected
  BY <1>6 DEF BatchReconnect, ReconnectTo
<1>7. ASSUME FailuresHandled
      PROVE  PassEnds
  BY <1>7 DEF FailuresHandled, connVars
<1>8. ASSUME TakeFailure
      PROVE  ChunkDone \/ AttemptTaken
  <2>1. PICK c \in work :
          \/ work' = work \ {c} /\ pc' = pc
          \/ attempt' = 0 /\ pc' = "attempt" /\ work' = work
    BY <1>8 DEF TakeFailure
  <2>2. Cardinality(work \ {c}) < Cardinality(work)
    BY WorkShrinks DEF UploadInv
  <2>3. pc = "retry" /\ UNCHANGED <<reconUsed, cursor>>
    BY <1>8 DEF TakeFailure, connVars
  <2> QED
    BY <2>1, <2>2, <2>3
<1>9. ASSUME StartAttempt
      PROVE  AttemptTaken
  BY <1>9 DEF StartAttempt, uploadVars
<1>10. ASSUME Reconcile
       PROVE  ChunkDone \/ StepTaken
  <2>1. cur \in work
    BY <1>10 DEF Reconcile, UploadInv, Covered
  <2>2. /\ pc = "reconcile" /\ UNCHANGED <<reconUsed, cursor, attempt>>
        /\ \/ work' = work \ {cur} /\ pc' = "retry"
           \/ work' = work /\ pc' = "resubmit"
    BY <1>10 DEF Reconcile, retryVars
  <2> QED
    BY <1>b, <2>1, <2>2
<1>11. ASSUME ReconcileFails \/ Resubmit
       PROVE  StepTaken
  BY <1>11 DEF ReconcileFails, Resubmit, connVars, uploadVars, retryVars
<1>12. ASSUME ResubmitLanded \/ ResubmitBackstop
       PROVE  ChunkDone
  <2>1. cur \in work
    BY <1>12 DEF ResubmitLanded, ResubmitBackstop, UploadInv, Covered
  <2> QED
    BY <1>12, <1>b, <2>1 DEF ResubmitLanded, ResubmitBackstop, connVars
<1>13. ASSUME ResubmitFailed
       PROVE  Reconnected \/ StepTaken
  <2>1. reconUsed' = reconUsed \/ reconUsed' = reconUsed + 1
    BY <1>13 DEF ResubmitFailed, ReconnectSwallowed, ReconnectTo, connVars
  <2> QED
    BY <1>13, <2>1 DEF ResubmitFailed, uploadVars, retryVars
<1>14. ASSUME EndBatches
       PROVE  StageEnds
  BY <1>14 DEF EndBatches
<1>15. ASSUME VerifyProbe
       PROVE  StageEnds \/ PhaseEnds \/ AttemptTaken
  BY <1>15 DEF VerifyProbe
<1>16. ASSUME Reprobe
       PROVE  StepTaken
  BY <1>16 DEF Reprobe, retryVars, verifyVars
<1>17. ASSUME Gap
       PROVE  PhaseEnds
  BY <1>17 DEF Gap, verifyVars
<1>18. ASSUME Reupload
       PROVE  AttemptTaken
  BY <1>18 DEF Reupload, verifyVars
<1>19. ASSUME ReuploadLanded
       PROVE  ChunkDone
  <2>1. cur \in work
    BY <1>19 DEF ReuploadLanded, UploadInv, Covered
  <2> QED
    BY <1>19, <1>b, <2>1 DEF ReuploadLanded
<1>20. ASSUME ReuploadFailed
       PROVE  StageEnds \/ ChunkDone \/ StepTaken
  <2>1. cur \in work
    BY <1>20 DEF ReuploadFailed, UploadInv, Covered
  <2>2. /\ pc = "reuploaded" /\ round' = round
        /\ \/ pc' = "throw"
           \/ pc' = "reupload" /\ work' = work \ {cur}
           \/ pc' = "reupload" /\ work' = work /\ attempt' = attempt
    BY <1>20 DEF ReuploadFailed, verifyVars
  <2> QED
    BY <1>b, <2>1, <2>2
<1>21. ASSUME RoundDone
       PROVE  StageEnds \/ PassEnds
  BY <1>21 DEF RoundDone
<1>22. ASSUME RootProbe
       PROVE  StageEnds \/ PhaseEnds
  BY <1>22 DEF RootProbe
<1>23. ASSUME RootSend
       PROVE  AttemptTaken
  BY <1>23 DEF RootSend
<1>24. ASSUME RootLanded
       PROVE  StageEnds
  BY <1>24 DEF RootLanded
<1>25. ASSUME RootFailed
       PROVE  StepTaken
  BY <1>25 DEF RootFailed, retryVars
<1>26. ASSUME Return \/ Throw
       PROVE  StageEnds
  BY <1>26 DEF Return, Throw, Fail
<1>27. ASSUME \/ LoopReconnectFails \/ BatchReconnectFails \/ AttemptsFail
              \/ ReprobeFails \/ GapFails \/ RootSendFails \/ RootFails
              \/ ReturnFails
       PROVE  StageEnds
  BY <1>27 DEF LoopReconnectFails, BatchReconnectFails, AttemptsFail,
               ReprobeFails, GapFails, RootSendFails, RootFails,
               ReturnFails, Fail
<1>28. \/ StageEnds \/ Reconnected \/ PassEnds \/ PhaseEnds \/ ChunkDone
       \/ AttemptTaken \/ StepTaken
  BY <1>1, <1>2, <1>3, <1>4, <1>5, <1>6, <1>7, <1>8, <1>9, <1>10, <1>11,
     <1>12, <1>13, <1>14, <1>15, <1>16, <1>17, <1>18, <1>19, <1>20, <1>21,
     <1>22, <1>23, <1>24, <1>25, <1>26, <1>27 DEF Process
<1> HIDE <1>a DEF LoopPCs, BatchPCs, VerifyPCs, ChunkRetryPCs, RootLoopPCs,
        Stage, ReconnectionsLeft, PassesLeft, Phase, AttemptsLeft, StepsLeft
<1>29. /\ WorkLeft[1] = Stage /\ WorkLeft[2] = ReconnectionsLeft
       /\ WorkLeft[3] = PassesLeft /\ WorkLeft[4] = Phase
       /\ WorkLeft[5] = Cardinality(work) /\ WorkLeft[6] = AttemptsLeft
       /\ WorkLeft[7] = StepsLeft
  BY DEF WorkLeft
<1>30. /\ WorkLeft'[1] = Stage' /\ WorkLeft'[2] = ReconnectionsLeft'
       /\ WorkLeft'[3] = PassesLeft' /\ WorkLeft'[4] = Phase'
       /\ WorkLeft'[5] = Cardinality(work') /\ WorkLeft'[6] = AttemptsLeft'
       /\ WorkLeft'[7] = StepsLeft'
  BY DEF WorkLeft
<1> QED
  BY <1>28, <1>29, <1>30, FirstDifference

-----------------------------------------------------------------------------
CallAdvances ==
  /\ Process => <<WorkLeft', WorkLeft>> \in Smaller
  /\ ~Process => WorkLeft' = WorkLeft

\* No loop of storeChunkedContent can go round for ever: every step of the call
\* leaves less to do, in an order without infinite descent, and while it waits
\* nothing the chain, a watch or a sibling deploy does adds to what is left.
THEOREM NoLoopWithoutEnd == Spec => [][CallAdvances]_vars
<1>1. Init => LoopBounds
  BY ConstantsAssumption DEF Init, LoopBounds, BatchPCs, ChunkRetryPCs
<1>2. UploadInv /\ LoopBounds /\ [Next]_vars => LoopBounds'
  BY BoundsStep
<1>3. UploadInv /\ LoopBounds => WorkLeft \in [1 .. 7 -> Nat]
  BY WorkLeftType
<1>4. /\ UploadInv /\ LoopBounds /\ WorkLeft \in [1 .. 7 -> Nat]
      /\ UploadInv' /\ LoopBounds' /\ (WorkLeft \in [1 .. 7 -> Nat])'
      /\ [Next]_vars
      => [CallAdvances]_vars
  <2> SUFFICES ASSUME UploadInv, LoopBounds, WorkLeft \in [1 .. 7 -> Nat],
                      UploadInv', LoopBounds', WorkLeft' \in [1 .. 7 -> Nat],
                      [Next]_vars
               PROVE  CallAdvances
    OBVIOUS
  <2>1. CASE Process
    BY <2>1, ProcessAdvances DEF CallAdvances
  <2>2. CASE ~Process
    <3>1. UNCHANGED <<reconUsed, cursor, round, attempt, pc, work>>
      BY <2>2, OthersWait DEF Next, uploadVars, retryVars, verifyVars
    <3>2. WorkLeft' = WorkLeft
      BY <3>1 DEF WorkLeft, Stage, ReconnectionsLeft, PassesLeft, Phase,
                  AttemptsLeft, StepsLeft
    <3> QED
      BY <2>2, <3>2 DEF CallAdvances
  <2> QED
    BY <2>1, <2>2
<1> QED
  BY <1>1, <1>2, <1>3, <1>4, UploadInvariant, PTL DEF Spec
=============================================================================
