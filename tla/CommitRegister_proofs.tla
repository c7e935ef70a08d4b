------------------------ MODULE CommitRegister_proofs ------------------------
(***************************************************************************)
(* Proofs about CommitRegister, for every finite set of processes, every   *)
(* number of crashes and every set of fault regimes.                       *)
(*                                                                         *)
(* Part 1: what holds whatever fails: types, the two register tries, and   *)
(* that a run returns only when the name is ours.                          *)
(* Part 2: under which faults a record is dropped only when it is useless. *)
(* Part 3: under which faults the secret is on disk, and the files and the *)
(* chain implement NameRegistration.                                       *)
(* Part 4: while the lock can be written it is a lock, whoever is killed;  *)
(* and every step of a run leaves it less to do.                           *)
(***************************************************************************)
EXTENDS CommitRegister, WellFoundedInduction, TLAPS

--------------------------------------------------------------------------------
(* Steps at which a process works with an active commitment. *)
Using == {"inspect", "probe", "commit", "committing", "rejected", "wait",
          "register", "registering", "registered"}

(* The active commitment is known, and only its record may be cleared; the *)
(* catch of a re-commit knows the error it caught.                         *)
HashInv == \A p \in Procs :
  /\ pc[p] \in Using => hash[p] \in Procs /\ key[p] \in {hash[p], None}
  /\ pc[p] = "rejected" => err[p] \in {"revert", "bare", "other"}

TypeInv == TypeOK /\ HashInv

(* What Throw does: a bare revert of the first try leads to the wait, a    *)
(* dead commitment of the second to the commit, anything else out.         *)
LEMMA ThrowEffect ==
  ASSUME TypeOK, NEW p \in Procs, NEW e \in Errors, Throw(p, e)
  PROVE  /\ pc' = [pc EXCEPT ![p] = pc'[p]]
         /\ err' = [err EXCEPT ![p] = e]
         /\ stage' = [stage EXCEPT ![p] = stage'[p]]
         /\ resub' \in [Procs -> BOOLEAN]
         /\ \/ /\ pc'[p] = "wait" /\ stage[p] = 1 /\ e = "bare"
               /\ stage'[p] = 2
            \/ /\ pc'[p] = "commit" /\ stage[p] = 2 /\ e = "dead"
               /\ stage'[p] = 3
            \/ pc'[p] = "release" /\ stage'[p] = stage[p]
<1>1. err' = [err EXCEPT ![p] = e]
  BY DEF Throw
<1>2. CASE stage[p] = 1 /\ e = "bare"
  BY <1>1, <1>2 DEF Throw, Goto, TypeOK
<1>3. CASE stage[p] = 2 /\ e = "dead"
  BY <1>1, <1>3 DEF Throw, Goto, TypeOK
<1>4. CASE ~(stage[p] = 1 /\ e = "bare") /\ ~(stage[p] = 2 /\ e = "dead")
  BY <1>1, <1>4 DEF Throw, Goto, TypeOK
<1> QED BY <1>2, <1>3, <1>4

(* A failing commit may also lead to resubmitCommitment's catch. *)
LEMMA CommitThrowsEffect ==
  ASSUME TypeOK, NEW p \in Procs, NEW e \in Errors, CommitThrows(p, e)
  PROVE  /\ pc' = [pc EXCEPT ![p] = pc'[p]]
         /\ err' = [err EXCEPT ![p] = e]
         /\ stage' = [stage EXCEPT ![p] = stage'[p]]
         /\ resub' \in [Procs -> BOOLEAN]
         /\ \/ /\ pc'[p] = "wait" /\ stage[p] = 1 /\ e = "bare"
               /\ stage'[p] = 2
            \/ /\ pc'[p] = "commit" /\ stage[p] = 2 /\ e = "dead"
               /\ stage'[p] = 3
            \/ pc'[p] \in {"release", "rejected"} /\ stage'[p] = stage[p]
<1>1. CASE resub[p]
  BY <1>1 DEF CommitThrows, Goto, TypeOK
<1>2. CASE ~resub[p]
  <2>1. Throw(p, e)
    BY <1>2 DEF CommitThrows
  <2> QED BY <2>1, ThrowEffect
<1> QED BY <1>1, <1>2

(* Resume leads to the commit, to the wait, or, with a stale price, to a   *)
(* fresh commitment.                                                       *)
LEMMA ResumeEffect ==
  ASSUME TypeOK, NEW p \in Procs, NEW b \in BOOLEAN, Resume(p, b)
  PROVE  /\ pc' = [pc EXCEPT ![p] = pc'[p]]
         /\ resub' \in [Procs -> BOOLEAN]
         /\ \/ pc'[p] \in {"commit", "wait"} /\ record' = record
            \/ /\ pc'[p] = "fresh" /\ hash[p] \in stale
               /\ ClearCommitmentRecord(key[p])
<1>1. CASE hash[p] \in stale
  BY <1>1 DEF Resume, Goto, TypeOK
<1>2. CASE hash[p] \notin stale
  BY <1>2 DEF Resume, Goto, TypeOK
<1> QED BY <1>1, <1>2

(* What the two checks of a resumed commitment do. *)
LEMMA InspectEffect ==
  ASSUME TypeOK, NEW p \in Procs, Inspect(p) \/ Probe(p)
  PROVE  /\ pc[p] \in {"inspect", "probe"}
         /\ pc' = [pc EXCEPT ![p] = pc'[p]]
         /\ resub' \in [Procs -> BOOLEAN]
         /\ UNCHANGED <<chainVars, lock, hash, key, stage, err, tries>>
         /\ \/ /\ pc'[p] \in {"probe", "commit", "wait"}
               /\ record' = record
            \/ /\ pc'[p] = "fresh" /\ hash[p] \in stale
               /\ ClearCommitmentRecord(key[p])
            \/ pc'[p] = "fresh" /\ "rpc" \in faults /\ record' = record
<1> DEFINE old == commitments[hash[p]] = "expired"
<1>1. old \in BOOLEAN
  OBVIOUS
<1>2. CASE Resume(p, TRUE)
  BY <1>2, ResumeEffect DEF Inspect, Probe
<1>3. CASE Resume(p, old)
  BY <1>1, <1>3, ResumeEffect DEF Inspect, Probe
<1>4. CASE NotResumed(p)
  BY <1>4 DEF Inspect, Probe, NotResumed, Goto, TypeOK
<1>5. CASE Goto(p, "probe") /\ UNCHANGED <<record, resub>>
  BY <1>5 DEF Inspect, Probe, Goto, TypeOK
<1> QED BY <1>2, <1>3, <1>4, <1>5 DEF Inspect, Probe

\* Every step keeps the types, and whoever uses a commitment knowing which.
LEMMA TypeStep == TypeInv /\ [Next]_vars => TypeInv'
<1> SUFFICES ASSUME TypeInv, [Next]_vars PROVE TypeInv'
  OBVIOUS
<1> USE DEF TypeInv, chainVars, fileVars, tryVars
<1>1. ASSUME NEW p \in Procs, Start(p) PROVE TypeInv'
  BY <1>1 DEF Start, Goto, TypeOK, HashInv, PCs, Ended, Using
<1>2. ASSUME NEW p \in Procs, AcquireLock(p) PROVE TypeInv'
  BY <1>2 DEF AcquireLock, Goto, TypeOK, HashInv, PCs, Ended, Using
<1>3. ASSUME NEW p \in Procs, GiveUpWaiting(p) PROVE TypeInv'
  BY <1>3 DEF GiveUpWaiting, Goto, TypeOK, HashInv, PCs, Ended, Using
<1>4. ASSUME NEW p \in Procs, CheckOwnership(p) PROVE TypeInv'
  BY <1>4 DEF CheckOwnership, ReleaseLock, Goto, TypeOK, HashInv, PCs, Ended,
              Using
<1>5. ASSUME NEW p \in Procs, LoadRecord(p) PROVE TypeInv'
  BY <1>5 DEF LoadRecord, Goto, TypeOK, HashInv, PCs, Ended, Using
<1>6. ASSUME NEW p \in Procs, Inspect(p) \/ Probe(p) PROVE TypeInv'
  BY <1>6, InspectEffect
     DEF ClearCommitmentRecord, TypeOK, HashInv, PCs, Ended, Using
<1>8. ASSUME NEW p \in Procs, Generate(p) PROVE TypeInv'
  BY <1>8 DEF Generate, PersistCommitmentRecord, Goto, TypeOK, HashInv, PCs,
              Ended, Using, Errors
<1>9. ASSUME NEW p \in Procs, Commit(p) PROVE TypeInv'
  <2>1. CASE /\ commitPool' = commitPool \cup {[by |-> p, hash |-> hash[p]]}
             /\ failed' = failed \ {p} /\ Goto(p, "committing")
             /\ UNCHANGED <<err, stage, resub>>
    BY <1>9, <2>1 DEF Commit, Goto, TypeOK, HashInv, PCs, Ended, Using, Txs
  <2>2. CASE /\ \E e \in {"revert", "bare", "other"} : CommitThrows(p, e)
             /\ UNCHANGED <<commitPool, failed>>
    <3>1. PICK e \in {"revert", "bare", "other"} : CommitThrows(p, e)
      BY <2>2
    <3> QED BY <1>9, <2>2, <3>1, CommitThrowsEffect
            DEF Commit, TypeOK, HashInv, PCs, Ended, Using, Errors
  <2> QED BY <1>9, <2>1, <2>2 DEF Commit
<1>10. ASSUME NEW p \in Procs, CommitSettles(p) PROVE TypeInv'
  <2>1. CASE Goto(p, "wait") /\ UNCHANGED <<err, stage, resub>>
    BY <1>10, <2>1 DEF CommitSettles, Goto, TypeOK, HashInv, PCs, Ended, Using
  <2>2. CASE CommitThrows(p, "other")
    BY <1>10, <2>2, CommitThrowsEffect
       DEF CommitSettles, TypeOK, HashInv, PCs, Ended, Using, Errors
  <2> QED BY <1>10, <2>1, <2>2 DEF CommitSettles
<1>11. ASSUME NEW p \in Procs, ResubmitRejected(p) PROVE TypeInv'
  <2>1. CASE Goto(p, "wait") /\ UNCHANGED <<record, err, stage, resub>>
    BY <1>11, <2>1 DEF ResubmitRejected, Goto, TypeOK, HashInv, PCs, Ended,
                       Using
  <2>2. CASE Throw(p, err[p]) /\ record' \in {record, None}
    <3>1. err[p] \in Errors
      BY DEF TypeOK
    <3> QED BY <1>11, <2>2, <3>1, ThrowEffect
            DEF ResubmitRejected, TypeOK, HashInv, PCs, Ended, Using
  <2> QED BY <1>11, <2>1, <2>2 DEF ResubmitRejected, ClearCommitmentRecord
<1>12. ASSUME NEW p \in Procs, WaitForCommitmentAge(p) PROVE TypeInv'
  <2>1. CASE Goto(p, "register") /\ UNCHANGED <<err, stage, resub>>
    BY <1>12, <2>1 DEF WaitForCommitmentAge, Goto, TypeOK, HashInv, PCs, Ended,
                       Using
  <2>2. CASE \E e \in {"dead", "other"} : Throw(p, e)
    BY <1>12, <2>2, ThrowEffect
       DEF WaitForCommitmentAge, TypeOK, HashInv, PCs, Ended, Using, Errors
  <2> QED BY <1>12, <2>1, <2>2 DEF WaitForCommitmentAge
<1>13. ASSUME NEW p \in Procs, Register(p) PROVE TypeInv'
  <2>0. tries' \in [Procs -> Nat]
    BY <1>13 DEF Register, TypeOK
  <2>1. CASE /\ registerPool' = registerPool
                                  \cup {[by |-> p, hash |-> hash[p]]}
             /\ failed' = failed \ {p} /\ Goto(p, "registering")
             /\ UNCHANGED <<err, stage, resub>>
    BY <1>13, <2>0, <2>1 DEF Register, Goto, TypeOK, HashInv, PCs, Ended, Using,
                             Txs
  <2>2. CASE /\ \E e \in {"bare", "other"} : Throw(p, e)
             /\ UNCHANGED <<registerPool, failed>>
    BY <1>13, <2>0, <2>2, ThrowEffect
       DEF Register, TypeOK, HashInv, PCs, Ended, Using, Errors
  <2> QED BY <1>13, <2>1, <2>2 DEF Register
<1>14. ASSUME NEW p \in Procs, RegisterSettles(p) PROVE TypeInv'
  <2>1. CASE Goto(p, "registered") /\ UNCHANGED <<err, stage, resub>>
    BY <1>14, <2>1 DEF RegisterSettles, Goto, TypeOK, HashInv, PCs, Ended, Using
  <2>2. CASE Throw(p, "other")
    BY <1>14, <2>2, ThrowEffect
       DEF RegisterSettles, TypeOK, HashInv, PCs, Ended, Using, Errors
  <2> QED BY <1>14, <2>1, <2>2 DEF RegisterSettles
<1>15. ASSUME NEW p \in Procs, ClearRegistered(p) PROVE TypeInv'
  BY <1>15 DEF ClearRegistered, ClearCommitmentRecord, Goto, TypeOK, HashInv,
               PCs, Ended, Using, Errors
<1>16. ASSUME NEW p \in Procs, Release(p) PROVE TypeInv'
  BY <1>16 DEF Release, ReleaseLock, Goto, TypeOK, HashInv, PCs, Ended, Using
<1>17. ASSUME NEW p \in Procs, Crash(p) PROVE TypeInv'
  BY <1>17 DEF Crash, Goto, TypeOK, HashInv, PCs, Ended, Using
<1>18. CASE LandCommit
  BY <1>18 DEF LandCommit, TypeOK, HashInv, Txs
<1>19. CASE LandRegister
  BY <1>19 DEF LandRegister, TypeOK, HashInv, Txs
<1>20. CASE DropTransaction
  BY <1>20 DEF DropTransaction, TypeOK, HashInv, Txs
<1>21. CASE Ripen \/ Expire \/ RivalRegisters
  BY <1>21 DEF Ripen, Expire, RivalRegisters, TypeOK, HashInv
<1>22. CASE Reprice \/ RecordAges \/ PruneStaleCommitmentRecords
  BY <1>22 DEF Reprice, RecordAges, PruneStaleCommitmentRecords, TypeOK, HashInv
<1>23. CASE UNCHANGED vars
  BY <1>23 DEF vars, TypeOK, HashInv
<1> QED BY <1>1, <1>2, <1>3, <1>4, <1>5, <1>6, <1>8, <1>9, <1>10, <1>11, <1>12,
           <1>13, <1>14, <1>15, <1>16, <1>17, <1>18, <1>19, <1>20, <1>21,
           <1>22, <1>23 DEF Next, Proceed, Environment

\* The initial states are typed.
LEMMA TypeInit == Init => TypeInv
BY ConstantsAssumption
   DEF Init, TypeInv, TypeOK, HashInv, Using, PCs, Ended, Errors

(* Types, and that every step that names a commitment knows it. *)
THEOREM TypeCorrect == Spec => []TypeOK
<1>1. Init => TypeInv
  BY TypeInit
<1>2. TypeInv /\ [Next]_vars => TypeInv'
  BY TypeStep
<1>3. TypeInv => TypeOK
  BY DEF TypeInv
<1> QED BY <1>1, <1>2, <1>3, PTL DEF Spec

--------------------------------------------------------------------------------
(* A step of one process leaves the others where they are. *)
Alone(p) ==
  /\ pc' = [pc EXCEPT ![p] = pc'[p]] /\ hash' = [hash EXCEPT ![p] = hash'[p]]
  /\ key' = [key EXCEPT ![p] = key'[p]] /\ err' = [err EXCEPT ![p] = err'[p]]
  /\ stage' = [stage EXCEPT ![p] = stage'[p]]
  /\ tries' = [tries EXCEPT ![p] = tries'[p]]

\* A step of a process moves no other process.
LEMMA ProcessAlone ==
  ASSUME TypeInv, NEW p \in Procs, Proceed(p) \/ Crash(p)
  PROVE  Alone(p)
<1> USE DEF Alone, TypeInv, TypeOK, chainVars, fileVars, tryVars
<1>1. CASE Start(p) \/ AcquireLock(p) \/ GiveUpWaiting(p) \/ CheckOwnership(p)
  BY <1>1 DEF Start, AcquireLock, GiveUpWaiting, CheckOwnership, Goto
<1>2. CASE LoadRecord(p) \/ Release(p) \/ Crash(p)
  BY <1>2 DEF LoadRecord, Release, Crash, Goto
<1>3. CASE Inspect(p) \/ Probe(p)
  BY <1>3, InspectEffect
<1>4. CASE Generate(p)
  BY <1>4 DEF Generate, PersistCommitmentRecord, Goto
<1>5. CASE Commit(p) \/ CommitSettles(p)
  <2>1. CASE \E e \in Errors : CommitThrows(p, e)
    BY <1>5, <2>1, CommitThrowsEffect DEF Commit, CommitSettles
  <2>2. CASE \E l \in PCs : Goto(p, l) /\ UNCHANGED <<err, stage>>
    BY <1>5, <2>2 DEF Commit, CommitSettles, Goto
  <2> QED BY <1>5, <2>1, <2>2 DEF Commit, CommitSettles, Errors, PCs
<1>6. CASE \/ ResubmitRejected(p) \/ WaitForCommitmentAge(p) \/ Register(p)
           \/ RegisterSettles(p)
  <2>0. UNCHANGED <<hash, key>> /\ tries' = [tries EXCEPT ![p] = tries'[p]]
    BY <1>6 DEF ResubmitRejected, WaitForCommitmentAge, Register,
                RegisterSettles
  <2>1. CASE \E e \in Errors : Throw(p, e)
    BY <2>0, <2>1, ThrowEffect
  <2>2. CASE \E l \in PCs : Goto(p, l) /\ UNCHANGED <<err, stage>>
    BY <2>0, <2>2 DEF Goto
  <2> QED BY <1>6, <2>1, <2>2
          DEF ResubmitRejected, WaitForCommitmentAge, Register,
              RegisterSettles, Errors, PCs, Ended
<1>7. CASE ClearRegistered(p)
  BY <1>7 DEF ClearRegistered, Goto
<1> QED BY <1>1, <1>2, <1>3, <1>4, <1>5, <1>6, <1>7 DEF Proceed

(* The chain and the prune sweep leave every process where it is. *)
LEMMA EnvironmentAlone ==
  Environment => UNCHANGED <<pc, tryVars, lock, faults>>
BY DEF Environment, LandCommit, LandRegister, DropTransaction, Ripen, Expire,
       RivalRegisters, Reprice, RecordAges, PruneStaleCommitmentRecords,
       chainVars, fileVars, tryVars

(* Steps before the transaction of a registration is sent. *)
Early == {"idle", "lock", "owned", "load", "inspect", "probe", "fresh",
          "commit", "committing", "rejected", "wait", "register"}

(* The first try has run no register dry run yet, a later one at most one. *)
TriesInv == \A p \in Procs :
  /\ tries[p] <= 2
  /\ pc[p] \in Early => tries[p] <= 1 /\ (stage[p] = 1 => tries[p] = 0)

(* What one process does to its count and its stage. *)
LEMMA TriesOfOne ==
  ASSUME TypeInv, NEW p \in Procs, Proceed(p) \/ Crash(p)
  PROVE  \/ /\ pc[p] # "register" /\ tries'[p] = tries[p]
            /\ pc'[p] \in Early
                 => pc[p] \in Early /\ (stage'[p] = 1 => stage[p] = 1)
         \/ /\ pc[p] = "register" /\ tries'[p] = tries[p] + 1
            /\ pc'[p] \in Early => stage[p] = 1 /\ stage'[p] = 2
         \/ pc'[p] = "dead" /\ tries'[p] = tries[p]
<1> USE DEF TypeInv, TypeOK, chainVars, fileVars, tryVars, Early
<1>1. CASE Start(p) \/ AcquireLock(p) \/ GiveUpWaiting(p) \/ CheckOwnership(p)
  BY <1>1 DEF Start, AcquireLock, GiveUpWaiting, CheckOwnership, Goto
<1>2. CASE LoadRecord(p) \/ Release(p) \/ Crash(p)
  BY <1>2 DEF LoadRecord, Release, Crash, Goto
<1>3. CASE Inspect(p) \/ Probe(p)
  BY <1>3, InspectEffect
<1>4. CASE Generate(p)
  BY <1>4 DEF Generate, PersistCommitmentRecord, Goto
<1>5. CASE Commit(p) \/ CommitSettles(p)
  <2>0. pc[p] \in {"commit", "committing"} /\ tries' = tries
    BY <1>5 DEF Commit, CommitSettles
  <2>1. CASE \E e \in Errors : CommitThrows(p, e)
    BY <2>0, <2>1, CommitThrowsEffect
  <2>2. CASE \E l \in PCs : Goto(p, l) /\ UNCHANGED <<err, stage>>
    BY <2>0, <2>2 DEF Goto
  <2> QED BY <1>5, <2>1, <2>2 DEF Commit, CommitSettles, Errors, PCs
<1>6. CASE \/ ResubmitRejected(p) \/ WaitForCommitmentAge(p)
  <2>0. pc[p] \in {"rejected", "wait"} /\ tries' = tries
    BY <1>6 DEF ResubmitRejected, WaitForCommitmentAge
  <2>1. CASE \E e \in Errors : Throw(p, e)
    BY <2>0, <2>1, ThrowEffect
  <2>2. CASE \E l \in PCs : Goto(p, l) /\ UNCHANGED <<err, stage>>
    BY <2>0, <2>2 DEF Goto
  <2> QED BY <1>6, <2>1, <2>2
          DEF ResubmitRejected, WaitForCommitmentAge, Errors, PCs
<1>7. CASE Register(p)
  <2>0. pc[p] = "register" /\ tries'[p] = tries[p] + 1
    BY <1>7 DEF Register
  <2>1. CASE \E e \in {"bare", "other"} : Throw(p, e)
    BY <2>0, <2>1, ThrowEffect DEF Errors
  <2>2. CASE Goto(p, "registering")
    BY <2>0, <2>2 DEF Goto
  <2> QED BY <1>7, <2>1, <2>2 DEF Register
<1>8. CASE RegisterSettles(p)
  <2>1. CASE Throw(p, "other")
    BY <1>8, <2>1, ThrowEffect DEF RegisterSettles, Errors
  <2>2. CASE Goto(p, "registered")
    BY <1>8, <2>2 DEF RegisterSettles, Goto
  <2> QED BY <1>8, <2>1, <2>2 DEF RegisterSettles
<1>9. CASE ClearRegistered(p)
  BY <1>9 DEF ClearRegistered, Goto
<1> QED BY <1>1, <1>2, <1>3, <1>4, <1>5, <1>6, <1>7, <1>8, <1>9 DEF Proceed

(* A run makes at most two register dry runs, whatever fails: a bare       *)
(* revert is retried once, and the re-commit of a dead commitment takes    *)
(* the place of that retry.                                                *)
THEOREM AtMostTwoTries == Spec => []TwoRegisterTries
<1>1. Init => TypeInv /\ TriesInv
  BY TypeInit DEF Init, TriesInv
<1>2. TypeInv /\ TriesInv /\ [Next]_vars => TypeInv' /\ TriesInv'
  <2> SUFFICES ASSUME TypeInv, TriesInv, [Next]_vars PROVE TriesInv'
    BY TypeStep
  <2>1. ASSUME NEW p \in Procs, Proceed(p) \/ Crash(p) PROVE TriesInv'
    <3>1. Alone(p) /\ TypeOK
      BY <2>1, ProcessAlone DEF TypeInv
    <3>2. tries[p] \in Nat /\ stage[p] \in 1 .. 3
      BY <3>1 DEF TypeOK
    <3> SUFFICES ASSUME NEW q \in Procs
                 PROVE  /\ tries'[q] <= 2
                        /\ pc'[q] \in Early
                             => /\ tries'[q] <= 1
                                /\ stage'[q] = 1 => tries'[q] = 0
      BY DEF TriesInv
    <3>3. CASE q = p
      BY <2>1, <3>2, <3>3, TriesOfOne DEF TriesInv, Early
    <3>4. CASE q # p
      BY <3>1, <3>4 DEF Alone, TypeOK, TriesInv
    <3> QED BY <3>3, <3>4
  <2>2. CASE Environment
    BY <2>2, EnvironmentAlone DEF tryVars, TriesInv
  <2>3. CASE UNCHANGED vars
    BY <2>3 DEF vars, tryVars, TriesInv
  <2> QED BY <2>1, <2>2, <2>3 DEF Next
<1>3. TriesInv => TwoRegisterTries
  BY DEF TriesInv, TwoRegisterTries
<1> QED BY <1>1, <1>2, <1>3, PTL DEF Spec

--------------------------------------------------------------------------------
(* A registration is sent, failed or in; what follows it knows it is in.   *)
Sent(p) == owner = "us" \/ p \in failed \/ Pending(p, registerPool)

RegisteredInv == \A p \in Procs :
  /\ pc[p] = "registering" => Sent(p)
  /\ pc[p] \in {"registered", "done"} => owner = "us"
  /\ pc[p] = "release" /\ err[p] = "none" => owner = "us"

(* No step takes the name away from us. *)
LEMMA OursForGood == owner = "us" /\ [Next]_vars => owner' = "us"
BY ZenonT(60) DEF Next, vars, Proceed, Environment, Start, AcquireLock, GiveUpWaiting,
       CheckOwnership, LoadRecord, Inspect, Probe, Generate, Commit,
       CommitSettles, ResubmitRejected, WaitForCommitmentAge, Register,
       RegisterSettles, ClearRegistered, Release, Crash, LandCommit,
       LandRegister, DropTransaction, Ripen, Expire, RivalRegisters, Reprice,
       RecordAges, PruneStaleCommitmentRecords, chainVars, fileVars, tryVars

(* What one process does on the way to, and from, its registration. *)
LEMMA RegisteringOfOne ==
  ASSUME TypeInv, NEW p \in Procs, Proceed(p) \/ Crash(p)
  PROVE  /\ pc'[p] = "registering"
              => /\ hash' = hash
                 /\ registerPool' = registerPool
                                      \cup {[by |-> p, hash |-> hash[p]]}
         /\ pc'[p] = "registered"
              => /\ pc[p] = "registering" /\ ~Pending(p, registerPool)
                 /\ p \notin failed \/ owner = "us"
         /\ pc'[p] = "done"
              => owner = "us" \/ (pc[p] = "release" /\ err[p] = "none")
         /\ pc'[p] = "release" /\ err'[p] = "none" => pc[p] = "registered"
         /\ registerPool \subseteq registerPool'
         /\ failed \ {p} \subseteq failed'
<1> USE DEF TypeInv, TypeOK, chainVars, fileVars, tryVars
<1>1. CASE Start(p) \/ AcquireLock(p) \/ GiveUpWaiting(p) \/ CheckOwnership(p)
  BY <1>1 DEF Start, AcquireLock, GiveUpWaiting, CheckOwnership, Goto
<1>2. CASE LoadRecord(p) \/ Release(p) \/ Crash(p)
  BY <1>2 DEF LoadRecord, Release, Crash, Goto
<1>3. CASE Inspect(p) \/ Probe(p)
  BY <1>3, InspectEffect
<1>4. CASE Generate(p)
  BY <1>4 DEF Generate, PersistCommitmentRecord, Goto
<1>5. CASE Commit(p) \/ CommitSettles(p)
  <2>0. registerPool' = registerPool /\ failed \ {p} \subseteq failed'
    BY <1>5 DEF Commit, CommitSettles
  <2>1. CASE \E e \in {"revert", "bare", "other"} : CommitThrows(p, e)
    BY <2>0, <2>1, CommitThrowsEffect DEF Errors
  <2>2. CASE \E l \in {"committing", "wait"} : Goto(p, l)
    BY <2>0, <2>2 DEF Goto
  <2> QED BY <1>5, <2>1, <2>2 DEF Commit, CommitSettles
<1>6. CASE \/ ResubmitRejected(p) \/ WaitForCommitmentAge(p)
  <2>0. registerPool' = registerPool /\ failed' = failed
    BY <1>6 DEF ResubmitRejected, WaitForCommitmentAge
  <2>1. CASE \E e \in Errors \ {"none"} : Throw(p, e)
    BY <2>0, <2>1, ThrowEffect
  <2>2. CASE \E l \in {"wait", "register"} : Goto(p, l)
    BY <2>0, <2>2 DEF Goto
  <2> QED BY <1>6, <2>1, <2>2
          DEF ResubmitRejected, WaitForCommitmentAge, Errors, HashInv
<1>7. CASE Register(p)
  <2>1. CASE (\E e \in {"bare", "other"} : Throw(p, e))
             /\ UNCHANGED <<registerPool, failed>>
    BY <2>1, ThrowEffect DEF Errors
  <2>2. CASE /\ Goto(p, "registering") /\ failed' = failed \ {p}
             /\ registerPool' = registerPool
                                  \cup {[by |-> p, hash |-> hash[p]]}
    BY <1>7, <2>2 DEF Goto, Register
  <2> QED BY <1>7, <2>1, <2>2 DEF Register
<1>8. CASE RegisterSettles(p)
  <2>0. UNCHANGED <<registerPool, failed>>
    BY <1>8 DEF RegisterSettles
  <2>1. CASE Throw(p, "other")
    BY <1>8, <2>0, <2>1, ThrowEffect DEF Errors
  <2>2. CASE /\ ~Pending(p, registerPool)
             /\ p \notin failed \/ owner = "us"
             /\ Goto(p, "registered")
    BY <1>8, <2>0, <2>2 DEF RegisterSettles, Goto
  <2> QED BY <1>8, <2>1, <2>2 DEF RegisterSettles
<1>9. CASE ClearRegistered(p)
  BY <1>9 DEF ClearRegistered, Goto
<1> QED BY <1>1, <1>2, <1>3, <1>4, <1>5, <1>6, <1>7, <1>8, <1>9 DEF Proceed

(* What the chain does to a registration that was sent. *)
LEMMA SentIsKept ==
  ASSUME TypeInv, Environment, NEW p \in Procs, Sent(p)
  PROVE  Sent(p)'
<1>0. hash' = hash
  BY EnvironmentAlone DEF tryVars
<1>1. CASE LandRegister
  BY <1>0, <1>1 DEF LandRegister, Sent, Pending, TypeInv, TypeOK, Txs
<1>2. CASE DropTransaction
  BY <1>0, <1>2 DEF DropTransaction, Sent, Pending, TypeInv, TypeOK, Txs
<1>3. CASE LandCommit
  BY <1>0, <1>3 DEF LandCommit, Sent, Pending
<1>4. CASE Ripen \/ Expire \/ Reprice \/ RecordAges
           \/ PruneStaleCommitmentRecords
  BY <1>0, <1>4 DEF Ripen, Expire, Reprice, RecordAges,
                    PruneStaleCommitmentRecords, chainVars, Sent, Pending
<1>5. CASE RivalRegisters
  BY <1>0, <1>5 DEF RivalRegisters, Sent, Pending
<1> QED BY <1>1, <1>2, <1>3, <1>4, <1>5 DEF Environment

\* Every step keeps a registration sent, failed or in.
LEMMA RegisteredStep ==
  TypeInv /\ RegisteredInv /\ [Next]_vars => RegisteredInv'
<1> SUFFICES ASSUME TypeInv, RegisteredInv, [Next]_vars PROVE RegisteredInv'
  OBVIOUS
<1>1. ASSUME NEW p \in Procs, Proceed(p) \/ Crash(p) PROVE RegisteredInv'
  <2>1. Alone(p) /\ TypeOK
    BY <1>1, ProcessAlone DEF TypeInv
  <2> SUFFICES ASSUME NEW q \in Procs
               PROVE  /\ pc'[q] = "registering" => Sent(q)'
                      /\ pc'[q] \in {"registered", "done"} => owner' = "us"
                      /\ pc'[q] = "release" /\ err'[q] = "none"
                           => owner' = "us"
    BY DEF RegisteredInv
  <2>2. CASE q = p
    <3>1. ASSUME pc'[p] = "registering" PROVE Sent(p)'
      <4>1. /\ hash' = hash
            /\ [by |-> p, hash |-> hash[p]] \in registerPool'
        BY <1>1, <3>1, RegisteringOfOne
      <4> QED BY <4>1 DEF Sent, Pending
    <3> QED BY <1>1, <2>2, <3>1, RegisteringOfOne, OursForGood
            DEF RegisteredInv, Sent
  <2>3. CASE q # p
    <3>1. /\ pc'[q] = pc[q] /\ hash'[q] = hash[q] /\ err'[q] = err[q]
          /\ registerPool \subseteq registerPool'
          /\ failed \ {p} \subseteq failed'
      BY <1>1, <2>1, <2>3, RegisteringOfOne DEF Alone, TypeOK
    <3>2. Sent(q) => Sent(q)'
      BY <2>3, <3>1, OursForGood DEF Sent, Pending
    <3> QED BY <3>1, <3>2, OursForGood DEF RegisteredInv
  <2> QED BY <2>2, <2>3
<1>2. CASE Environment
  BY <1>2, EnvironmentAlone, SentIsKept, OursForGood DEF RegisteredInv, tryVars
<1>3. CASE UNCHANGED vars
  BY <1>3 DEF vars, chainVars, fileVars, tryVars, RegisteredInv, Sent, Pending
<1> QED BY <1>1, <1>2, <1>3 DEF Next

(* commitAndRegister returns only when the name is registered to us,       *)
(* whatever fails and whoever else registers.                              *)
THEOREM ReturnsOnlyRegistered == Spec => []ReturnsRegistered
<1>1. Init => TypeInv /\ RegisteredInv
  BY TypeInit DEF Init, RegisteredInv
<1>2. TypeInv /\ RegisteredInv /\ [Next]_vars => TypeInv' /\ RegisteredInv'
  BY TypeStep, RegisteredStep
<1>3. RegisteredInv => ReturnsRegistered
  BY DEF RegisteredInv, ReturnsRegistered
<1> QED BY <1>1, <1>2, <1>3, PTL DEF Spec

--------------------------------------------------------------------------------
(***************************************************************************)
(* Part 2.  A controller that revives an expired commitment may do so      *)
(* again after the record was dropped.  The code can tell that it will not *)
(* when a dry run says why it reverts and one process at a time works on   *)
(* the name; with a controller that never revives, it always can.          *)
(***************************************************************************)
RevivesAlone == \A R \in Regimes :
  "expiry" \in R /\ "norevive" \notin R => "bare" \notin R /\ "unlocked" \notin R

(* Steps under the lock. *)
Holding == Using \cup {"owned", "load", "fresh", "release"}

ExclusiveInv ==
  "unlocked" \notin faults => \A p \in Procs : pc[p] \in Holding => lock = p

CommitPending(h) == \E t \in commitPool : t.hash = h

(* Only faults expire a commitment, and one that is never revived has no   *)
(* transaction left.                                                       *)
ExpiredInv == \A h \in Procs : commitments[h] = "expired" =>
  "expiry" \in faults /\ ("norevive" \in faults => ~CommitPending(h))

(* A re-commit that was rejected left no transaction behind. *)
RejectedInv == \A p \in Procs :
  /\ pc[p] = "rejected" /\ commitments[hash[p]] = "expired"
     /\ err[p] \in {"revert", "bare"}
       => ~CommitPending(hash[p])
  /\ pc[p] = "rejected" /\ "bare" \notin faults => err[p] # "bare"

DeadInv == ExclusiveInv /\ ExpiredInv /\ RejectedInv

\* The fault regime of a behaviour never changes.
LEMMA FaultsFixed == [Next]_vars => faults' = faults
BY ZenonT(60) DEF Next, vars, Proceed, Environment, Start, AcquireLock, GiveUpWaiting,
       CheckOwnership, LoadRecord, Inspect, Probe, Generate, Commit,
       CommitSettles, ResubmitRejected, WaitForCommitmentAge, Register,
       RegisterSettles, ClearRegistered, Release, Crash, LandCommit,
       LandRegister, DropTransaction, Ripen, Expire, RivalRegisters, Reprice,
       RecordAges, PruneStaleCommitmentRecords, chainVars, fileVars, tryVars

(* How one process takes, keeps and gives up the lock. *)
LEMMA LockOfOne ==
  ASSUME TypeInv, NEW p \in Procs, Proceed(p) \/ Crash(p)
  PROVE  \/ lock' = lock /\ (pc'[p] \in Holding => pc[p] \in Holding)
         \/ lock = p /\ lock' = None /\ pc'[p] \notin Holding
         \/ lock' = p /\ (lock = None \/ (lock \in Procs /\ pc[lock] = "dead"))
         \/ "unlocked" \in faults
<1> USE DEF TypeInv, TypeOK, chainVars, fileVars, tryVars, Holding, Using
<1>1. CASE Start(p) \/ AcquireLock(p) \/ GiveUpWaiting(p)
  BY <1>1 DEF Start, AcquireLock, GiveUpWaiting, Goto
<1>2. CASE CheckOwnership(p) \/ Release(p)
  BY <1>2 DEF CheckOwnership, Release, ReleaseLock, Goto
<1>3. CASE LoadRecord(p) \/ Generate(p) \/ Crash(p)
  BY <1>3 DEF LoadRecord, Generate, Crash, Goto
<1>4. CASE Inspect(p) \/ Probe(p)
  BY <1>4, InspectEffect
<1>5. CASE \/ Commit(p) \/ CommitSettles(p) \/ ResubmitRejected(p)
           \/ WaitForCommitmentAge(p) \/ Register(p) \/ RegisterSettles(p)
           \/ ClearRegistered(p)
  BY <1>5 DEF Commit, CommitSettles, ResubmitRejected, WaitForCommitmentAge,
              Register, RegisterSettles, ClearRegistered
<1> QED BY <1>1, <1>2, <1>3, <1>4, <1>5 DEF Proceed

\* Where the lock is exclusive, whoever is inside the critical section holds
\* it.
LEMMA ExclusiveStep ==
  TypeInv /\ ExclusiveInv /\ [Next]_vars => ExclusiveInv'
<1> SUFFICES ASSUME TypeInv, ExclusiveInv, [Next]_vars, "unlocked" \notin faults
             PROVE  \A q \in Procs : pc'[q] \in Holding => lock' = q
  BY FaultsFixed DEF ExclusiveInv
<1>1. ASSUME NEW p \in Procs, Proceed(p) \/ Crash(p), NEW q \in Procs,
             pc'[q] \in Holding
      PROVE  lock' = q
  <2>1. Alone(p) /\ TypeOK
    BY <1>1, ProcessAlone DEF TypeInv
  <2>2. q # p => pc'[q] = pc[q]
    BY <2>1 DEF Alone, TypeOK
  <2>3. None \notin Procs
    BY ConstantsAssumption
  <2> QED BY <1>1, <2>2, <2>3, LockOfOne DEF ExclusiveInv, Holding, Using
<1>2. CASE Environment
  BY <1>2, EnvironmentAlone DEF ExclusiveInv
<1>3. CASE UNCHANGED vars
  BY <1>3 DEF vars, fileVars, ExclusiveInv
<1> QED BY <1>1, <1>2, <1>3 DEF Next

(* One process sends a commit transaction, or leaves what is pending.      *)
LEMMA PendingOfOne ==
  ASSUME TypeInv, NEW p \in Procs, Proceed(p) \/ Crash(p)
  PROVE  /\ commitments' = commitments
         /\ \/ commitPool' = commitPool
            \/ /\ pc[p] = "commit" /\ pc'[p] = "committing"
               /\ Committable(hash[p])
               /\ commitPool' = commitPool \cup {[by |-> p, hash |-> hash[p]]}
<1> USE DEF TypeInv, TypeOK, chainVars, fileVars, tryVars
<1>1. CASE Commit(p)
  BY <1>1 DEF Commit, Goto
<1>2. CASE Inspect(p) \/ Probe(p)
  BY <1>2, InspectEffect
<1> QED BY <1>1, <1>2
        DEF Proceed, Start, AcquireLock, GiveUpWaiting, CheckOwnership,
            LoadRecord, Generate, CommitSettles, ResubmitRejected,
            WaitForCommitmentAge, Register, RegisterSettles, ClearRegistered,
            Release, Crash

(* The chain lets a commitment expire when nothing for it is pending, and  *)
(* otherwise makes none expired.                                           *)
LEMMA PendingOfChain ==
  ASSUME TypeInv, Environment, NEW h \in Procs
  PROVE  /\ commitPool' \subseteq commitPool
         /\ commitments'[h] = "expired"
              => \/ commitments[h] = "expired"
                 \/ "expiry" \in faults /\ ~CommitPending(h)
<1> USE DEF TypeInv, TypeOK, chainVars, CommitPending, Txs
<1>1. CASE LandCommit
  BY <1>1 DEF LandCommit
<1>2. CASE LandRegister
  BY <1>2 DEF LandRegister
<1>3. CASE Expire
  BY <1>3 DEF Expire
<1>4. CASE Ripen
  BY <1>4 DEF Ripen
<1> QED BY <1>1, <1>2, <1>3, <1>4
        DEF Environment, DropTransaction, RivalRegisters, Reprice, RecordAges,
            PruneStaleCommitmentRecords

\* A commitment expires by a fault, with no transaction that could revive it.
LEMMA ExpiredStep == TypeInv /\ ExpiredInv /\ [Next]_vars => ExpiredInv'
<1> SUFFICES ASSUME TypeInv, ExpiredInv, [Next]_vars, NEW h \in Procs,
                    commitments'[h] = "expired"
             PROVE  /\ "expiry" \in faults
                    /\ "norevive" \in faults => ~CommitPending(h)'
  BY FaultsFixed DEF ExpiredInv
<1>1. ASSUME NEW p \in Procs, Proceed(p) \/ Crash(p)
      PROVE  /\ "expiry" \in faults
             /\ "norevive" \in faults => ~CommitPending(h)'
  BY <1>1, PendingOfOne DEF ExpiredInv, CommitPending, Committable
<1>2. CASE Environment
  BY <1>2, PendingOfChain DEF ExpiredInv, CommitPending
<1>3. CASE UNCHANGED vars
  BY <1>3 DEF vars, chainVars, ExpiredInv, CommitPending
<1> QED BY <1>1, <1>2, <1>3 DEF Next

(* How a process comes to resubmitCommitment's catch. *)
LEMMA RejectionOfOne ==
  ASSUME TypeInv, NEW p \in Procs, Proceed(p) \/ Crash(p),
         pc'[p] = "rejected"
  PROVE  /\ hash' = hash
         /\ \/ err'[p] = "revert" /\ ~Committable(hash[p])
            \/ err'[p] = "bare" /\ "bare" \in faults
            \/ err'[p] = "other"
<1> USE DEF TypeInv, TypeOK, chainVars, fileVars, tryVars
<1>1. CASE Commit(p)
  <2>1. CASE Goto(p, "committing")
    BY <2>1 DEF Goto
  <2>2. CASE ~Committable(hash[p]) /\ CommitThrows(p, "revert")
    BY <1>1, <2>2, CommitThrowsEffect DEF Commit, Errors
  <2>3. CASE "bare" \in faults /\ CommitThrows(p, "bare")
    BY <1>1, <2>3, CommitThrowsEffect DEF Commit, Errors
  <2>4. CASE CommitThrows(p, "other")
    BY <1>1, <2>4, CommitThrowsEffect DEF Commit, Errors
  <2> QED BY <1>1, <2>1, <2>2, <2>3, <2>4 DEF Commit
<1>2. CASE CommitSettles(p)
  <2>1. CASE Goto(p, "wait")
    BY <2>1 DEF Goto
  <2>2. CASE CommitThrows(p, "other")
    BY <1>2, <2>2, CommitThrowsEffect DEF CommitSettles, Errors
  <2> QED BY <1>2, <2>1, <2>2 DEF CommitSettles
<1>3. CASE Inspect(p) \/ Probe(p)
  BY <1>3, InspectEffect
<1>4. CASE \/ ResubmitRejected(p) \/ WaitForCommitmentAge(p)
           \/ Register(p) \/ RegisterSettles(p)
  <2>1. CASE \E e \in Errors : Throw(p, e)
    BY <2>1, ThrowEffect
  <2>2. CASE \E l \in {"wait", "register", "registering", "registered"} :
               Goto(p, l)
    BY <2>2 DEF Goto
  <2> QED BY <1>4, <2>1, <2>2
          DEF ResubmitRejected, WaitForCommitmentAge, Register,
              RegisterSettles, Errors
<1>5. CASE \/ Start(p) \/ AcquireLock(p) \/ GiveUpWaiting(p)
           \/ CheckOwnership(p) \/ LoadRecord(p) \/ Generate(p)
           \/ ClearRegistered(p) \/ Release(p) \/ Crash(p)
  BY <1>5 DEF Start, AcquireLock, GiveUpWaiting, CheckOwnership, LoadRecord,
              Generate, ClearRegistered, Release, Crash, Goto
<1> QED BY <1>1, <1>2, <1>3, <1>4, <1>5 DEF Proceed

\* A re-commit that was rejected left no transaction behind.
LEMMA RejectedStep ==
  ASSUME RevivesAlone, TypeInv, DeadInv, ExpiredInv', [Next]_vars
  PROVE  RejectedInv'
<1> SUFFICES ASSUME NEW q \in Procs, pc'[q] = "rejected",
                    NEW h \in Procs, hash'[q] = h
             PROVE  /\ commitments'[h] = "expired" /\ err'[q] # "other"
                         => ~CommitPending(h)'
                    /\ "bare" \notin faults => err'[q] # "bare"
  <2>1. TypeInv'
    BY TypeStep
  <2> QED BY <2>1, FaultsFixed
          DEF TypeInv, HashInv, Using, RejectedInv, CommitPending
<1> DEFINE Safe == /\ commitments'[h] = "expired" /\ err'[q] # "other"
                        => ~CommitPending(h)'
                   /\ "bare" \notin faults => err'[q] # "bare"
           Revives == "norevive" \notin faults /\ "expiry" \in faults
<1>1. Revives => "bare" \notin faults /\ "unlocked" \notin faults
  BY DEF TypeInv, TypeOK, RevivesAlone
<1>2. commitments'[h] = "expired" => Revives \/ ~CommitPending(h)'
  BY FaultsFixed DEF ExpiredInv
<1>3. ASSUME pc[q] = "rejected", UNCHANGED <<hash[q], err[q]>>,
             Revives => commitPool' \subseteq commitPool,
             commitments'[h] = "expired"
               => commitments[h] = "expired" \/ ~CommitPending(h)
      PROVE  Safe
  <2>1. hash[q] = h /\ err'[q] \in {"revert", "bare", "other"}
    BY <1>3 DEF TypeInv, HashInv
  <2> QED BY <1>2, <1>3, <2>1 DEF DeadInv, RejectedInv, CommitPending
<1>4. ASSUME NEW p \in Procs, Proceed(p) \/ Crash(p), p = q
      PROVE  Safe
  <2>1. /\ hash[q] = h /\ commitments' = commitments
        /\ \/ err'[q] = "revert" /\ ~Committable(h)
           \/ err'[q] = "bare" /\ "bare" \in faults
           \/ err'[q] = "other"
    BY <1>4, RejectionOfOne, PendingOfOne
  <2> QED BY <1>1, <1>2, <2>1 DEF Committable
<1>5. ASSUME NEW p \in Procs, Proceed(p) \/ Crash(p), p # q
      PROVE  Safe
  <2>1. Alone(p) /\ TypeOK
    BY <1>5, ProcessAlone DEF TypeInv
  <2>2. pc[q] = "rejected" /\ UNCHANGED <<hash[q], err[q]>>
    BY <1>5, <2>1 DEF Alone, TypeOK
  <2>3. "unlocked" \notin faults => pc[p] # "commit"
    BY <1>5, <2>2 DEF DeadInv, ExclusiveInv, Holding, Using
  <2> QED BY <1>1, <1>3, <1>5, <2>2, <2>3, PendingOfOne
<1>6. CASE Environment
  <2>1. pc[q] = "rejected" /\ UNCHANGED <<hash[q], err[q]>>
    BY <1>6, EnvironmentAlone DEF tryVars
  <2> QED BY <1>3, <1>6, <2>1, PendingOfChain
<1>7. CASE UNCHANGED vars
  BY <1>3, <1>7 DEF vars, chainVars, tryVars
<1> QED BY <1>4, <1>5, <1>6, <1>7 DEF Next

\* No commitment has expired initially.
LEMMA DeadInit == Init => DeadInv
BY DEF Init, DeadInv, ExclusiveInv, ExpiredInv, RejectedInv, Holding, Using

\* The three together are inductive.
LEMMA DeadStep ==
  ASSUME RevivesAlone, TypeInv, DeadInv, [Next]_vars
  PROVE  DeadInv'
BY ExclusiveStep, ExpiredStep, RejectedStep DEF DeadInv

(* Why one process drops a record. *)
LEMMA DropOfOne ==
  ASSUME TypeInv, RegisteredInv, NEW p \in Procs, Proceed(p) \/ Crash(p),
         record \in Procs, record' # record
  PROVE  /\ record' = None
         /\ \/ owner = "us" \/ record \in stale \cup aged
            \/ /\ pc[p] = "rejected" /\ record = hash[p]
               /\ commitments[record] = "expired"
               /\ err[p] \in {"revert", "bare"}
<1> USE ConstantsAssumption
    DEF TypeInv, TypeOK, chainVars, fileVars, tryVars, ClearCommitmentRecord
<1>1. CASE Inspect(p) \/ Probe(p)
  BY <1>1, InspectEffect DEF HashInv, Using
<1>2. CASE LoadRecord(p)
  BY <1>2 DEF LoadRecord
<1>3. CASE Generate(p)
  BY <1>3 DEF Generate, PersistCommitmentRecord
<1>4. CASE ResubmitRejected(p)
  BY <1>4 DEF ResubmitRejected, HashInv, Using
<1>5. CASE ClearRegistered(p)
  BY <1>5 DEF ClearRegistered, RegisteredInv
<1> QED BY <1>1, <1>2, <1>3, <1>4, <1>5
        DEF Proceed, Start, AcquireLock, GiveUpWaiting, CheckOwnership,
            Commit, CommitSettles, WaitForCommitmentAge, Register,
            RegisterSettles, Release, Crash

(* Why a record is dropped by any step. *)
LEMMA DropOfAny ==
  ASSUME TypeInv, RegisteredInv, DeadInv, [Next]_vars,
         record \in Procs, record' # record
  PROVE  /\ record' = None
         /\ \/ owner = "us" \/ record \in stale \cup aged
            \/ commitments[record] = "expired" /\ record \notin Outstanding
<1>1. ASSUME NEW p \in Procs, pc[p] = "rejected", record = hash[p],
             commitments[record] = "expired", err[p] \in {"revert", "bare"}
      PROVE  record \notin Outstanding
  BY <1>1 DEF DeadInv, RejectedInv, CommitPending, Outstanding, Live
<1>2. ASSUME NEW p \in Procs, Proceed(p) \/ Crash(p)
      PROVE  /\ record' = None
             /\ \/ owner = "us" \/ record \in stale \cup aged
                \/ commitments[record] = "expired" /\ record \notin Outstanding
  BY <1>1, <1>2, DropOfOne
<1>3. CASE Environment
  BY <1>3 DEF Environment, LandCommit, LandRegister, DropTransaction, Ripen,
              Expire, RivalRegisters, Reprice, RecordAges,
              PruneStaleCommitmentRecords, fileVars
<1>4. CASE UNCHANGED vars
  BY <1>4 DEF vars, fileVars
<1> QED BY <1>2, <1>3, <1>4 DEF Next

(* A record is dropped only when its name is registered, its commitment    *)
(* has expired with no transaction left to revive it, or its price or age  *)
(* has made it useless.                                                    *)
THEOREM DropsOnlyUseless ==
  ASSUME RevivesAlone
  PROVE  Spec => DiscardsOnlyTheDead
<1> DEFINE Inv == TypeInv /\ RegisteredInv /\ DeadInv
<1>1. Init => Inv
  BY TypeInit, DeadInit DEF Init, RegisteredInv
<1>2. Inv /\ [Next]_vars => Inv'
  BY RevivesAlone, TypeStep, RegisteredStep, DeadStep
<1>3. Inv /\ [Next]_vars
        => [record' # record /\ record \in Procs
              => \/ owner = "us"
                 \/ commitments[record] = "expired" /\ record \notin Outstanding
                 \/ record \in stale \cup aged]_vars
  BY DropOfAny
<1> QED BY <1>1, <1>2, <1>3, PTL DEF Spec, DiscardsOnlyTheDead

--------------------------------------------------------------------------------
(***************************************************************************)
(* Part 3.  While chain reads answer, the files can be written, and no     *)
(* price or record goes stale, an open commitment is always to the secret  *)
(* on disk.                                                                *)
(***************************************************************************)
FilesWork == \A R \in Regimes :
  R \cap {"rpc", "unlocked", "disk", "reprice", "old"} = {}

Gone(h) == "norevive" \in faults /\ commitments[h] = "expired"

(* Who works on a commitment has its secret on disk, unless it expired for *)
(* good; who makes a new one found none.                                   *)
KeptInv ==
  /\ stale = {} /\ aged = {}
  /\ owner = "nobody" => \A p \in Procs :
       /\ pc[p] \in Using => record = hash[p] \/ Gone(hash[p])
       /\ pc[p] = "fresh" => record = None

DiskInv == TypeInv /\ RegisteredInv /\ DeadInv /\ KeptInv /\ SecretOnDisk

\* Where the files work, none of the faults that lose a secret is in the
\* regime.
LEMMA NoFault ==
  ASSUME FilesWork, TypeInv
  PROVE  /\ "rpc" \notin faults /\ "unlocked" \notin faults
         /\ "disk" \notin faults /\ "reprice" \notin faults
         /\ "old" \notin faults
BY DEF FilesWork, TypeInv, TypeOK

\* A commitment is outstanding under the name of a process.
LEMMA OutstandingTyped == TypeInv => Outstanding \subseteq Procs
BY DEF TypeInv, TypeOK, Outstanding, Txs

(* What the chain does to the commitments, the name and the record.        *)
LEMMA EffectOfChain ==
  ASSUME FilesWork, TypeInv, KeptInv, Environment
  PROVE  /\ record' = record /\ stale' = stale /\ aged' = aged
         /\ \A h \in Procs : Gone(h) => Gone(h)'
         /\ \/ owner' = owner /\ Outstanding' \subseteq Outstanding
            \/ owner = "nobody" /\ owner' = "us" /\ Outstanding # {}
            \/ owner = "nobody" /\ owner' = "rival"
<1> USE DEF TypeInv, TypeOK, chainVars, fileVars, Gone, Outstanding, Live, Txs
<1>1. CASE LandCommit
  <2>1. PICK t \in commitPool :
          /\ commitPool' = commitPool \ {t}
          /\ \/ /\ Committable(t.hash)
                /\ commitments' = [commitments EXCEPT ![t.hash] = "young"]
             \/ commitments' = commitments
    BY <1>1 DEF LandCommit
  <2>2. owner' = owner /\ faults' = faults
        /\ record' = record /\ stale' = stale /\ aged' = aged
    BY <1>1 DEF LandCommit
  <2>3. CASE commitments' = commitments
    BY <2>1, <2>2, <2>3
  <2>4. CASE /\ Committable(t.hash)
             /\ commitments' = [commitments EXCEPT ![t.hash] = "young"]
    <3>1. t.hash \in Outstanding
      OBVIOUS
    <3>2. \A h \in Procs : h # t.hash => commitments'[h] = commitments[h]
      BY <2>4
    <3>3. Outstanding' \subseteq Outstanding
      BY <2>1, <3>1, <3>2
    <3> QED BY <2>2, <2>4, <3>2, <3>3 DEF Committable
  <2> QED BY <2>1, <2>3, <2>4
<1>2. CASE LandRegister
  BY <1>2 DEF LandRegister
<1>3. CASE DropTransaction
  BY <1>3 DEF DropTransaction
<1>4. CASE Ripen
  BY <1>4 DEF Ripen
<1>5. CASE Expire
  BY <1>5 DEF Expire
<1>6. CASE RivalRegisters
  BY <1>6 DEF RivalRegisters
<1>7. ~Reprice /\ ~RecordAges /\ ~PruneStaleCommitmentRecords
  BY NoFault DEF Reprice, RecordAges, PruneStaleCommitmentRecords, KeptInv
<1> QED BY <1>1, <1>2, <1>3, <1>4, <1>5, <1>6, <1>7 DEF Environment

(* What one process does to the record, and what it then works on.         *)
LEMMA EffectOfOne ==
  ASSUME FilesWork, TypeInv, RegisteredInv, KeptInv, NEW p \in Procs,
         Proceed(p) \/ Crash(p)
  PROVE  /\ owner' = owner /\ stale' = stale /\ aged' = aged
         /\ \/ /\ record' = record /\ pc'[p] # "fresh"
               /\ pc'[p] \in Using
                    => pc[p] \in Using /\ hash'[p] = hash[p]
            \/ /\ pc[p] = "load" /\ record \in Procs /\ record' = record
               /\ pc'[p] = "inspect" /\ hash'[p] = record
            \/ /\ pc[p] = "load" /\ record \notin Procs /\ record' = None
               /\ pc'[p] = "fresh"
            \/ /\ pc[p] = "fresh" /\ record = None /\ record' = p
               /\ pc'[p] = "commit" /\ hash'[p] = p
            \/ pc[p] = "fresh" /\ record # None /\ record' = record
            \/ /\ pc[p] = "rejected" /\ record' \in {record, None}
               /\ commitments[hash[p]] = "expired"
               /\ pc'[p] = "release" \/ (pc'[p] = "wait" /\ err[p] = "bare")
               /\ hash'[p] = hash[p]
            \/ /\ pc[p] = "registered" /\ pc'[p] = "release"
               /\ owner = "us" /\ record' \in {record, None}
<1> USE NoFault DEF TypeInv, TypeOK, chainVars, fileVars, tryVars, Using
<1>1. CASE Start(p) \/ AcquireLock(p) \/ GiveUpWaiting(p) \/ CheckOwnership(p)
  BY <1>1 DEF Start, AcquireLock, GiveUpWaiting, CheckOwnership, Goto
<1>2. CASE Release(p) \/ Crash(p)
  BY <1>2 DEF Release, Crash, Goto
<1>3. CASE LoadRecord(p)
  BY <1>3 DEF LoadRecord, Goto, KeptInv
<1>4. CASE Inspect(p) \/ Probe(p)
  BY <1>4, InspectEffect DEF KeptInv
<1>5. CASE Generate(p)
  BY <1>5 DEF Generate, PersistCommitmentRecord, Goto
<1>6. CASE \/ Commit(p) \/ CommitSettles(p) \/ WaitForCommitmentAge(p)
           \/ Register(p) \/ RegisterSettles(p)
  <2>0. /\ UNCHANGED <<owner, stale, aged, record, hash>>
        /\ pc[p] \in Using
    BY <1>6 DEF Commit, CommitSettles, WaitForCommitmentAge, Register,
                RegisterSettles
  <2>1. CASE \E e \in Errors : CommitThrows(p, e)
    BY <2>0, <2>1, CommitThrowsEffect
  <2>2. CASE \E e \in Errors : Throw(p, e)
    BY <2>0, <2>2, ThrowEffect
  <2>3. CASE \E l \in Using : Goto(p, l)
    BY <2>0, <2>3 DEF Goto
  <2> QED BY <1>6, <2>1, <2>2, <2>3
          DEF Commit, CommitSettles, WaitForCommitmentAge, Register,
              RegisterSettles, Errors
<1>7. CASE ResubmitRejected(p)
  <2>0. /\ UNCHANGED <<owner, stale, aged, hash>>
        /\ pc[p] = "rejected" /\ err[p] \in {"revert", "bare", "other"}
    BY <1>7 DEF ResubmitRejected, HashInv
  <2>1. CASE Goto(p, "wait") /\ record' = record
    BY <2>0, <2>1 DEF Goto
  <2>2. CASE Throw(p, err[p]) /\ record' = record
    BY <2>0, <2>2, ThrowEffect DEF Errors
  <2>3. CASE /\ commitments[hash[p]] = "expired"
             /\ ClearCommitmentRecord(key[p]) /\ Throw(p, err[p])
    BY <2>0, <2>3, ThrowEffect DEF Errors, ClearCommitmentRecord
  <2> QED BY <1>7, <2>1, <2>2, <2>3 DEF ResubmitRejected
<1>8. CASE ClearRegistered(p)
  BY <1>8 DEF ClearRegistered, ClearCommitmentRecord, Goto, RegisteredInv
<1> QED BY <1>1, <1>2, <1>3, <1>4, <1>5, <1>6, <1>7, <1>8 DEF Proceed

\* Every step keeps the secret of every live commitment on disk.
LEMMA KeptStep ==
  ASSUME FilesWork, RevivesAlone, DiskInv, [Next]_vars
  PROVE  KeptInv' /\ SecretOnDisk'
<1> USE DEF DiskInv
<1>0. faults' = faults /\ None \notin Procs
  BY FaultsFixed, ConstantsAssumption
<1>1. ASSUME NEW p \in Procs, Proceed(p) \/ Crash(p)
      PROVE  KeptInv'
  <2>1. /\ Alone(p) /\ TypeOK /\ commitments' = commitments
        /\ owner' = owner /\ stale' = {} /\ aged' = {}
    BY <1>1, ProcessAlone, PendingOfOne, EffectOfOne DEF TypeInv, KeptInv
  <2> SUFFICES ASSUME owner = "nobody", NEW q \in Procs
               PROVE  /\ pc'[q] \in Using
                           => record' = hash'[q] \/ Gone(hash'[q])
                      /\ pc'[q] = "fresh" => record' = None
    BY <1>0, <2>1 DEF KeptInv, Gone
  <2>2. CASE q = p
    <3>1. pc[p] = "rejected" /\ commitments[hash[p]] = "expired"
          /\ err[p] = "bare" => Gone(hash[p])
      BY DEF DeadInv, RejectedInv, ExpiredInv, RevivesAlone, TypeInv, TypeOK,
             HashInv, Using, Gone
    <3> QED BY <1>1, <2>2, <3>1, EffectOfOne DEF KeptInv, Using
  <2>3. CASE q # p /\ pc'[q] \in Holding
    <3>1. pc'[q] = pc[q] /\ hash'[q] = hash[q]
      BY <2>1, <2>3 DEF Alone, TypeOK
    <3>2. pc[p] \notin Holding
      BY <2>3, <3>1, NoFault DEF DeadInv, ExclusiveInv
    <3>3. record' = record
      BY <1>1, <3>2, EffectOfOne DEF Holding, Using
    <3> QED BY <3>1, <3>3 DEF KeptInv
  <2> QED BY <2>2, <2>3 DEF Holding
<1>2. ASSUME NEW p \in Procs, Proceed(p) \/ Crash(p), owner' = "nobody"
      PROVE  Outstanding' \subseteq {record'}
  <2>1. owner = "nobody" /\ Outstanding \subseteq {record}
    BY <1>2, EffectOfOne DEF SecretOnDisk
  <2>2. CASE Outstanding' = Outstanding
    <3>1. CASE record' = record
      BY <2>1, <2>2, <3>1
    <3>2. CASE record' # record /\ record \in Procs
      BY <2>1, <2>2, <3>2, DropOfAny DEF KeptInv
    <3>3. CASE record \notin Procs
      BY <2>1, <2>2, <3>3, OutstandingTyped
    <3> QED BY <3>1, <3>2, <3>3
  <2>3. CASE /\ pc[p] = "commit" /\ pc'[p] = "committing"
             /\ Committable(hash[p]) /\ commitments' = commitments
             /\ commitPool' = commitPool \cup {[by |-> p, hash |-> hash[p]]}
    <3>1. record = hash[p]
      BY <2>1, <2>3 DEF KeptInv, Committable, Gone, Using
    <3>2. record' = record
      BY <1>2, <2>1, <2>3, EffectOfOne
    <3>3. Outstanding' \subseteq Outstanding \cup {hash[p]}
      <4>1. {t.hash : t \in commitPool'}
              \subseteq {t.hash : t \in commitPool} \cup {hash[p]}
        BY <2>3
      <4>2. {h \in Procs : Live(h)'} = {h \in Procs : Live(h)}
        BY <2>3 DEF Live
      <4> QED BY <4>1, <4>2 DEF Outstanding
    <3> QED BY <2>1, <3>1, <3>2, <3>3
  <2>4. \/ commitPool' = commitPool /\ commitments' = commitments
        \/ /\ pc[p] = "commit" /\ pc'[p] = "committing"
           /\ Committable(hash[p]) /\ commitments' = commitments
           /\ commitPool' = commitPool \cup {[by |-> p, hash |-> hash[p]]}
    BY <1>2, PendingOfOne
  <2> QED BY <2>2, <2>3, <2>4 DEF Outstanding, Live
<1>3. CASE Environment
  <2>1. UNCHANGED <<pc, hash>>
    BY <1>3, EnvironmentAlone DEF tryVars
  <2>2. SecretOnDisk'
    BY <1>3, EffectOfChain DEF SecretOnDisk
  <2>3. \A p \in Procs : pc[p] \in Using => hash[p] \in Procs
    BY DEF TypeInv, HashInv
  <2> QED BY <1>0, <1>3, <2>1, <2>2, <2>3, EffectOfChain DEF KeptInv
<1>4. CASE UNCHANGED vars
  BY <1>4 DEF vars, chainVars, fileVars, tryVars, KeptInv, Gone, SecretOnDisk,
              Outstanding, Live
<1> QED BY <1>1, <1>2, <1>3, <1>4 DEF Next, SecretOnDisk

\* No commitment is outstanding initially.
LEMMA DiskInit == Init => DiskInv
<1> SUFFICES ASSUME Init PROVE DiskInv
  OBVIOUS
<1>1. TypeInv /\ DeadInv
  BY TypeInit, DeadInit
<1>2. RegisteredInv /\ KeptInv
  BY DEF Init, RegisteredInv, KeptInv, Using
<1>3. Outstanding = {}
  BY DEF Init, Outstanding, Live
<1> QED BY <1>1, <1>2, <1>3 DEF DiskInv, SecretOnDisk

\* The whole invariant is inductive.
LEMMA DiskStep ==
  ASSUME FilesWork, RevivesAlone, DiskInv, [Next]_vars
  PROVE  DiskInv'
BY TypeStep, RegisteredStep, DeadStep, KeptStep DEF DiskInv

(* #1412: a commitment that is pending or valid can be revealed by a       *)
(* restart, at whatever step its process is killed.                        *)
THEOREM SecretSurvives ==
  ASSUME FilesWork, RevivesAlone
  PROVE  Spec => []SecretOnDisk
<1>1. Init => DiskInv
  BY DiskInit
<1>2. DiskInv /\ [Next]_vars => DiskInv'
  BY FilesWork, RevivesAlone, DiskStep
<1>3. DiskInv => SecretOnDisk
  BY DEF DiskInv
<1> QED BY <1>1, <1>2, <1>3, PTL DEF Spec

--------------------------------------------------------------------------------
(* The refinement mapping, in the terms of NameRegistration. *)
Kept == IF record \in Procs THEN record ELSE None
Open == IF owner = "nobody" THEN Outstanding ELSE {}

(* The steps of NameRegistration, and when one may stutter. *)
LEMMA AbstractStep ==
  ASSUME \/ UNCHANGED <<Kept, Open, owner>>
         \/ /\ Kept = None /\ Open = {} /\ Kept' \in Procs
            /\ Open' = Open /\ owner' = owner
         \/ /\ owner = "nobody" /\ Open = {} /\ Kept \in Procs
            /\ Open' = {Kept} /\ Kept' = Kept /\ owner' = owner
         \/ Open' = {} /\ Kept' = Kept /\ owner' = owner
         \/ /\ owner = "nobody" /\ Open # {} /\ owner' = "us"
            /\ Open' = {} /\ Kept' = Kept
         \/ /\ owner = "nobody" /\ owner' = "rival"
            /\ Open' = {} /\ Kept' = Kept
         \/ Open = {} /\ Kept' = None /\ Open' = Open /\ owner' = owner
  PROVE  Registration!Next \/ UNCHANGED Registration!vars
BY DEF Kept, Open, Registration!Next, Registration!vars, Registration!Keep,
       Registration!Commit, Registration!Lapse, Registration!Register,
       Registration!LoseName, Registration!Forget

(* A step of one process keeps, commits to or forgets its secret.          *)
LEMMA ProcessImplements ==
  ASSUME FilesWork, RevivesAlone, DiskInv, DiskInv', NEW p \in Procs,
         Proceed(p) \/ Crash(p), [Next]_vars
  PROVE  Registration!Next \/ UNCHANGED Registration!vars
<1> USE DEF DiskInv, Kept, Open
<1>0. None \notin Procs /\ Outstanding \subseteq Procs /\ owner' = owner
  BY ConstantsAssumption, OutstandingTyped, EffectOfOne
<1>1. owner = "nobody"
        => Outstanding \subseteq {record} /\ Outstanding' \subseteq {record'}
  BY <1>0 DEF SecretOnDisk
<1>2. Outstanding \subseteq Outstanding' /\ commitments' = commitments
  BY PendingOfOne DEF Outstanding, Live
<1>3. record' # record => Outstanding' = Outstanding
  BY PendingOfOne, EffectOfOne DEF Outstanding, Live
<1>4. CASE record' = record
  <2>1. Kept' = Kept
    BY <1>4
  <2>2. CASE owner # "nobody" \/ Outstanding' = Outstanding
    BY <1>0, <2>1, <2>2, AbstractStep
  <2>3. CASE owner = "nobody" /\ Outstanding' # Outstanding
    <3>1. PICK h \in Outstanding' : h \notin Outstanding
      BY <1>2, <2>3
    <3>2. h \in Procs
      BY <3>1 DEF TypeInv, TypeOK, Outstanding, Txs
    <3>3. record = h /\ Outstanding = {} /\ Outstanding' = {record}
      BY <1>1, <1>4, <2>3, <3>1
    <3> QED BY <1>0, <2>1, <2>3, <3>2, <3>3, AbstractStep
  <2> QED BY <2>2, <2>3
<1>5. CASE record' # record /\ record \in Procs
  <2>1. /\ record' = None
        /\ owner = "us" \/ record \notin Outstanding
    BY <1>5, DropOfAny DEF KeptInv
  <2>2. Kept' = None /\ Open' = Open /\ Open = {}
    BY <1>0, <1>1, <1>3, <1>5, <2>1
  <2> QED BY <1>0, <2>2, AbstractStep
<1>6. CASE record' # record /\ record \notin Procs
  <2>1. Open' = Open /\ Open = {} /\ Kept = None
    BY <1>0, <1>1, <1>3, <1>6
  <2>2. record' = None \/ record' = p
    BY <1>6, EffectOfOne
  <2> QED BY <1>0, <2>1, <2>2, AbstractStep
<1> QED BY <1>4, <1>5, <1>6

(* Every step of files and chain is one of NameRegistration, or none.      *)
LEMMA StepImplements ==
  ASSUME FilesWork, RevivesAlone, DiskInv, [Next]_vars
  PROVE  Registration!Next \/ UNCHANGED Registration!vars
<1>1. DiskInv'
  BY DiskStep
<1>2. ASSUME NEW p \in Procs, Proceed(p) \/ Crash(p)
      PROVE  Registration!Next \/ UNCHANGED Registration!vars
  BY <1>1, <1>2, ProcessImplements
<1>3. CASE Environment
  <2>1. Kept' = Kept
    BY <1>3, EffectOfChain DEF DiskInv, Kept
  <2>2. CASE owner' = owner /\ Outstanding' \subseteq Outstanding
    <3>1. Open' = Open \/ Open' = {}
      BY <2>2 DEF DiskInv, SecretOnDisk, Open
    <3> QED BY <2>1, <2>2, <3>1, AbstractStep
  <2>3. CASE owner = "nobody" /\ owner' = "us" /\ Outstanding # {}
    BY <2>1, <2>3, AbstractStep DEF Open
  <2>4. CASE owner = "nobody" /\ owner' = "rival"
    BY <2>1, <2>4, AbstractStep DEF Open
  <2> QED BY <1>3, <2>2, <2>3, <2>4, EffectOfChain DEF DiskInv
<1>4. CASE UNCHANGED vars
  BY <1>4, AbstractStep
     DEF vars, chainVars, fileVars, Kept, Open, Outstanding, Live
<1> QED BY <1>2, <1>3, <1>4 DEF Next

(* The files and the chain together implement NameRegistration: a secret   *)
(* is kept before it is committed to, one commitment at a time is open and *)
(* always to the secret that is kept, and it is forgotten only when no     *)
(* commitment to it is open.                                               *)
THEOREM ImplementsNameRegistration ==
  ASSUME FilesWork, RevivesAlone
  PROVE  Spec => RefinesNameRegistration
<1>1. Init => DiskInv /\ Registration!Init
  <2>1. Init => Kept = None /\ Open = {} /\ owner = "nobody"
    BY ConstantsAssumption DEF Init, Kept, Open, Outstanding, Live
  <2> QED BY <2>1, DiskInit DEF Registration!Init, Kept, Open
<1>2. DiskInv /\ [Next]_vars => DiskInv'
  BY FilesWork, RevivesAlone, DiskStep
<1>3. DiskInv /\ [Next]_vars => [Registration!Next]_(Registration!vars)
  BY FilesWork, RevivesAlone, StepImplements
<1> QED BY <1>1, <1>2, <1>3, PTL
        DEF Spec, RefinesNameRegistration, Registration!Spec

--------------------------------------------------------------------------------
(***************************************************************************)
(* Part 4.  What commitAndRegister makes of its lock, and how it ends.     *)
(***************************************************************************)
LockWorks == \A R \in Regimes : "unlocked" \notin R

Inside == {p \in Procs : pc[p] \in Holding}

Lock == INSTANCE NameLock WITH inside <- Inside

\* Who is inside holds the lock, so nobody else is inside.
LEMMA HolderAlone ==
  ASSUME LockWorks, TypeInv, ExclusiveInv, NEW p \in Inside
  PROVE  Inside = {p} /\ lock = p
<1>1. "unlocked" \notin faults
  BY DEF LockWorks, TypeInv, TypeOK
<1>2. \A q \in Inside : lock = q
  BY <1>1 DEF ExclusiveInv, Inside
<1> QED BY <1>2

\* A process takes the lock when nobody is inside, or gives it up.
LEMMA InsideOfOne ==
  ASSUME LockWorks, TypeInv, ExclusiveInv, NEW p \in Procs,
         Proceed(p) \/ Crash(p)
  PROVE  \/ Inside' = Inside
         \/ Inside = {} /\ Inside' = {p}
         \/ Inside = {p} /\ Inside' = {}
<1>1. \A q \in Procs \ {p} : pc'[q] = pc[q]
  BY ProcessAlone DEF Alone, TypeInv, TypeOK
<1>2. \A q \in Procs \ {p} : q \in Inside' <=> q \in Inside
  BY <1>1 DEF Inside
<1>3. Inside \subseteq Procs /\ Inside' \subseteq Procs
  BY DEF Inside
<1>4. CASE p \in Inside /\ p \in Inside'
  BY <1>2, <1>3, <1>4
<1>5. CASE p \in Inside /\ p \notin Inside'
  <2>1. Inside = {p}
    BY <1>5, HolderAlone
  <2> QED BY <1>2, <1>3, <1>5, <2>1
<1>6. CASE p \notin Inside /\ p \in Inside'
  <2>1. lock = None \/ (lock \in Procs /\ pc[lock] = "dead")
    <3>1. pc[p] \notin Holding /\ pc'[p] \in Holding
      BY <1>6 DEF Inside
    <3>2. "unlocked" \notin faults
      BY DEF LockWorks, TypeInv, TypeOK
    <3> QED BY <3>1, <3>2, LockOfOne
  <2>2. Inside = {}
    <3>1. SUFFICES ASSUME NEW q \in Inside PROVE FALSE
      OBVIOUS
    <3>2. lock = q /\ q \in Procs /\ pc[q] \in Holding
      BY HolderAlone DEF Inside
    <3> QED BY <2>1, <3>2, ConstantsAssumption DEF Holding, Using
  <2> QED BY <1>2, <1>3, <1>6, <2>2
<1>7. CASE p \notin Inside /\ p \notin Inside'
  BY <1>2, <1>3, <1>7
<1> QED BY <1>4, <1>5, <1>6, <1>7

(* The lock of CommitRegister is a NameLock while the lock file can be     *)
(* written: getting it, also from the dead, is entering; giving it up, and *)
(* being killed, is leaving.  It is the promise that CommitmentLock keeps  *)
(* until a process is killed, and there is what it takes for a kill to     *)
(* break it.                                                               *)
THEOREM ImplementsNameLock ==
  ASSUME LockWorks
  PROVE  Spec => Lock!Spec
<1>1. Init => TypeInv /\ ExclusiveInv /\ Lock!Init
  BY TypeInit DEF Init, ExclusiveInv, Holding, Using, Inside, Lock!Init
<1>2. TypeInv /\ ExclusiveInv /\ [Next]_vars => TypeInv' /\ ExclusiveInv'
  BY TypeStep, ExclusiveStep
<1>3. TypeInv /\ ExclusiveInv /\ [Next]_vars => [Lock!Next]_Inside
  <2> SUFFICES ASSUME TypeInv, ExclusiveInv, [Next]_vars
               PROVE  [Lock!Next]_Inside
    OBVIOUS
  <2>1. ASSUME NEW p \in Procs, Proceed(p) \/ Crash(p)
        PROVE  [Lock!Next]_Inside
    BY <2>1, LockWorks, InsideOfOne DEF Lock!Next, Lock!Enter, Lock!Leave
  <2>2. CASE Environment \/ UNCHANGED vars
    BY <2>2, EnvironmentAlone DEF vars, Inside
  <2> QED BY <2>1, <2>2 DEF Next
<1> QED BY <1>1, <1>2, <1>3, PTL DEF Spec, Lock!Spec

(* What a run has left to do, largest unit first: its phases, the tries of *)
(* its registration, the steps of one try.                                 *)
StepsLeft(p) ==
  CASE pc[p] = "commit" -> 6
    [] pc[p] = "committing" -> 5
    [] pc[p] = "rejected" -> 4
    [] pc[p] = "wait" -> 3
    [] pc[p] = "register" -> 2
    [] pc[p] = "registering" -> 1
    [] OTHER -> 0

Phase(p) ==
  CASE pc[p] = "idle" -> 10
    [] pc[p] = "lock" -> 9
    [] pc[p] = "owned" -> 8
    [] pc[p] = "load" -> 7
    [] pc[p] = "inspect" -> 6
    [] pc[p] = "probe" -> 5
    [] pc[p] = "fresh" -> 4
    [] StepsLeft(p) # 0 -> 3
    [] pc[p] = "registered" -> 2
    [] pc[p] = "release" -> 1
    [] OTHER -> 0

WorkLeft(p) == <<Phase(p), 3 - stage[p], StepsLeft(p)>>

Smaller == LexProductOrdering(OpToRel(<, Nat), Nat, 3)

\* The order has no infinite descent.
LEMMA SmallerWellFounded == IsWellFoundedOn(Smaller, [1 .. 3 -> Nat])
BY NatLessThanWellFounded, WFLexProductOrdering DEF Smaller

\* Two measures are ordered by the first place they differ in.
LEMMA FirstDifference ==
  ASSUME NEW m \in [1 .. 3 -> Nat], NEW k \in [1 .. 3 -> Nat],
         \/ m[1] < k[1]
         \/ m[1] = k[1] /\ m[2] < k[2]
         \/ m[1] = k[1] /\ m[2] = k[2] /\ m[3] < k[3]
  PROVE  <<m, k>> \in Smaller
<1>1. PICK i \in 1 .. 3 :
        m[i] < k[i] /\ \A j \in 1 .. (i - 1) : m[j] = k[j]
  OBVIOUS
<1>2. <<m[i], k[i]>> \in OpToRel(<, Nat)
  BY <1>1 DEF OpToRel
<1> QED BY <1>1, <1>2 DEF Smaller, LexProductOrdering

\* The measure is made of natural numbers.
LEMMA WorkLeftType ==
  ASSUME TypeInv, NEW p \in Procs
  PROVE  WorkLeft(p) \in [1 .. 3 -> Nat]
<1>1. Phase(p) \in Nat /\ StepsLeft(p) \in Nat
  BY DEF Phase, StepsLeft
<1>2. 3 - stage[p] \in Nat
  BY DEF TypeInv, TypeOK
<1> QED BY <1>1, <1>2 DEF WorkLeft

(* A run goes from phase to phase, from try to try or from step to step.   *)
LEMMA OwnStep ==
  ASSUME TypeInv, TypeInv', NEW p \in Procs, Proceed(p) \/ Crash(p),
         WorkLeft(p) \in [1 .. 3 -> Nat], WorkLeft(p)' \in [1 .. 3 -> Nat]
  PROVE  <<WorkLeft(p)', WorkLeft(p)>> \in Smaller
<1> DEFINE
      PhaseEnds == Phase(p)' < Phase(p)
      TryEnds == Phase(p)' = Phase(p) /\ stage'[p] > stage[p]
      StepTaken ==
        /\ Phase(p)' = Phase(p) /\ stage'[p] = stage[p]
        /\ StepsLeft(p)' < StepsLeft(p)
      Loop == {"commit", "committing", "rejected", "wait", "register",
               "registering"}
<1> USE DEF Phase, StepsLeft, TypeInv, TypeOK
<1>1. ASSUME NEW e \in Errors, Throw(p, e), pc[p] \in Loop
      PROVE  PhaseEnds \/ TryEnds
  BY <1>1, ThrowEffect
<1>2. ASSUME NEW e \in Errors, CommitThrows(p, e),
             pc[p] \in {"commit", "committing"}
      PROVE  PhaseEnds \/ TryEnds \/ StepTaken
  BY <1>2, CommitThrowsEffect
<1>3. ASSUME \/ Start(p) \/ AcquireLock(p) \/ GiveUpWaiting(p)
             \/ CheckOwnership(p) \/ LoadRecord(p) \/ Generate(p)
             \/ ClearRegistered(p) \/ Release(p) \/ Crash(p)
      PROVE  PhaseEnds
  BY <1>3 DEF Start, AcquireLock, GiveUpWaiting, CheckOwnership, LoadRecord,
              Generate, ClearRegistered, Release, Crash, Goto, PCs, Ended
<1>4. ASSUME Inspect(p) \/ Probe(p)
      PROVE  PhaseEnds
  <2>1. pc[p] = "inspect" \/ (pc[p] = "probe" /\ pc'[p] # "probe")
    BY <1>4 DEF Inspect, Probe, Resume, NotResumed, Goto
  <2> QED BY <1>4, <2>1, InspectEffect
<1>5. ASSUME Commit(p) \/ CommitSettles(p)
      PROVE  PhaseEnds \/ TryEnds \/ StepTaken
  <2>1. CASE \E e \in Errors : CommitThrows(p, e)
    BY <1>2, <1>5, <2>1 DEF Commit, CommitSettles
  <2>2. CASE /\ \/ pc[p] = "commit" /\ Goto(p, "committing")
                \/ pc[p] = "committing" /\ Goto(p, "wait")
             /\ UNCHANGED stage
    BY <2>2 DEF Goto
  <2> QED BY <1>5, <2>1, <2>2 DEF Commit, CommitSettles, Errors
<1>6. ASSUME \/ ResubmitRejected(p) \/ WaitForCommitmentAge(p)
             \/ Register(p) \/ RegisterSettles(p)
      PROVE  PhaseEnds \/ TryEnds \/ StepTaken
  <2>1. CASE \E e \in Errors : Throw(p, e)
    BY <1>1, <1>6, <2>1 DEF ResubmitRejected, WaitForCommitmentAge, Register,
                            RegisterSettles
  <2>2. CASE /\ \/ pc[p] = "rejected" /\ Goto(p, "wait")
                \/ pc[p] = "wait" /\ Goto(p, "register")
                \/ pc[p] = "register" /\ Goto(p, "registering")
                \/ pc[p] = "registering" /\ Goto(p, "registered")
             /\ UNCHANGED stage
    BY <2>2 DEF Goto
  <2>3. err[p] \in Errors
    OBVIOUS
  <2> QED BY <1>6, <2>1, <2>2, <2>3
          DEF ResubmitRejected, WaitForCommitmentAge, Register,
              RegisterSettles, Errors
<1>7. PhaseEnds \/ TryEnds \/ StepTaken
  BY <1>3, <1>4, <1>5, <1>6 DEF Proceed
<1>8. stage[p] \in Int /\ stage'[p] \in Int
  OBVIOUS
<1> HIDE DEF Phase, StepsLeft, TypeInv, TypeOK
<1>9. /\ WorkLeft(p)[1] = Phase(p) /\ WorkLeft(p)[2] = 3 - stage[p]
      /\ WorkLeft(p)[3] = StepsLeft(p)
  BY DEF WorkLeft
<1>10. /\ WorkLeft(p)'[1] = Phase(p)' /\ WorkLeft(p)'[2] = 3 - stage'[p]
       /\ WorkLeft(p)'[3] = StepsLeft(p)'
  BY DEF WorkLeft
<1> QED BY <1>7, <1>8, <1>9, <1>10, FirstDifference

\* What the others and the chain do takes nothing from it and adds nothing.
LEMMA OthersStep ==
  ASSUME TypeInv, NEW q \in Procs,
         Environment \/ (\E p \in Procs \ {q} : Proceed(p) \/ Crash(p))
  PROVE  WorkLeft(q)' = WorkLeft(q)
<1>1. pc'[q] = pc[q] /\ stage'[q] = stage[q]
  <2>1. CASE Environment
    BY <2>1, EnvironmentAlone DEF tryVars
  <2>2. ASSUME NEW p \in Procs \ {q}, Proceed(p) \/ Crash(p)
        PROVE  pc'[q] = pc[q] /\ stage'[q] = stage[q]
    BY <2>2, ProcessAlone DEF Alone, TypeInv, TypeOK
  <2> QED BY <2>1, <2>2
<1> QED BY <1>1 DEF WorkLeft, Phase, StepsLeft

RunsAdvance ==
  \/ \E p \in Procs :
       /\ <<WorkLeft(p)', WorkLeft(p)>> \in Smaller
       /\ \A q \in Procs \ {p} : WorkLeft(q)' = WorkLeft(q)
  \/ Environment /\ \A q \in Procs : WorkLeft(q)' = WorkLeft(q)

(* No fault makes a run of commitAndRegister go round for ever: a step of  *)
(* a run leaves it less to do, and no step of another run or of the chain  *)
(* gives it more.                                                          *)
THEOREM NoRunGoesRound == Spec => [][RunsAdvance]_vars
<1>1. Init => TypeInv
  BY TypeInit
<1>2. TypeInv /\ [Next]_vars => TypeInv'
  BY TypeStep
<1>3. TypeInv => \A p \in Procs : WorkLeft(p) \in [1 .. 3 -> Nat]
  BY WorkLeftType
<1>4. /\ TypeInv /\ TypeInv'
      /\ \A p \in Procs : WorkLeft(p) \in [1 .. 3 -> Nat]
      /\ (\A p \in Procs : WorkLeft(p) \in [1 .. 3 -> Nat])'
      /\ [Next]_vars
      => [RunsAdvance]_vars
  BY OwnStep, OthersStep DEF Next, RunsAdvance
<1> QED BY <1>1, <1>2, <1>3, <1>4, PTL DEF Spec

================================================================================
