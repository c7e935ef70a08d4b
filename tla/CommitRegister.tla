---------------------------- MODULE CommitRegister ----------------------------
(***************************************************************************)
(* DotNS.commitAndRegister (src/src/dotns.ts): commit, wait, register for  *)
(* one (environment, tld, owner, label), by processes of one machine that  *)
(* share the record file and the lock file of run-state.ts.  A process may *)
(* be killed at any step; a later process is its restart.                  *)
(*                                                                         *)
(* A process generates at most one secret, so a commitment is named after  *)
(* the process that generated it.  The chain keeps a commitment's age in   *)
(* classes: absent, too young to reveal, mature, expired.  A transaction   *)
(* is mortal (256 blocks), so none outlives the expiry of a commitment     *)
(* that was on chain when it was sent.                                     *)
(***************************************************************************)
EXTENDS Integers, FiniteSets

CONSTANTS
  Procs,          (* processes that call commitAndRegister for this name   *)
  None,           (* no process, no commitment, no record                  *)
  Unusable,       (* a record that fails the checks of its own fields      *)
  Regimes,        (* sets of fault kinds; a behaviour meets one of them    *)
  MaxCrashes      (* bound: processes killed                               *)

(* rpc: chain reads fail; lost: transactions are dropped, or time out and  *)
(* stay in the pool; bare: a dry run bare-reverts for a passing reason;    *)
(* norevive: the controller refuses to commit an expired hash again;       *)
(* expiry: commitments expire; unlocked: the lock cannot be written; disk: *)
(* the record cannot be written; impatient: the poll limit is reached;     *)
(* stalled: the chain's clock stands still; rival: another owner registers *)
(* the name; reprice: the price of a committed tuple goes stale; old: a    *)
(* record reaches the 48 h of the prune sweep.                             *)
FaultKinds == {"rpc", "lost", "bare", "norevive", "expiry", "unlocked", "disk",
               "impatient", "stalled", "rival", "reprice", "old"}

ASSUME ConstantsAssumption ==
  /\ IsFiniteSet(Procs)
  /\ None \notin Procs /\ Unusable \notin Procs /\ None # Unusable
  /\ Regimes \subseteq SUBSET FaultKinds
  /\ MaxCrashes \in Nat

VARIABLES
  (* the chain *)
  commitments,  \* age class of each commitment
  owner,        \* ownerOf(name)
  commitPool,   \* pending commit transactions
  registerPool, \* pending register transactions
  failed,       \* processes whose last transaction failed or was dropped
  stale,        \* commitments whose committed price has gone stale
  aged,         \* commitments whose record is past the prune ceiling
  faults,       \* the kinds of fault this behaviour may meet; never changes
  (* the files *)
  record,       \* the commitment record
  lock,         \* the process named by the lock file
  (* the processes *)
  pc,
  hash,         \* active: the commitment in use
  key,          \* recordKey: the record this process may clear
  resub,        \* needsCommit: the commit goes through resubmitCommitment
  stage,        \* 1 first try, 2 retry with the same, 3 after a re-commit
  err,          \* the error being handled
  tries         \* history: register dry runs

chainVars == <<commitments, owner, commitPool, registerPool, failed, stale,
               aged, faults>>
fileVars == <<record, lock>>
tryVars == <<hash, key, resub, stage, err, tries>>
vars == <<chainVars, fileVars, pc, tryVars>>

Ended == {"done", "failed", "dead"}
PCs == Ended \cup {"idle", "lock", "owned", "load", "inspect", "probe", "fresh",
                   "commit", "committing", "rejected", "wait", "register",
                   "registering", "registered", "release"}
Errors == {"none", "dead", "bare", "revert", "other"}
Txs == [by : Procs, hash : Procs]

Live(h) == commitments[h] \in {"young", "mature"}
Crashes == Cardinality({p \in Procs : pc[p] = "dead"})

Init ==
  /\ commitments = [h \in Procs |-> "absent"]
  /\ owner = "nobody"
  /\ commitPool = {} /\ registerPool = {} /\ failed = {}
  /\ stale = {} /\ aged = {} /\ faults \in Regimes
  /\ record \in {None, Unusable} /\ lock = None
  /\ pc = [p \in Procs |-> "idle"]
  /\ hash = [p \in Procs |-> None] /\ key = [p \in Procs |-> None]
  /\ resub = [p \in Procs |-> FALSE] /\ stage = [p \in Procs |-> 1]
  /\ err = [p \in Procs |-> "none"] /\ tries = [p \in Procs |-> 0]

Goto(p, l) == pc' = [pc EXCEPT ![p] = l]

--------------------------------------------------------------------------------
(***************************************************************************)
(* The record and lock files.                                              *)
(***************************************************************************)

(* clearCommitmentRecord: a compare-and-unlink. *)
ClearCommitmentRecord(k) == record' = IF record = k THEN None ELSE record

(* replaceCommitmentRecord(_, null), as persistCommitmentRecord calls it:  *)
(* only where there is no record; the key is null when nothing is written. *)
PersistCommitmentRecord(p, h) ==
  \/ /\ record = None
     /\ record' = h
     /\ key' = [key EXCEPT ![p] = h]
  \/ /\ record # None \/ "disk" \in faults
     /\ key' = [key EXCEPT ![p] = None]
     /\ UNCHANGED record

ReleaseLock(p) == lock' = IF lock = p THEN None ELSE lock

--------------------------------------------------------------------------------
(***************************************************************************)
(* acquireCommitmentLockOrWait.                                            *)
(***************************************************************************)
Start(p) ==
  /\ pc[p] = "idle"
  /\ Goto(p, "lock")
  /\ UNCHANGED <<chainVars, fileVars, tryVars>>

AcquireLock(p) ==
  /\ pc[p] = "lock"
  /\ \/ /\ lock = None \/ (lock \in Procs /\ pc[lock] = "dead")
        /\ lock' = p
     \/ "unlocked" \in faults /\ UNCHANGED lock
  /\ Goto(p, "owned")
  /\ UNCHANGED <<chainVars, record, tryVars>>

(* The poll limit: "Another bulletin-deploy process is registering ...".   *)
GiveUpWaiting(p) ==
  /\ pc[p] = "lock"
  /\ "impatient" \in faults
  /\ lock \in Procs /\ pc[lock] # "dead"
  /\ Goto(p, "failed")
  /\ UNCHANGED <<chainVars, fileVars, tryVars>>

(* checkOwnership, which reads an RPC failure as "not owned". *)
CheckOwnership(p) ==
  /\ pc[p] = "owned"
  /\ \/ /\ owner = "us"
        /\ ReleaseLock(p)
        /\ Goto(p, "done")
     \/ /\ owner # "us" \/ "rpc" \in faults
        /\ Goto(p, "load")
        /\ UNCHANGED lock
  /\ UNCHANGED <<chainVars, record, tryVars>>

--------------------------------------------------------------------------------
(***************************************************************************)
(* resolveResumableCommitment.                                             *)
(***************************************************************************)
(* Fault: the fields of the record are not checked. *)
LoadAnyRecord(p) ==
  /\ pc[p] = "load"
  /\ hash' = [hash EXCEPT ![p] = record]
  /\ key' = [key EXCEPT ![p] = record]
  /\ Goto(p, IF record = None THEN "fresh" ELSE "inspect")
  /\ UNCHANGED <<chainVars, fileVars, resub, stage, err, tries>>

(* loadCommitmentRecord sweeps the stale records away before it reads. *)
LoadRecord(p) ==
  /\ pc[p] = "load"
  /\ IF record \in Procs \ aged
     THEN /\ hash' = [hash EXCEPT ![p] = record]
          /\ key' = [key EXCEPT ![p] = record]
          /\ Goto(p, "inspect")
          /\ UNCHANGED record
     ELSE /\ record' = None        \* pruned, malformed or mismatched
          /\ Goto(p, "fresh")
          /\ UNCHANGED <<hash, key>>
  /\ UNCHANGED <<chainVars, lock, resub, stage, err, tries>>

(* An unreadable chain: nothing is resumed, and the record stays. *)
NotResumed(p) ==
  /\ "rpc" \in faults
  /\ Goto(p, "fresh")
  /\ UNCHANGED <<record, resub>>

(* The commitment's price is checked last. *)
Resume(p, needsCommit) ==
  IF hash[p] \in stale
  THEN /\ ClearCommitmentRecord(key[p])
       /\ Goto(p, "fresh")
       /\ UNCHANGED resub
  ELSE /\ resub' = [resub EXCEPT ![p] = needsCommit]
       /\ Goto(p, IF needsCommit THEN "commit" ELSE "wait")
       /\ UNCHANGED record

Inspect(p) ==
  /\ pc[p] = "inspect"
  /\ \/ NotResumed(p)
     \/ /\ commitments[hash[p]] = "absent"
        /\ Goto(p, "probe")
        /\ UNCHANGED <<record, resub>>
     \/ /\ commitments[hash[p]] # "absent"
        /\ Resume(p, commitments[hash[p]] = "expired")
  /\ UNCHANGED <<chainVars, lock, hash, key, stage, err, tries>>

(* Fault: a commitment that reads 0 is taken for one that never landed. *)
ProbeDiscards(p) ==
  /\ pc[p] = "probe"
  /\ \/ /\ commitments[hash[p]] = "absent"
        /\ ClearCommitmentRecord(key[p])
        /\ Goto(p, "fresh")
        /\ UNCHANGED resub
     \/ /\ commitments[hash[p]] # "absent"
        /\ Resume(p, commitments[hash[p]] = "expired")
  /\ UNCHANGED <<chainVars, lock, hash, key, stage, err, tries>>

(* The last of RESUME_PENDING_PROBES re-reads; an error reads as 0. *)
Probe(p) ==
  /\ pc[p] = "probe"
  /\ \/ NotResumed(p)
     \/ /\ commitments[hash[p]] = "absent" \/ "rpc" \in faults
        /\ Resume(p, TRUE)
     \/ /\ commitments[hash[p]] # "absent"
        /\ Resume(p, commitments[hash[p]] = "expired")
  /\ UNCHANGED <<chainVars, lock, hash, key, stage, err, tries>>

--------------------------------------------------------------------------------
(* Fault: the second bare revert is retried as well. *)
ThrowRetriesTwice(p, e) ==
  /\ err' = [err EXCEPT ![p] = e]
  /\ \/ /\ stage[p] < 3 /\ e = "bare"
        /\ stage' = [stage EXCEPT ![p] = @ + 1]
        /\ resub' = [resub EXCEPT ![p] = FALSE]
        /\ Goto(p, "wait")
     \/ /\ stage[p] = 3 \/ e # "bare"
        /\ Goto(p, "release")
        /\ UNCHANGED <<stage, resub>>

(* Fault: a dead commitment is committed again as often as it is found. *)
ThrowRecommits(p, e) ==
  /\ err' = [err EXCEPT ![p] = e]
  /\ \/ /\ e = "dead"
        /\ resub' = [resub EXCEPT ![p] = TRUE]
        /\ Goto(p, "commit")
        /\ UNCHANGED stage
     \/ /\ e # "dead"
        /\ Goto(p, "release")
        /\ UNCHANGED <<stage, resub>>

(***************************************************************************)
(* commitAndRegisterLocked.  An error of one try leads to the next:        *)
(* a bare revert of the first try to a second with the same commitment, a  *)
(* second try that finds it dead to a re-commit of the same hash.          *)
(***************************************************************************)
Throw(p, e) ==
  /\ err' = [err EXCEPT ![p] = e]
  /\ \/ /\ stage[p] = 1 /\ e = "bare"
        /\ stage' = [stage EXCEPT ![p] = 2]
        /\ resub' = [resub EXCEPT ![p] = FALSE]
        /\ Goto(p, "wait")
     \/ /\ stage[p] = 2 /\ e = "dead"
        /\ stage' = [stage EXCEPT ![p] = 3]
        /\ resub' = [resub EXCEPT ![p] = TRUE]
        /\ Goto(p, "commit")
     \/ /\ ~(stage[p] = 1 /\ e = "bare") /\ ~(stage[p] = 2 /\ e = "dead")
        /\ Goto(p, "release")
        /\ UNCHANGED <<stage, resub>>

(* Fault: the record is not written before the commit transaction. *)
GenerateUnsaved(p) ==
  /\ pc[p] = "fresh"
  /\ hash' = [hash EXCEPT ![p] = p]
  /\ Goto(p, "commit")
  /\ UNCHANGED <<chainVars, fileVars, key, resub, stage, err, tries>>

(* Pricing and generateCommitment may fail before anything is active.      *)
Generate(p) ==
  /\ pc[p] = "fresh"
  /\ \/ /\ "rpc" \in faults
        /\ err' = [err EXCEPT ![p] = "other"]
        /\ Goto(p, "release")
        /\ UNCHANGED <<record, hash, key>>
     \/ /\ hash' = [hash EXCEPT ![p] = p]
        /\ PersistCommitmentRecord(p, p)
        /\ Goto(p, "commit")
        /\ UNCHANGED err
  /\ UNCHANGED <<chainVars, lock, resub, stage, tries>>

(* The controller's rule for commit(). *)
Committable(h) ==
  \/ commitments[h] = "absent"
  \/ commitments[h] = "expired" /\ "norevive" \notin faults

(* submitCommitment throws: resubmitCommitment handles its own errors.     *)
CommitThrows(p, e) ==
  IF resub[p]
  THEN /\ err' = [err EXCEPT ![p] = e]
       /\ Goto(p, "rejected")
       /\ UNCHANGED <<stage, resub>>
  ELSE Throw(p, e)

(* submitCommitment: the dry run, then the transaction is sent. *)
Commit(p) ==
  /\ pc[p] = "commit"
  /\ \/ /\ Committable(hash[p])
        /\ commitPool' = commitPool \cup {[by |-> p, hash |-> hash[p]]}
        /\ failed' = failed \ {p}
        /\ Goto(p, "committing")
        /\ UNCHANGED <<err, stage, resub>>
     \/ /\ \/ ~Committable(hash[p]) /\ CommitThrows(p, "revert")
           \/ "bare" \in faults /\ CommitThrows(p, "bare")
           \/ "rpc" \in faults /\ CommitThrows(p, "other")
        /\ UNCHANGED <<commitPool, failed>>
  /\ UNCHANGED <<commitments, owner, registerPool, stale, aged, faults,
                 fileVars, hash, key, tries>>

Pending(p, pool) == \E t \in pool : t.by = p /\ t.hash = hash[p]

(* The transaction is in a block and commitments(hash) reads nonzero; it   *)
(* failed; or the wait for it ran out, and it may still land.              *)
CommitSettles(p) ==
  /\ pc[p] = "committing"
  /\ \/ /\ ~Pending(p, commitPool)
        /\ p \notin failed \/ commitments[hash[p]] # "absent"
        /\ Goto(p, "wait")
        /\ UNCHANGED <<err, stage, resub>>
     \/ /\ p \in failed \/ "lost" \in faults
        /\ CommitThrows(p, "other")
  /\ UNCHANGED <<chainVars, fileVars, hash, key, tries>>

(* Fault: the chain is not asked whether the original commit landed. *)
ResubmitThrows(p) ==
  /\ pc[p] = "rejected"
  /\ Throw(p, err[p])
  /\ UNCHANGED <<chainVars, fileVars, hash, key, tries>>

(* Fault: any error of the revive counts as a rejection. *)
ResubmitDiscards(p) ==
  /\ pc[p] = "rejected"
  /\ IF Live(hash[p])
     THEN /\ Goto(p, "wait")
          /\ UNCHANGED <<record, err, stage, resub>>
     ELSE /\ ClearCommitmentRecord(key[p])
          /\ Throw(p, err[p])
  /\ UNCHANGED <<chainVars, lock, hash, key, tries>>

(* resubmitCommitment's catch: readCommitmentState decides. *)
ResubmitRejected(p) ==
  /\ pc[p] = "rejected"
  /\ \/ /\ Live(hash[p])
        /\ Goto(p, "wait")
        /\ UNCHANGED <<record, err, stage, resub>>
     \/ /\ commitments[hash[p]] = "expired" /\ err[p] \in {"revert", "bare"}
        /\ ClearCommitmentRecord(key[p])
        /\ Throw(p, err[p])
     \/ /\ \/ commitments[hash[p]] = "absent"
           \/ commitments[hash[p]] = "expired" /\ err[p] = "other"
           \/ "rpc" \in faults
        /\ Throw(p, err[p])
        /\ UNCHANGED record
  /\ UNCHANGED <<chainVars, lock, hash, key, tries>>

(* waitForCommitmentAge, then the price read. *)
WaitForCommitmentAge(p) ==
  /\ pc[p] = "wait"
  /\ \/ /\ commitments[hash[p]] = "mature"
        /\ Goto(p, "register")
        /\ UNCHANGED <<err, stage, resub>>
     \/ commitments[hash[p]] \in {"absent", "expired"} /\ Throw(p, "dead")
     \/ commitments[hash[p]] = "young" /\ "stalled" \in faults
        /\ Throw(p, "other")
     \/ "rpc" \in faults /\ Throw(p, "other")
  /\ UNCHANGED <<chainVars, fileVars, hash, key, tries>>

(* finalizeRegistration: the dry run, then the transaction is sent.  A     *)
(* commitment outside its window and a name already taken revert bare.     *)
Register(p) ==
  /\ pc[p] = "register"
  /\ tries' = [tries EXCEPT ![p] = @ + 1]
  /\ \/ /\ commitments[hash[p]] = "mature" /\ owner = "nobody"
        /\ registerPool' = registerPool \cup {[by |-> p, hash |-> hash[p]]}
        /\ failed' = failed \ {p}
        /\ Goto(p, "registering")
        /\ UNCHANGED <<err, stage, resub>>
     \/ /\ \/ /\ commitments[hash[p]] # "mature" \/ owner # "nobody"
                 \/ "bare" \in faults
              /\ Throw(p, "bare")
           \/ "rpc" \in faults /\ Throw(p, "other")
        /\ UNCHANGED <<registerPool, failed>>
  /\ UNCHANGED <<commitments, owner, commitPool, stale, aged, faults,
                 fileVars, hash, key>>

(* Fault: a transaction in a block is taken for a registration. *)
RegisterUnverified(p) ==
  /\ pc[p] = "registering"
  /\ ~Pending(p, registerPool)
  /\ Goto(p, "registered")
  /\ UNCHANGED <<chainVars, fileVars, tryVars>>

RegisterSettles(p) ==
  /\ pc[p] = "registering"
  /\ \/ /\ ~Pending(p, registerPool)
        /\ p \notin failed \/ owner = "us"
        /\ Goto(p, "registered")
        /\ UNCHANGED <<err, stage, resub>>
     \/ /\ p \in failed \/ "lost" \in faults
        /\ Throw(p, "other")
  /\ UNCHANGED <<chainVars, fileVars, hash, key, tries>>

ClearRegistered(p) ==
  /\ pc[p] = "registered"
  /\ ClearCommitmentRecord(key[p])
  /\ err' = [err EXCEPT ![p] = "none"]
  /\ Goto(p, "release")
  /\ UNCHANGED <<chainVars, lock, hash, key, resub, stage, tries>>

(* The `finally` of commitAndRegister. *)
Release(p) ==
  /\ pc[p] = "release"
  /\ ReleaseLock(p)
  /\ Goto(p, IF err[p] = "none" THEN "done" ELSE "failed")
  /\ UNCHANGED <<chainVars, record, tryVars>>

Proceed(p) ==
  Start(p) \/ AcquireLock(p) \/ GiveUpWaiting(p) \/ CheckOwnership(p)
  \/ LoadRecord(p) \/ Inspect(p) \/ Probe(p) \/ Generate(p) \/ Commit(p)
  \/ CommitSettles(p) \/ ResubmitRejected(p) \/ WaitForCommitmentAge(p)
  \/ Register(p) \/ RegisterSettles(p) \/ ClearRegistered(p) \/ Release(p)

(* SIGKILL, an RPC client that aborts the process, a cancelled CI job. *)
Crash(p) ==
  /\ pc[p] \notin Ended \cup {"idle"}
  /\ Crashes < MaxCrashes
  /\ Goto(p, "dead")
  /\ UNCHANGED <<chainVars, fileVars, tryVars>>

--------------------------------------------------------------------------------
(***************************************************************************)
(* The chain, and the prune sweep of other deploys on the machine.         *)
(***************************************************************************)
LandCommit ==
  \E t \in commitPool :
    /\ commitPool' = commitPool \ {t}
    /\ IF Committable(t.hash)
       THEN /\ commitments' = [commitments EXCEPT ![t.hash] = "young"]
            /\ UNCHANGED failed
       ELSE /\ failed' = failed \cup {t.by}
            /\ UNCHANGED commitments
    /\ UNCHANGED <<owner, registerPool, stale, aged, faults,
                   fileVars, pc, tryVars>>

LandRegister ==
  \E t \in registerPool :
    /\ registerPool' = registerPool \ {t}
    /\ IF commitments[t.hash] = "mature" /\ owner = "nobody"
       THEN /\ owner' = "us"
            /\ commitments' = [commitments EXCEPT ![t.hash] = "absent"]
            /\ UNCHANGED failed
       ELSE /\ failed' = failed \cup {t.by}
            /\ UNCHANGED <<owner, commitments>>
    /\ UNCHANGED <<commitPool, stale, aged, faults, fileVars, pc, tryVars>>

DropTransaction ==
  /\ "lost" \in faults
  /\ \E t \in commitPool \cup registerPool :
       /\ commitPool' = commitPool \ {t}
       /\ registerPool' = registerPool \ {t}
       /\ failed' = failed \cup {t.by}
  /\ UNCHANGED <<commitments, owner, stale, aged, faults,
                 fileVars, pc, tryVars>>

Ripen ==
  \E h \in Procs :
    /\ commitments[h] = "young"
    /\ commitments' = [commitments EXCEPT ![h] = "mature"]
    /\ UNCHANGED <<owner, commitPool, registerPool, failed, stale, aged,
                   faults, fileVars, pc, tryVars>>

(* No transaction sent for h before is still pending: they are mortal.     *)
Expire ==
  /\ "expiry" \in faults
  /\ \E h \in Procs :
       /\ commitments[h] = "mature"
       /\ \A t \in commitPool \cup registerPool : t.hash # h
       /\ commitments' = [commitments EXCEPT ![h] = "expired"]
  /\ UNCHANGED <<owner, commitPool, registerPool, failed, stale, aged, faults,
                 fileVars, pc, tryVars>>

RivalRegisters ==
  /\ "rival" \in faults /\ owner = "nobody"
  /\ owner' = "rival"
  /\ UNCHANGED <<commitments, commitPool, registerPool, failed, stale, aged,
                 faults, fileVars, pc, tryVars>>

(* A new pricing version, or a price above the committed ceiling. *)
Reprice ==
  /\ "reprice" \in faults
  /\ stale' = {h \in Procs : \E p \in Procs : hash[p] = h}
  /\ UNCHANGED <<commitments, owner, commitPool, registerPool, failed, aged,
                 faults, fileVars, pc, tryVars>>

(* 48 h after the run that wrote the record. *)
RecordAges ==
  /\ "old" \in faults
  /\ record \in Procs /\ pc[record] \in Ended
  /\ aged' = aged \cup {record}
  /\ UNCHANGED <<commitments, owner, commitPool, registerPool, failed, stale,
                 faults, fileVars, pc, tryVars>>

(* pruneStaleCommitmentRecords, run by a load for any label. *)
PruneStaleCommitmentRecords ==
  /\ record \in aged
  /\ record' = None
  /\ UNCHANGED <<chainVars, lock, pc, tryVars>>

Environment ==
  LandCommit \/ LandRegister \/ DropTransaction \/ Ripen \/ Expire
  \/ RivalRegisters \/ Reprice \/ RecordAges \/ PruneStaleCommitmentRecords

Next == (\E p \in Procs : Proceed(p) \/ Crash(p)) \/ Environment

(* A process that lives takes its next step; the chain includes what is in *)
(* its pools, and its clock advances.                                      *)
Fairness ==
  /\ \A p \in Procs : WF_vars(Proceed(p))
  /\ WF_vars(LandCommit) /\ WF_vars(LandRegister) /\ WF_vars(Ripen)

Spec == Init /\ [][Next]_vars /\ Fairness

--------------------------------------------------------------------------------
(***************************************************************************)
(* Properties.                                                             *)
(***************************************************************************)
TypeOK ==
  /\ commitments \in [Procs -> {"absent", "young", "mature", "expired"}]
  /\ owner \in {"nobody", "us", "rival"}
  /\ commitPool \subseteq Txs /\ registerPool \subseteq Txs
  /\ failed \subseteq Procs /\ stale \subseteq Procs /\ aged \subseteq Procs
  /\ faults \in Regimes
  /\ record \in Procs \cup {None, Unusable}
  /\ lock \in Procs \cup {None}
  /\ pc \in [Procs -> PCs]
  /\ hash \in [Procs -> Procs \cup {None}]
  /\ key \in [Procs -> Procs \cup {None}]
  /\ resub \in [Procs -> BOOLEAN]
  /\ stage \in [Procs -> 1 .. 3]
  /\ err \in [Procs -> Errors]
  /\ tries \in [Procs -> Nat]

Outstanding == {h \in Procs : Live(h)} \cup {t.hash : t \in commitPool}

(* #1412: "the secret must already be on disk, since it's never            *)
(* regenerable": a commitment that is pending or valid can be revealed by  *)
(* a restart, at whatever step its process is killed.                      *)
SecretOnDisk == owner = "nobody" => Outstanding \subseteq {record}

(* A record is dropped only when its name is registered, its commitment    *)
(* has expired with no transaction left to revive it, or its price or age  *)
(* has made it useless.                                                    *)
DiscardsOnlyTheDead ==
  [][record' # record /\ record \in Procs
       => \/ owner = "us"
          \/ commitments[record] = "expired" /\ record \notin Outstanding
          \/ record \in stale \cup aged]_vars

(* "A real double revert fails after two register tries". *)
TwoRegisterTries == \A p \in Procs : tries[p] <= 2

(* commitAndRegister returns only when the name is registered to us.       *)
ReturnsRegistered == \A p \in Procs : pc[p] = "done" => owner = "us"

(* A name whose registration was cut short by crashes is registered by a   *)
(* later run, when nothing else goes wrong and one run survives.           *)
EventuallyRegistered == faults = {} => <>[](owner = "us")

(* Whatever fails, every run ends: it returns, throws or is killed.        *)
EveryRunEnds == \A p \in Procs : <>(pc[p] \in Ended)

(* The files and the chain together implement NameRegistration while the   *)
(* lock, the record and chain reads work.                                  *)
Registration ==
  INSTANCE NameRegistration
    WITH Secrets <- Procs,
         kept <- IF record \in Procs THEN record ELSE None,
         open <- IF owner = "nobody" THEN Outstanding ELSE {},
         name <- owner
RefinesNameRegistration == Registration!Spec
================================================================================
