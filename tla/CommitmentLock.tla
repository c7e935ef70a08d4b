---------------------------- MODULE CommitmentLock ----------------------------
(***************************************************************************)
(* The commitment lock of run-state.ts: one file per (environment, tld,    *)
(* owner, label), created with O_EXCL, taken over when its process is      *)
(* gone, polled by dotns.ts (acquireCommitmentLockOrWait) and held for one *)
(* commitAndRegister.  Every file-system call is a step of its own, since  *)
(* the processes that compete for the file run in parallel.                *)
(*                                                                         *)
(* A call to tryAcquireCommitmentLock draws a fresh random token, so the   *)
(* token also names the inode the call may create.  All processes are on   *)
(* one host, no lock reaches the 48 h age ceiling and no pid is reused.    *)
(* Left out: a lock more than a minute old that is put back at the path    *)
(* between the readFileSync that found a file without text there and its   *)
(* statSync; it takes a lock that was moved, so one that was orphaned.     *)
(***************************************************************************)
EXTENDS Integers, FiniteSets

CONSTANTS
  Procs,         (* the processes that deploy this name for this owner     *)
  Attempts,      (* attempts of one tryAcquireCommitmentLock               *)
  WaitPolls,     (* COMMIT_LOCK_WAIT_POLLS                                 *)
  MaxCrashes,    (* bound: processes killed                                *)
  MidWrite       (* a process may be killed between creating its lock file *)
                 (* and writing it                                         *)

ASSUME ConstantsAssumption ==
  /\ IsFiniteSet(Procs)
  /\ Attempts \in Nat \ {0}
  /\ WaitPolls \in Nat
  /\ MaxCrashes \in Nat
  /\ MidWrite \in BOOLEAN

Tokens == Procs \X Nat
Owner(token) == token[1]
None == <<"none", -1>>     \* no file
Empty == <<"empty", -1>>   \* the text of a file created and not yet written

VARIABLES
  file,      \* the inode at the lock's path
  written,   \* the inodes whose text is on disk
  pc,
  poll,      \* polls made so far: tokens are <<p, poll[p]>>
  attempt,   \* attempt of the current call
  raw,       \* the text the process read of the lock, then of its grab
  grabbed,   \* the inode it renamed to its own .stale name
  orphaned   \* history: a process ended while others could still see its lock

vars == <<file, written, pc, poll, attempt, raw, grabbed, orphaned>>

Gone == {"dead", "exited"}
Holding == {"hold", "relread", "relunlink"}
PCs == Gone \cup Holding \cup
       {"idle", "create", "write", "read", "stat", "judge", "rename", "check",
        "putback", "unlocked", "finished", "gaveup"}

Token(p) == <<p, poll[p]>>
Text(inode) == IF inode \in written THEN inode ELSE Empty
IsPidAlive(p) == pc[p] \notin Gone
Crashes == Cardinality({p \in Procs : pc[p] = "dead"})

Init ==
  /\ file = None /\ written = {}
  /\ pc = [p \in Procs |-> "idle"]
  /\ poll = [p \in Procs |-> 0]
  /\ attempt = [p \in Procs |-> 1]
  /\ raw = [p \in Procs |-> None]
  /\ grabbed = [p \in Procs |-> None]
  /\ orphaned = FALSE

Goto(p, l) == pc' = [pc EXCEPT ![p] = l]

Start(p) ==
  /\ pc[p] = "idle"
  /\ Goto(p, "create")
  /\ UNCHANGED <<file, written, poll, attempt, raw, grabbed, orphaned>>

(* Fault: one attempt too many. *)
ContinueOnceMore(p) ==
  IF attempt[p] <= Attempts
  THEN Goto(p, "create") /\ attempt' = [attempt EXCEPT ![p] = @ + 1]
  ELSE Goto(p, "unlocked") /\ UNCHANGED attempt

(* `continue`: the next attempt, or, after the last one, NO_LOCK: the      *)
(* deploy runs without a lock.                                             *)
Continue(p) ==
  IF attempt[p] < Attempts
  THEN Goto(p, "create") /\ attempt' = [attempt EXCEPT ![p] = @ + 1]
  ELSE Goto(p, "unlocked") /\ UNCHANGED attempt

(* heldBy: the caller sleeps and calls again, or gives up with an error.   *)
HeldBy(p) ==
  IF poll[p] < WaitPolls
  THEN /\ Goto(p, "create")
       /\ poll' = [poll EXCEPT ![p] = @ + 1]
       /\ attempt' = [attempt EXCEPT ![p] = 1]
  ELSE Goto(p, "gaveup") /\ UNCHANGED <<poll, attempt>>

(* Fault: the lock file is opened without O_EXCL. *)
CreateOver(p) ==
  /\ pc[p] = "create"
  /\ file' = Token(p) /\ Goto(p, "write")
  /\ UNCHANGED <<written, poll, attempt, raw, grabbed, orphaned>>

(* writeFileSync(file, ..., {flag: "wx"}): open with O_EXCL, then write.   *)
Create(p) ==
  /\ pc[p] = "create"
  /\ IF file = None
     THEN file' = Token(p) /\ Goto(p, "write")
     ELSE Goto(p, "read") /\ UNCHANGED file
  /\ UNCHANGED <<written, poll, attempt, raw, grabbed, orphaned>>

Write(p) ==
  /\ pc[p] = "write"
  /\ written' = written \cup {Token(p)}
  /\ Goto(p, "hold")
  /\ UNCHANGED <<file, poll, attempt, raw, grabbed, orphaned>>

(* The text read before the verdict is dropped with the attempt. *)
Forget(p) == raw' = [raw EXCEPT ![p] = None]

(* readFileSync: ENOENT means released since the create, so try again.     *)
Read(p) ==
  /\ pc[p] = "read"
  /\ IF file = None
     THEN Continue(p) /\ UNCHANGED raw
     ELSE /\ raw' = [raw EXCEPT ![p] = Text(file)]
          /\ Goto(p, "stat")
          /\ UNCHANGED attempt
  /\ UNCHANGED <<file, written, poll, grabbed, orphaned>>

(* Fault: a file with no text is garbage at once. *)
StaleWithoutGrace(inode) == inode # None

(* A file with no text is garbage once it is a minute old, by which time a *)
(* process that is alive has written it.                                   *)
MayBeGarbage(inode) == ~IsPidAlive(Owner(inode))

(* statSync of whatever is at the path by now.  Its age is the verdict on  *)
(* a text that does not parse; garbage may still be within its grace.      *)
Stat(p) ==
  /\ pc[p] = "stat"
  /\ \/ file = None /\ Continue(p) /\ Forget(p) /\ UNCHANGED poll
     \/ /\ file # None /\ raw[p] # Empty
        /\ Goto(p, "judge")
        /\ UNCHANGED <<poll, attempt, raw>>
     \/ /\ file # None /\ raw[p] = Empty /\ MayBeGarbage(file)
        /\ Goto(p, "rename")
        /\ UNCHANGED <<poll, attempt, raw>>
     \/ file # None /\ raw[p] = Empty /\ HeldBy(p) /\ Forget(p)
  /\ UNCHANGED <<file, written, grabbed, orphaned>>

(* Fault: only an old lock is stale, whether its process lives or not. *)
StaleByAgeOnly(text) == text = None

(* process.kill(pid, 0) of the process the text names. *)
IsStaleLock(text) == ~IsPidAlive(Owner(text))

(* The verdict on the text, however long ago it was read. *)
Judge(p) ==
  /\ pc[p] = "judge"
  /\ IF IsStaleLock(raw[p])
     THEN Goto(p, "rename") /\ UNCHANGED <<poll, attempt, raw>>
     ELSE HeldBy(p) /\ Forget(p)
  /\ UNCHANGED <<file, written, grabbed, orphaned>>

(* renameSync(file, grabbed) moves whatever is at the path by now.         *)
Rename(p) ==
  /\ pc[p] = "rename"
  /\ IF file = None
     THEN Continue(p) /\ Forget(p) /\ UNCHANGED <<file, grabbed>>
     ELSE /\ grabbed' = [grabbed EXCEPT ![p] = file]
          /\ file' = None
          /\ Goto(p, "check")
          /\ UNCHANGED <<attempt, raw>>
  /\ UNCHANGED <<written, poll, orphaned>>

(* grabbedRaw !== raw: a fresh lock was moved, and is to be put back.      *)
Check(p) ==
  /\ pc[p] = "check"
  /\ LET text == Text(grabbed[p]) IN
       IF text = raw[p]
       THEN /\ Continue(p) /\ Forget(p)
            /\ grabbed' = [grabbed EXCEPT ![p] = None]
       ELSE /\ Goto(p, "putback")
            /\ raw' = [raw EXCEPT ![p] = text]
            /\ UNCHANGED <<attempt, grabbed>>
  /\ UNCHANGED <<file, written, poll, orphaned>>

(* linkSync fails when yet another lock is there: the newer lock stands.   *)
PutBack(p) ==
  /\ pc[p] = "putback"
  /\ file' = IF file = None THEN grabbed[p] ELSE file
  /\ grabbed' = [grabbed EXCEPT ![p] = None]
  /\ Forget(p)
  /\ IF raw[p] # Empty THEN HeldBy(p) ELSE Continue(p) /\ UNCHANGED poll
  /\ UNCHANGED <<written, orphaned>>

(* Fault: a commitAndRegister that throws does not release. *)
LeaveByReturnOnly(p) ==
  /\ pc[p] \in {"hold", "unlocked"}
  /\ \E threw \in BOOLEAN :
       Goto(p, IF pc[p] = "hold" /\ ~threw THEN "relread" ELSE "finished")
  /\ UNCHANGED <<file, written, poll, attempt, raw, grabbed, orphaned>>

(* commitAndRegister ends, by returning or by throwing: lock.release().    *)
Leave(p) ==
  /\ pc[p] \in {"hold", "unlocked"}
  /\ Goto(p, IF pc[p] = "hold" THEN "relread" ELSE "finished")
  /\ UNCHANGED <<file, written, poll, attempt, raw, grabbed, orphaned>>

ReleaseRead(p) ==
  /\ pc[p] = "relread"
  /\ Goto(p, IF file # None /\ Text(file) = Token(p)
             THEN "relunlink" ELSE "finished")
  /\ UNCHANGED <<file, written, poll, attempt, raw, grabbed, orphaned>>

ReleaseUnlink(p) ==
  /\ pc[p] = "relunlink"
  /\ file' = None
  /\ Goto(p, "finished")
  /\ UNCHANGED <<written, poll, attempt, raw, grabbed, orphaned>>

(* p's lock file is at the path, or was read and awaits the verdict. *)
InSight(p) ==
  \/ file # None /\ Owner(file) = p
  \/ \E q \in Procs : /\ pc[q] \in {"stat", "judge"}
                      /\ raw[q] \notin {None, Empty} /\ Owner(raw[q]) = p

(* A process that ends leaves the lock files that are in sight orphaned. *)
End(p, how) ==
  /\ Goto(p, how)
  /\ orphaned' = (orphaned \/ InSight(p))
  /\ UNCHANGED <<file, written, poll, attempt, raw, grabbed>>

(* The deploy goes on after commitAndRegister; its process ends later.     *)
Exit(p) == pc[p] \in {"finished", "gaveup"} /\ End(p, "exited")

(* SIGKILL, or a crash. *)
Crash(p) ==
  /\ pc[p] \notin Gone \cup {"idle"}
  /\ pc[p] # "write" \/ MidWrite
  /\ Crashes < MaxCrashes
  /\ End(p, "dead")

Proceed(p) ==
  Start(p) \/ Create(p) \/ Write(p) \/ Read(p) \/ Stat(p) \/ Judge(p)
  \/ Rename(p) \/ Check(p) \/ PutBack(p) \/ Leave(p) \/ ReleaseRead(p) \/ ReleaseUnlink(p) \/ Exit(p)

Next == \E p \in Procs : Proceed(p) \/ Crash(p)

(* A process that runs makes its file-system calls and ends at last.       *)
Fairness == \A p \in Procs : WF_vars(Proceed(p))

Spec == Init /\ [][Next]_vars /\ Fairness

--------------------------------------------------------------------------------
(***************************************************************************)
(* Properties.                                                             *)
(***************************************************************************)
TypeOK ==
  /\ file \in Tokens \cup {None}
  /\ written \subseteq Tokens
  /\ pc \in [Procs -> PCs]
  /\ poll \in [Procs -> 0 .. WaitPolls]
  /\ attempt \in [Procs -> 1 .. Attempts]
  /\ raw \in [Procs -> Tokens \cup {None, Empty}]
  /\ grabbed \in [Procs -> Tokens \cup {None}]
  /\ orphaned \in BOOLEAN

(* "One process at a time per (env, tld, owner, label)" (dotns.ts:5520):   *)
(* two processes never hold the lock at once, so they never interleave     *)
(* their resolve, persist and clear of the one record file.                *)
MutualExclusion ==
  \A p, q \in Procs : pc[p] = "hold" /\ pc[q] = "hold" => p = q

(* The lock excludes, however its users overtake one another between two   *)
(* file-system calls, as long as each process that ended did so when its   *)
(* lock was gone and nobody who had read it was still to look up its pid.  *)
ExclusiveUnlessOrphaned == ~orphaned => MutualExclusion

(* A release removes the lock this process took, never the lock of another *)
(* process that came to the path between its read and its unlink, as long  *)
(* as no lock was orphaned.                                                *)
ReleasesOwnLock ==
  [][\A p \in Procs :
       ~orphaned /\ pc[p] = "relunlink" /\ pc'[p] = "finished"
         => file = Token(p)]_vars

(* "A dead holder's lock (SIGKILL, crash) is taken over" (dotns.ts:5523):  *)
(* a process that reads the lock file and gives up leaves an attempt to a  *)
(* process that is alive, never to a corpse, unless the lock it read had   *)
(* no text, as one a process died over less than a minute ago.             *)
GivesUpBehindTheLiving ==
  [][\A p \in Procs :
       pc[p] \in {"stat", "judge"} /\ pc'[p] = "gaveup"
         => \/ raw[p] = Empty
            \/ \E q \in Procs \ {p} : IsPidAlive(q) /\ pc[q] # "idle"]_vars

(* "Held for the whole commit -> wait -> register, released however it     *)
(* ends" (dotns.ts:5759): no lock file outlives the commitAndRegister that *)
(* took it while its process goes on and keeps the others waiting, as long *)
(* as no lock was orphaned.                                                *)
ReleasedUnlessOrphaned ==
  ~orphaned /\ file # None => pc[Owner(file)] \notin {"finished", "gaveup"}
================================================================================
