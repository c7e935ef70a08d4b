------------------------- MODULE CommitmentLock_proofs -------------------------
(***************************************************************************)
(* The commitment lock is typed whatever the number of processes and of    *)
(* crashes, and until a lock is orphaned it is a lock: one holder at most, *)
(* and no file left behind.  CommitmentLock_takeover.cfg shows that the    *)
(* condition cannot be dropped, even if no process is ever killed.  Up to Attempts + 1 processes enter    *)
(* what it guards one at a time, so that the files implement NameLock,     *)
(* which is how CommitRegister uses them; with more, one may run without.  *)
(* Last, no two processes keep each other from the lock for ever.          *)
(***************************************************************************)
EXTENDS CommitmentLock, FiniteSetTheorems, WellFoundedInduction, TLAPS

USE ConstantsAssumption

(* The two texts that are no token are told apart from every token. *)
LEMMA TokenFacts ==
  /\ None \notin Tokens /\ Empty \notin Tokens /\ None # Empty
  /\ \A t \in Tokens : Owner(t) \in Procs
BY SMT DEF Tokens, None, Empty, Owner

(* A call's token is a token. *)
LEMMA TokenType ==
  ASSUME TypeOK, NEW p \in Procs
  PROVE  Token(p) \in Tokens /\ Owner(Token(p)) = p
BY SMT DEF Tokens, Token, Owner, TypeOK

(* Every step of a process keeps the types. *)
THEOREM TypeCorrect == Spec => []TypeOK
<1>1. Init => TypeOK
  <2>1. Init => 0 \in 0 .. WaitPolls /\ 1 \in 1 .. Attempts
    OBVIOUS
  <2>2. Init => orphaned \in BOOLEAN
    BY DEF Init
  <2>3. "idle" \in PCs
    BY DEF PCs
  <2> QED
    BY <2>1, <2>2, <2>3 DEF Init, TypeOK
<1>2. ASSUME TypeOK, [Next]_vars PROVE TypeOK'
  <2>1. CASE UNCHANGED vars
    BY <2>1, <1>2 DEF vars, TypeOK
  <2>2. ASSUME NEW p \in Procs, Start(p) PROVE TypeOK'
    BY <2>2, <1>2 DEF Start, Goto, TypeOK, PCs
  <2>3. ASSUME NEW p \in Procs, Create(p) PROVE TypeOK'
    BY <2>3, <1>2, TokenType DEF Create, Goto, TypeOK, PCs
  <2>4. ASSUME NEW p \in Procs, Write(p) PROVE TypeOK'
    BY <2>4, <1>2, TokenType DEF Write, Goto, TypeOK, PCs, Holding
  <2>5. ASSUME NEW p \in Procs, Read(p) PROVE TypeOK'
    BY <2>5, <1>2, TokenFacts DEF Read, Continue, Goto, TypeOK, PCs, Text
  <2>12. ASSUME NEW p \in Procs, Stat(p) PROVE TypeOK'
    BY <2>12, <1>2, TokenFacts
       DEF Stat, Continue, HeldBy, Forget, Goto, TypeOK, PCs
  <2>13. ASSUME NEW p \in Procs, Judge(p) PROVE TypeOK'
    BY <2>13, <1>2, TokenFacts DEF Judge, HeldBy, Forget, Goto, TypeOK, PCs
  <2>6. ASSUME NEW p \in Procs, Rename(p) PROVE TypeOK'
    BY <2>6, <1>2, TokenFacts DEF Rename, Continue, Forget, Goto, TypeOK, PCs
  <2>7. ASSUME NEW p \in Procs, Check(p) PROVE TypeOK'
    BY <2>7, <1>2, TokenFacts
       DEF Check, Continue, Forget, Goto, TypeOK, PCs, Text
  <2>8. ASSUME NEW p \in Procs, PutBack(p) PROVE TypeOK'
    BY <2>8, <1>2, TokenFacts
       DEF PutBack, Continue, HeldBy, Forget, Goto, TypeOK, PCs
  <2>9. ASSUME NEW p \in Procs, Leave(p) \/ ReleaseRead(p)
        PROVE  TypeOK'
    BY <2>9, <1>2 DEF Leave, ReleaseRead, Goto, TypeOK, PCs, Holding
  <2>10. ASSUME NEW p \in Procs, ReleaseUnlink(p) PROVE TypeOK'
    BY <2>10, <1>2, TokenFacts DEF ReleaseUnlink, Goto, TypeOK, PCs
  <2>11. ASSUME NEW p \in Procs, Exit(p) \/ Crash(p) PROVE TypeOK'
    <3>1. orphaned' \in BOOLEAN
      BY <2>11, <1>2 DEF Exit, Crash, End, TypeOK
    <3> QED
      BY <2>11, <3>1, <1>2 DEF Exit, Crash, End, Goto, TypeOK, PCs, Gone
  <2> QED
    BY <1>2, <2>1, <2>2, <2>3, <2>4, <2>5, <2>6, <2>7, <2>8, <2>9, <2>10,
       <2>11, <2>12, <2>13 DEF Next, Proceed
<1> QED
  BY <1>1, <1>2, PTL DEF Spec

(***************************************************************************)
(* Until a lock is orphaned, the file and the process that owns it name    *)
(* each other, and every lock a process has read is still that of a        *)
(* process that runs.  So no process ever judges a lock stale.             *)
(***************************************************************************)
Owning == Holding \cup {"write"}

FileIsOwned ==
  /\ \A p \in Procs : pc[p] \in Owning => file = Token(p)
  /\ file # None => pc[Owner(file)] \in Owning
  /\ \A p \in Procs : pc[p] \in Holding => Token(p) \in written

ReadOfTheLiving ==
  \A p \in Procs :
    /\ pc[p] \in {"stat", "judge"} /\ raw[p] # Empty
         => raw[p] # None /\ pc[Owner(raw[p])] \notin Gone
    /\ pc[p] = "judge" => raw[p] # Empty

NothingStale ==
  \A p \in Procs : pc[p] \notin {"rename", "check", "putback"}

LockInv == ~orphaned => FileIsOwned /\ ReadOfTheLiving /\ NothingStale

(* Once a lock is orphaned, that stays so. *)
LEMMA OrphanedStaysOrphaned ==
  ASSUME [Next]_vars, ~orphaned'
  PROVE  ~orphaned
BY DEF Next, Proceed, Start, Create, Write, Read, Stat, Judge, Rename, Check,
       PutBack, Leave, ReleaseRead, ReleaseUnlink, Exit, Crash, End, vars

(* Who ends is not the owner of a lock that is at the path or was read. *)
LEMMA EndOutOfSight ==
  ASSUME TypeOK, NEW p \in Procs, Exit(p) \/ Crash(p), ~orphaned'
  PROVE  /\ file # None => Owner(file) # p
         /\ \A q \in Procs :
              pc[q] \in {"stat", "judge"} /\ raw[q] \notin {None, Empty}
                => Owner(raw[q]) # p
BY DEF Exit, Crash, End, InSight, TypeOK

(* Until a lock is orphaned, file and owner keep naming each other. *)
LEMMA LockInvStep ==
  ASSUME TypeOK, LockInv, TypeOK', Next
  PROVE  LockInv'
<1> SUFFICES ASSUME ~orphaned'
             PROVE  FileIsOwned' /\ ReadOfTheLiving' /\ NothingStale'
  BY DEF LockInv
<1>0. FileIsOwned /\ ReadOfTheLiving /\ NothingStale
  BY OrphanedStaysOrphaned DEF LockInv
<1>1. PICK p \in Procs : Proceed(p) \/ Crash(p)
  BY DEF Next
<1>2. \A q \in Procs : raw[q] \in Tokens => Owner(raw[q]) \in Procs
  BY TokenFacts
<1>10. file # None => Owner(file) \in Procs
  BY TokenFacts DEF TypeOK
<1> USE <1>0, <1>2, <1>10
    DEF FileIsOwned, ReadOfTheLiving, NothingStale, Owning, Holding, Gone,
        Goto, Token
<1>3. CASE Start(p) \/ Write(p) \/ Leave(p)
  BY <1>3 DEF Start, Write, Leave, TypeOK
<1>4. CASE Create(p)
  BY <1>4, TokenFacts, TokenType DEF Create, TypeOK, Owner
<1>5. CASE Read(p)
  <2>1. file # None => Text(file) \in {file, Empty}
    BY DEF Text
  <2> QED
    BY <1>5, <2>1, TokenFacts DEF Read, Continue, TypeOK
<1>6. CASE Stat(p)
  <2>1. file # None => ~MayBeGarbage(file)
    BY DEF MayBeGarbage, IsPidAlive
  <2> QED
    BY <1>6, <2>1, TokenFacts DEF Stat, Continue, HeldBy, Forget, TypeOK
<1>7. CASE Judge(p)
  <2>1. ~IsStaleLock(raw[p])
    BY <1>7 DEF Judge, IsStaleLock, IsPidAlive
  <2> QED
    BY <1>7, <2>1, TokenFacts DEF Judge, HeldBy, Forget, TypeOK
<1>8. CASE ReleaseRead(p)
  BY <1>8, TokenFacts, TokenType DEF ReleaseRead, Text, TypeOK, Owner
<1>9. CASE ReleaseUnlink(p)
  BY <1>9, TokenFacts, TokenType DEF ReleaseUnlink, TypeOK, Owner
<1>11. CASE Exit(p) \/ Crash(p)
  <2>1. /\ file # None => Owner(file) # p
        /\ \A q \in Procs :
             pc[q] \in {"stat", "judge"} /\ raw[q] \notin {None, Empty}
               => Owner(raw[q]) # p
    BY <1>11, EndOutOfSight
  <2>2. /\ UNCHANGED <<file, written, poll, raw>>
        /\ \E how \in Gone : pc' = [pc EXCEPT ![p] = how]
    BY <1>11 DEF Exit, Crash, End
  <2> QED
    BY <2>1, <2>2 DEF TypeOK
<1> QED
  BY <1>1, <1>3, <1>4, <1>5, <1>6, <1>7, <1>8, <1>9, <1>11
     DEF Proceed, Rename, Check, PutBack

(* The inductive invariant holds throughout. *)
THEOREM LockInvariant == Spec => []LockInv
<1>1. Init => LockInv
  BY TokenFacts
     DEF Init, LockInv, FileIsOwned, ReadOfTheLiving, NothingStale, Owning,
         Holding, Gone
<1>2. TypeOK /\ LockInv /\ TypeOK' /\ [Next]_vars => LockInv'
  <2>1. ASSUME LockInv, UNCHANGED vars PROVE LockInv'
    BY <2>1
       DEF LockInv, FileIsOwned, ReadOfTheLiving, NothingStale, Owning,
           Holding, vars, Token
  <2> QED
    BY <2>1, LockInvStep
<1> QED
  BY <1>1, <1>2, TypeCorrect, PTL DEF Spec

(* Two processes never hold the lock at once until a lock is orphaned: the *)
(* file names its one holder.                                              *)
THEOREM ExclusiveUnlessOrphanedHolds == Spec => []ExclusiveUnlessOrphaned
<1>1. TypeOK /\ LockInv => ExclusiveUnlessOrphaned
  <2> SUFFICES ASSUME TypeOK, LockInv, ~orphaned,
                      NEW p \in Procs, NEW q \in Procs,
                      pc[p] = "hold", pc[q] = "hold"
               PROVE  p = q
    BY DEF ExclusiveUnlessOrphaned, MutualExclusion
  <2>1. Token(p) = Token(q)
    BY DEF LockInv, FileIsOwned, Owning, Holding
  <2> QED
    BY <2>1, TokenType
<1> QED
  BY <1>1, TypeCorrect, LockInvariant, PTL

(* No lock file outlives the commitAndRegister that took it until a lock   *)
(* is orphaned.                                                            *)
THEOREM ReleasedUnlessOrphanedHolds == Spec => []ReleasedUnlessOrphaned
<1>1. LockInv => ReleasedUnlessOrphaned
  BY DEF LockInv, FileIsOwned, Owning, Holding, ReleasedUnlessOrphaned
<1> QED
  BY <1>1, LockInvariant, PTL

(* A release removes the lock file of its own process until a lock is      *)
(* orphaned.                                                               *)
THEOREM ReleasesOwnLockHolds == Spec => ReleasesOwnLock
<1>1. LockInv /\ [Next]_vars =>
        [\A p \in Procs :
           ~orphaned /\ pc[p] = "relunlink" /\ pc'[p] = "finished"
             => file = Token(p)]_vars
  BY DEF LockInv, FileIsOwned, Owning, Holding
<1> QED
  BY <1>1, LockInvariant, PTL DEF Spec, ReleasesOwnLock

(***************************************************************************)
(* A process that competes for the lock, or went on without it, has        *)
(* created no lock file: none is at the path, in anybody's hands or read.  *)
(***************************************************************************)
EmptyHanded == {"idle", "create", "read", "stat", "judge", "rename", "check",
                "putback", "unlocked", "gaveup"}

CreatorInv == \A p \in Procs : pc[p] \in EmptyHanded =>
  /\ file # None => Owner(file) # p
  /\ \A q \in Procs :
       /\ grabbed[q] # None => Owner(grabbed[q]) # p
       /\ raw[q] \notin {None, Empty} => Owner(raw[q]) # p

(* A process that holds no lock file now and creates none now, held none.  *)
LEMMA EmptyHandedBefore ==
  ASSUME TypeOK, NEW p \in Procs, Proceed(p) \/ Crash(p),
         NEW q \in Procs, pc'[q] \in EmptyHanded
  PROVE  pc[q] \in EmptyHanded
<1> USE DEF EmptyHanded, Goto, TypeOK
<1>1. CASE Read(p) \/ Stat(p) \/ Judge(p) \/ Rename(p) \/ Check(p)
           \/ PutBack(p)
  BY <1>1 DEF Read, Stat, Judge, Rename, Check, PutBack, Continue, HeldBy
<1> QED
  BY <1>1 DEF Proceed, Start, Create, Write, Leave, ReleaseRead,
              ReleaseUnlink, Exit, Crash, End

(* So whoever moves a lock file about, it stays its creator's.             *)
LEMMA CreatorInvStep ==
  ASSUME TypeOK, CreatorInv, Next
  PROVE  CreatorInv'
<1>1. PICK p \in Procs : Proceed(p) \/ Crash(p)
  BY DEF Next
<1> SUFFICES ASSUME NEW q \in Procs, pc'[q] \in EmptyHanded
             PROVE  /\ file' # None => Owner(file') # q
                    /\ \A r \in Procs :
                         /\ grabbed'[r] # None => Owner(grabbed'[r]) # q
                         /\ raw'[r] \notin {None, Empty} => Owner(raw'[r]) # q
  BY DEF CreatorInv
<1>2. pc[q] \in EmptyHanded
  BY <1>1, EmptyHandedBefore
<1>3. /\ file # None => Owner(file) # q
      /\ \A r \in Procs :
           /\ grabbed[r] # None => Owner(grabbed[r]) # q
           /\ raw[r] \notin {None, Empty} => Owner(raw[r]) # q
  BY <1>2 DEF CreatorInv
<1>4. CASE Create(p)
  <2>1. CASE file = None
    <3>1. /\ pc'[p] = "write" /\ file' = Token(p)
          /\ grabbed' = grabbed /\ raw' = raw
      BY <1>4, <2>1 DEF Create, Goto, TypeOK
    <3>2. Owner(file') # q
      BY <3>1, TokenType DEF EmptyHanded
    <3> QED
      BY <1>3, <3>1, <3>2
  <2>2. CASE file # None
    BY <1>3, <1>4, <2>2 DEF Create
  <2> QED
    BY <2>1, <2>2
<1>5. CASE Rename(p)
  BY <1>3, <1>5 DEF Rename, Forget, TypeOK
<1>6. CASE Check(p)
  BY <1>3, <1>6 DEF Check, Forget, Text, TypeOK
<1>7. CASE PutBack(p)
  BY <1>3, <1>7 DEF PutBack, Forget, TypeOK
<1>8. CASE Read(p)
  BY <1>3, <1>8 DEF Read, Text, TypeOK
<1>9. CASE Stat(p) \/ Judge(p)
  BY <1>3, <1>9 DEF Stat, Judge, Forget, TypeOK
<1> QED
  BY <1>1, <1>3, <1>4, <1>5, <1>6, <1>7, <1>8, <1>9
     DEF Proceed, Start, Write, Leave, ReleaseRead, ReleaseUnlink, Exit,
         Crash, End

(* A process that is to judge a lock has read one. *)
HasRead == \A p \in Procs : pc[p] \in {"stat", "judge"} => raw[p] # None

(* It is read before, and dropped only with the verdict. *)
LEMMA HasReadStep ==
  ASSUME TypeOK, HasRead, [Next]_vars
  PROVE  HasRead'
<1>1. CASE UNCHANGED vars
  BY <1>1 DEF vars, HasRead
<1>2. ASSUME NEW p \in Procs, Proceed(p) \/ Crash(p) PROVE HasRead'
  <2> USE DEF HasRead, Goto, TypeOK
  <2>1. CASE Read(p)
    <3>1. file # None => Text(file) # None
      BY TokenFacts DEF Text
    <3> QED
      BY <2>1, <3>1 DEF Read, Continue
  <2>2. CASE Stat(p) \/ Judge(p)
    BY <2>2 DEF Stat, Judge, Continue, HeldBy, Forget
  <2>3. CASE Rename(p) \/ Check(p) \/ PutBack(p)
    BY <2>3 DEF Rename, Check, PutBack, Continue, HeldBy, Forget
  <2> QED
    BY <1>2, <2>1, <2>2, <2>3
       DEF Proceed, Start, Create, Write, Leave, ReleaseRead, ReleaseUnlink,
           Exit, Crash, End, Gone
<1> QED
  BY <1>1, <1>2 DEF Next

(* Who gives up after reading the lock file leaves the attempt to another  *)
(* process that is alive and has created that file, not to a corpse,       *)
(* unless the file has no text: for any number of processes and crashes.   *)
THEOREM GivesUpBehindTheLivingHolds == Spec => GivesUpBehindTheLiving
<1>1. Init => CreatorInv /\ HasRead
  BY DEF Init, CreatorInv, HasRead
<1>4. TypeOK /\ HasRead /\ [Next]_vars => HasRead'
  BY HasReadStep
<1>2. TypeOK /\ CreatorInv /\ [Next]_vars => CreatorInv'
  <2>1. ASSUME CreatorInv, UNCHANGED vars PROVE CreatorInv'
    BY <2>1 DEF CreatorInv, vars
  <2> QED
    BY <2>1, CreatorInvStep
<1>3. TypeOK /\ CreatorInv /\ HasRead /\ [Next]_vars =>
        [\A p \in Procs :
           pc[p] \in {"stat", "judge"} /\ pc'[p] = "gaveup"
             => \/ raw[p] = Empty
                \/ \E q \in Procs \ {p} : IsPidAlive(q) /\ pc[q] # "idle"]_vars
  <2> SUFFICES ASSUME TypeOK, CreatorInv, HasRead, Next, NEW p \in Procs,
                      pc[p] \in {"stat", "judge"}, pc'[p] = "gaveup",
                      raw[p] # Empty
               PROVE  \E q \in Procs \ {p} : IsPidAlive(q) /\ pc[q] # "idle"
    OBVIOUS
  <2>1. PICK q \in Procs : Proceed(q) \/ Crash(q)
    BY DEF Next
  <2>2. q = p
    <3> USE DEF Goto, TypeOK
    <3>1. CASE Read(q) \/ Stat(q) \/ Judge(q) \/ Rename(q) \/ Check(q)
               \/ PutBack(q)
      BY <3>1 DEF Read, Stat, Judge, Rename, Check, PutBack, Continue, HeldBy
    <3> QED
      BY <2>1, <3>1 DEF Proceed, Start, Create, Write, Leave, ReleaseRead,
                        ReleaseUnlink, Exit, Crash, End
  <2>3. Stat(p) \/ Judge(p)
    BY <2>1, <2>2 DEF Proceed, Start, Create, Write, Read, Rename, Check,
                      PutBack, Leave, ReleaseRead, ReleaseUnlink, Exit, Crash,
                      End, Goto, TypeOK
  <2>4. Judge(p) /\ ~IsStaleLock(raw[p])
    BY <2>3 DEF Stat, Judge, Continue, Goto, TypeOK
  <2>5. raw[p] # None
    BY DEF HasRead
  <2>6. Owner(raw[p]) \in Procs \ {p}
    BY <2>4, <2>5, TokenFacts DEF TypeOK, CreatorInv, EmptyHanded, Judge
  <2>7. pc[Owner(raw[p])] # "idle"
    BY <2>5, <2>6 DEF CreatorInv, EmptyHanded
  <2> QED
    BY <2>4, <2>6, <2>7 DEF IsStaleLock
<1> QED
  BY <1>1, <1>2, <1>3, <1>4, TypeCorrect, PTL DEF Spec, GivesUpBehindTheLiving

(***************************************************************************)
(* A process that loses all its attempts goes on without the lock          *)
(* (NO_LOCK, run-state.ts:596), so holding it is not all there is to being *)
(* alone in commitAndRegister.  Each attempt is lost to another process    *)
(* that released the lock since, so it takes Attempts other processes to   *)
(* drive one of them to that, and one more to be inside with it.           *)
(***************************************************************************)
Inside == {p \in Procs : pc[p] \in {"hold", "unlocked"}}

Past == {p \in Procs : pc[p] \in Gone \cup {"finished", "gaveup"}}

LossInv == ~orphaned =>
  \A p \in Procs :
    /\ pc[p] = "idle" => attempt[p] = 1
    /\ pc[p] = "create" => attempt[p] <= Cardinality(Past) + 1
    /\ pc[p] \in {"read", "stat"} =>
         attempt[p] <= Cardinality(Past) + (IF file = None THEN 0 ELSE 1)
    /\ pc[p] = "unlocked" => Attempts <= Cardinality(Past)

(* The processes that are past the lock are finitely many. *)
LEMMA PastFinite == IsFiniteSet(Past) /\ Cardinality(Past) \in Nat
<1>1. Past \subseteq Procs
  BY DEF Past
<1> QED
  BY <1>1, FS_Subset, FS_CardinalityType

(* They only become more. *)
LEMMA PastGrows ==
  ASSUME TypeOK, NEW p \in Procs, Proceed(p) \/ Crash(p)
  PROVE  /\ Past \subseteq Past'
         /\ Cardinality(Past) <= Cardinality(Past')
         /\ Cardinality(Past') \in Nat
<1>1. Past \subseteq Past'
  <2> USE DEF Past, Gone, Goto, TypeOK
  <2>1. CASE Read(p) \/ Stat(p) \/ Judge(p) \/ Rename(p) \/ Check(p)
             \/ PutBack(p)
    BY <2>1 DEF Read, Stat, Judge, Rename, Check, PutBack, Continue, HeldBy
  <2> QED
    BY <2>1 DEF Proceed, Start, Create, Write, Leave, ReleaseRead,
                ReleaseUnlink, Exit, Crash, End
<1>2. Past' \subseteq Procs
  BY DEF Past
<1>3. IsFiniteSet(Past')
  BY <1>2, FS_Subset
<1> QED
  BY <1>1, <1>3, FS_Subset, FS_CardinalityType

(* An attempt is lost to a process that has left. *)
LEMMA LossInvStep ==
  ASSUME TypeOK, LockInv, LossInv, TypeOK', Next
  PROVE  LossInv'
<1> SUFFICES ASSUME ~orphaned', NEW q \in Procs
             PROVE  /\ pc'[q] = "idle" => attempt'[q] = 1
                    /\ pc'[q] = "create" =>
                         attempt'[q] <= Cardinality(Past') + 1
                    /\ pc'[q] \in {"read", "stat"} =>
                         attempt'[q] <= Cardinality(Past')
                                        + (IF file' = None THEN 0 ELSE 1)
                    /\ pc'[q] = "unlocked" => Attempts <= Cardinality(Past')
  BY DEF LossInv
<1>0. FileIsOwned /\ ReadOfTheLiving /\ NothingStale /\ ~orphaned
  BY OrphanedStaysOrphaned DEF LockInv
<1>1. PICK p \in Procs : Proceed(p) \/ Crash(p)
  BY DEF Next
<1>2. /\ Cardinality(Past) \in Nat /\ Cardinality(Past') \in Nat
      /\ Cardinality(Past) <= Cardinality(Past')
  BY <1>1, PastFinite, PastGrows
<1>3. /\ pc[q] = "idle" => attempt[q] = 1
      /\ pc[q] = "create" => attempt[q] <= Cardinality(Past) + 1
      /\ pc[q] \in {"read", "stat"} =>
           attempt[q] <= Cardinality(Past) + (IF file = None THEN 0 ELSE 1)
      /\ pc[q] = "unlocked" => Attempts <= Cardinality(Past)
  BY <1>0 DEF LossInv
<1>4. pc[p] \notin {"rename", "check", "putback"}
  BY <1>0 DEF NothingStale
<1>5. attempt[q] \in 1 .. Attempts /\ Attempts \in Nat \ {0}
  BY DEF TypeOK
<1> USE <1>2, <1>3, <1>5 DEF Goto
<1>6. CASE Start(p)
  BY <1>6 DEF Start, TypeOK
<1>7. CASE Create(p)
  <2>1. Token(p) # None
    BY TokenFacts, TokenType
  <2> QED
    BY <1>7, <2>1 DEF Create, TypeOK
<1>8. CASE Write(p) \/ Leave(p) \/ ReleaseRead(p)
  BY <1>8 DEF Write, Leave, ReleaseRead, TypeOK
<1>9. CASE Exit(p) \/ Crash(p)
  BY <1>9 DEF Exit, Crash, End, Gone, TypeOK
<1>10. CASE Read(p)
  <2>1. file' = file
    BY <1>10 DEF Read
  <2> QED
    BY <1>10, <2>1 DEF Read, Continue, TypeOK
<1>11. CASE Stat(p)
  <2>1. file # None => ~MayBeGarbage(file)
    BY <1>0, TokenFacts DEF FileIsOwned, MayBeGarbage, IsPidAlive, Gone, Owning,
                            Holding
  <2>2. file' = file
    BY <1>11 DEF Stat
  <2> QED
    BY <1>11, <2>1, <2>2 DEF Stat, Continue, HeldBy, TypeOK
<1>12. CASE Judge(p)
  <2>1. ~IsStaleLock(raw[p])
    BY <1>0, <1>12 DEF Judge, IsStaleLock, IsPidAlive, ReadOfTheLiving
  <2>2. file' = file
    BY <1>12 DEF Judge
  <2> QED
    BY <1>12, <2>1, <2>2 DEF Judge, HeldBy, TypeOK
<1>13. CASE ReleaseUnlink(p)
  <2>1. p \notin Past /\ Past' = Past \cup {p}
    BY <1>13 DEF ReleaseUnlink, Past, Gone, TypeOK
  <2>2. Cardinality(Past') = Cardinality(Past) + 1
    BY <2>1, PastFinite, FS_AddElement
  <2>3. attempt' = attempt /\ pc' = [pc EXCEPT ![p] = "finished"]
    BY <1>13 DEF ReleaseUnlink
  <2> QED
    BY <2>2, <2>3 DEF TypeOK
<1> QED
  BY <1>1, <1>4, <1>6, <1>7, <1>8, <1>9, <1>10, <1>11, <1>12, <1>13
     DEF Proceed, Rename, Check, PutBack

(* Nobody loses more attempts than there are processes past the lock. *)
THEOREM LossInvariant == Spec => []LossInv
<1>1. Init => LossInv
  BY DEF Init, LossInv
<1>2. TypeOK /\ LockInv /\ LossInv /\ TypeOK' /\ [Next]_vars => LossInv'
  <2>1. ASSUME LossInv, UNCHANGED vars PROVE LossInv'
    BY <2>1 DEF LossInv, Past, vars
  <2> QED
    BY <2>1, LossInvStep
<1> QED
  BY <1>1, <1>2, TypeCorrect, LockInvariant, PTL DEF Spec

(***************************************************************************)
(* One process at a time is inside, until a lock is orphaned and if no     *)
(* more than Attempts + 1 processes compete.                               *)
(***************************************************************************)
OneInside == ~orphaned => \A p, q \in Inside : p = q

(* Two processes inside leave too few others to have lost to. *)
LEMMA OneInsideFollows ==
  ASSUME Cardinality(Procs) <= Attempts + 1, TypeOK, LockInv, LossInv
  PROVE  OneInside
<1> SUFFICES ASSUME ~orphaned, NEW p \in Inside, NEW q \in Inside, p # q
             PROVE  FALSE
  BY DEF OneInside
<1>1. p \in Procs /\ q \in Procs
  BY DEF Inside
<1>2. pc[p] = "unlocked" \/ pc[q] = "unlocked"
  <2>1. ~(pc[p] = "hold" /\ pc[q] = "hold")
    <3>1. pc[p] = "hold" /\ pc[q] = "hold" => Token(p) = Token(q)
      BY <1>1 DEF LockInv, FileIsOwned, Owning, Holding
    <3> QED
      BY <1>1, <3>1, TokenType
  <2> QED
    BY <2>1 DEF Inside
<1>3. Attempts <= Cardinality(Past)
  BY <1>1, <1>2 DEF LossInv
<1>4. p \notin Past /\ q \notin Past
  BY DEF Past, Gone, Inside
<1>5. IsFiniteSet(Past \cup {p}) /\ Cardinality(Past \cup {p}) = Cardinality(Past) + 1
  BY <1>4, PastFinite, FS_AddElement
<1>6. /\ IsFiniteSet(Past \cup {p} \cup {q})
      /\ Cardinality(Past \cup {p} \cup {q}) = Cardinality(Past) + 2
  <2>1. q \notin Past \cup {p}
    BY <1>4
  <2>2. Cardinality(Past \cup {p} \cup {q}) = Cardinality(Past \cup {p}) + 1
    BY <1>5, <2>1, FS_AddElement
  <2> QED
    <3>1. IsFiniteSet(Past \cup {p} \cup {q})
      BY <1>5, FS_AddElement
    <3>2. Cardinality(Past) \in Nat
      BY PastFinite, FS_CardinalityType
    <3> QED BY <1>5, <2>2, <3>1, <3>2
<1>7. Past \cup {p} \cup {q} \subseteq Procs
  BY <1>1 DEF Past
<1>8. Cardinality(Past \cup {p} \cup {q}) <= Cardinality(Procs)
  BY <1>7, FS_Subset
<1> QED
  BY <1>3, <1>6, <1>8, PastFinite, FS_CardinalityType

(* "One process at a time per (env, tld, owner, label)" (dotns.ts:5520)    *)
(* holds of commitAndRegister itself, the runs without a lock included,    *)
(* for up to Attempts + 1 processes, until a lock is orphaned.             *)
THEOREM OneInsideHolds ==
  ASSUME Cardinality(Procs) <= Attempts + 1
  PROVE  Spec => []OneInside
<1>1. TypeOK /\ LockInv /\ LossInv => OneInside
  BY OneInsideFollows
<1> QED
  BY <1>1, TypeCorrect, LockInvariant, LossInvariant, PTL

(***************************************************************************)
(* And so, under the same conditions, the files implement the lock as the  *)
(* rest of the system uses it.                                             *)
(***************************************************************************)
Lock == INSTANCE NameLock WITH inside <- Inside

(* One process moves at a time, into commitAndRegister or out of it. *)
LEMMA InsideStep ==
  ASSUME TypeOK, NEW p \in Procs, Proceed(p) \/ Crash(p)
  PROVE  \/ Inside' = Inside
         \/ p \notin Inside /\ Inside' = Inside \cup {p}
         \/ p \in Inside /\ Inside' = Inside \ {p}
<1>1. \A q \in Procs \ {p} : pc'[q] = pc[q]
  <2> USE DEF Goto, TypeOK
  <2>1. CASE Read(p) \/ Stat(p) \/ Judge(p) \/ Rename(p) \/ Check(p)
             \/ PutBack(p)
    BY <2>1 DEF Read, Stat, Judge, Rename, Check, PutBack, Continue, HeldBy
  <2> QED
    BY <2>1 DEF Proceed, Start, Create, Write, Leave, ReleaseRead,
                ReleaseUnlink, Exit, Crash, End
<1>2. \A q \in Procs \ {p} : q \in Inside' <=> q \in Inside
  BY <1>1 DEF Inside
<1>3. Inside \subseteq Procs /\ Inside' \subseteq Procs
  BY DEF Inside
<1>4. CASE p \in Inside /\ p \in Inside'
  BY <1>2, <1>3, <1>4
<1>5. CASE p \in Inside /\ p \notin Inside'
  BY <1>2, <1>3, <1>5
<1>6. CASE p \notin Inside /\ p \in Inside'
  BY <1>2, <1>3, <1>6
<1>7. CASE p \notin Inside /\ p \notin Inside'
  BY <1>2, <1>3, <1>7
<1> QED
  BY <1>4, <1>5, <1>6, <1>7

(* As long as no lock is orphaned, up to Attempts + 1 processes enter and   *)
(* leave commitAndRegister as through a lock that one step takes and one   *)
(* step gives back.                                                        *)
THEOREM ImplementsNameLock ==
  ASSUME Cardinality(Procs) <= Attempts + 1
  PROVE  Spec /\ [](~orphaned) => Lock!Spec
<1>1. Init => Lock!Init
  BY DEF Init, Lock!Init, Inside
<1>2. TypeOK /\ OneInside /\ OneInside' /\ ~orphaned /\ ~orphaned'
      /\ [Next]_vars => [Lock!Next]_Inside
  <2> SUFFICES ASSUME TypeOK, OneInside, OneInside', ~orphaned,
                      ~orphaned', [Next]_vars, Inside' # Inside
               PROVE  Lock!Next
    BY DEF Lock!Next
  <2>1. Next
    BY DEF vars, Inside
  <2>2. PICK p \in Procs : Proceed(p) \/ Crash(p)
    BY <2>1 DEF Next
  <2>3. \/ p \notin Inside /\ Inside' = Inside \cup {p}
        \/ p \in Inside /\ Inside' = Inside \ {p}
    BY <2>2, InsideStep
  <2>4. CASE p \notin Inside /\ Inside' = Inside \cup {p}
    <3>1. Inside = {}
      BY <2>4 DEF OneInside
    <3> QED
      BY <2>4, <3>1 DEF Lock!Next, Lock!Enter
  <2>5. CASE p \in Inside /\ Inside' = Inside \ {p}
    <3>1. Inside = {p}
      BY <2>5 DEF OneInside
    <3> QED
      BY <2>5, <3>1 DEF Lock!Next, Lock!Leave
  <2> QED
    BY <2>3, <2>4, <2>5
<1> QED
  BY <1>1, <1>2, TypeCorrect, OneInsideHolds, PTL DEF Spec, Lock!Spec

--------------------------------------------------------------------------------
(***************************************************************************)
(* What a process has left to do, largest unit first: the stages of a lock *)
(* attempt, the polls, the attempts of a call, the file-system calls of an *)
(* attempt.                                                                *)
(***************************************************************************)
StepsLeft(p) ==
  CASE pc[p] = "create" -> 7
    [] pc[p] = "read" -> 6
    [] pc[p] = "stat" -> 5
    [] pc[p] = "judge" -> 4
    [] pc[p] = "rename" -> 3
    [] pc[p] = "check" -> 2
    [] pc[p] = "putback" -> 1
    [] OTHER -> 0

Stage(p) ==
  CASE pc[p] = "idle" -> 7
    [] StepsLeft(p) # 0 -> 6
    [] pc[p] = "write" -> 5
    [] pc[p] \in {"hold", "unlocked"} -> 4
    [] pc[p] = "relread" -> 3
    [] pc[p] = "relunlink" -> 2
    [] pc[p] \in {"finished", "gaveup"} -> 1
    [] OTHER -> 0

WorkLeft(p) ==
  <<Stage(p), WaitPolls - poll[p], Attempts - attempt[p], StepsLeft(p)>>

Smaller == LexProductOrdering(OpToRel(<, Nat), Nat, 4)

\* The order has no infinite descent.
LEMMA SmallerWellFounded == IsWellFoundedOn(Smaller, [1 .. 4 -> Nat])
  BY NatLessThanWellFounded, WFLexProductOrdering DEF Smaller

\* Two measures are ordered by the first place they differ in.
LEMMA FirstDifference ==
  ASSUME NEW m \in [1 .. 4 -> Nat], NEW k \in [1 .. 4 -> Nat],
         \/ m[1] < k[1]
         \/ m[1] = k[1] /\ m[2] < k[2]
         \/ m[1] = k[1] /\ m[2] = k[2] /\ m[3] < k[3]
         \/ m[1] = k[1] /\ m[2] = k[2] /\ m[3] = k[3] /\ m[4] < k[4]
  PROVE  <<m, k>> \in Smaller
<1>1. PICK i \in 1 .. 4 :
        m[i] < k[i] /\ \A j \in 1 .. (i - 1) : m[j] = k[j]
  OBVIOUS
<1>2. <<m[i], k[i]>> \in OpToRel(<, Nat)
  BY <1>1 DEF OpToRel
<1> QED
  BY <1>1, <1>2 DEF Smaller, LexProductOrdering

\* The measure is made of natural numbers.
LEMMA WorkLeftType ==
  ASSUME TypeOK, NEW p \in Procs
  PROVE  WorkLeft(p) \in [1 .. 4 -> Nat]
<1>1. Stage(p) \in Nat /\ StepsLeft(p) \in Nat
  BY DEF Stage, StepsLeft
<1>2. WaitPolls - poll[p] \in Nat /\ Attempts - attempt[p] \in Nat
  BY DEF TypeOK
<1> QED
  BY <1>1, <1>2 DEF WorkLeft

(***************************************************************************)
(* A step of a process, or its end by a kill, leaves it less to do.        *)
(***************************************************************************)
LEMMA OwnStep ==
  ASSUME TypeOK, TypeOK', NEW p \in Procs, Proceed(p) \/ Crash(p),
         WorkLeft(p) \in [1 .. 4 -> Nat], WorkLeft(p)' \in [1 .. 4 -> Nat]
  PROVE  <<WorkLeft(p)', WorkLeft(p)>> \in Smaller
<1> DEFINE
      StageEnds == Stage(p)' < Stage(p)
      Polled == Stage(p)' = Stage(p) /\ poll'[p] = poll[p] + 1
      AttemptLost ==
        /\ Stage(p)' = Stage(p) /\ poll'[p] = poll[p]
        /\ attempt'[p] = attempt[p] + 1
      StepTaken ==
        /\ Stage(p)' = Stage(p) /\ poll'[p] = poll[p]
        /\ attempt'[p] = attempt[p] /\ StepsLeft(p)' < StepsLeft(p)
<1> USE DEF Stage, StepsLeft, Goto, TypeOK
<1>1. ASSUME Continue(p), poll' = poll,
             pc[p] \in {"read", "stat", "rename", "check", "putback"}
      PROVE  StageEnds \/ AttemptLost
  BY <1>1 DEF Continue
<1>2. ASSUME HeldBy(p), pc[p] \in {"stat", "judge", "putback"}
      PROVE  StageEnds \/ Polled
  BY <1>2 DEF HeldBy
<1>3. ASSUME Start(p) \/ Write(p) \/ Leave(p) \/ ReleaseRead(p)
             \/ ReleaseUnlink(p) \/ Exit(p) \/ Crash(p)
      PROVE  StageEnds
  BY <1>3 DEF Start, Write, Leave, ReleaseRead, ReleaseUnlink, Exit, Crash,
              End, Gone, PCs, Holding
<1>4. ASSUME Create(p)
      PROVE  StageEnds \/ StepTaken
  BY <1>4 DEF Create
<1>5. ASSUME Read(p)
      PROVE  StageEnds \/ AttemptLost \/ StepTaken
  <2>1. CASE file = None
    BY <1>1, <1>5, <2>1 DEF Read
  <2>2. CASE file # None
    BY <1>5, <2>2 DEF Read
  <2> QED
    BY <2>1, <2>2
<1>13. ASSUME Stat(p)
       PROVE  StageEnds \/ Polled \/ AttemptLost \/ StepTaken
  <2>1. CASE Continue(p) /\ UNCHANGED poll
    BY <1>1, <1>13, <2>1 DEF Stat
  <2>2. CASE HeldBy(p)
    BY <1>2, <1>13, <2>2 DEF Stat
  <2>3. CASE (Goto(p, "judge") \/ Goto(p, "rename")) /\ UNCHANGED <<poll, attempt>>
    BY <1>13, <2>3 DEF Stat
  <2> QED
    BY <1>13, <2>1, <2>2, <2>3 DEF Stat
<1>14. ASSUME Judge(p)
       PROVE  StageEnds \/ Polled \/ StepTaken
  <2>1. CASE IsStaleLock(raw[p])
    BY <1>14, <2>1 DEF Judge
  <2>2. CASE ~IsStaleLock(raw[p])
    BY <1>2, <1>14, <2>2 DEF Judge
  <2> QED
    BY <2>1, <2>2
<1>6. ASSUME Rename(p)
      PROVE  StageEnds \/ AttemptLost \/ StepTaken
  BY <1>1, <1>6 DEF Rename
<1>7. ASSUME Check(p)
      PROVE  StageEnds \/ AttemptLost \/ StepTaken
  BY <1>1, <1>7 DEF Check
<1>8. ASSUME PutBack(p)
      PROVE  StageEnds \/ Polled \/ AttemptLost
  BY <1>1, <1>2, <1>8 DEF PutBack
<1>9. StageEnds \/ Polled \/ AttemptLost \/ StepTaken
  BY <1>3, <1>4, <1>5, <1>6, <1>7, <1>8, <1>13, <1>14 DEF Proceed
<1>10. /\ poll[p] \in Int /\ poll'[p] \in Int
       /\ attempt[p] \in Int /\ attempt'[p] \in Int
  OBVIOUS
<1> HIDE DEF Stage, StepsLeft, Goto, TypeOK
<1>11. /\ WorkLeft(p)[1] = Stage(p)
       /\ WorkLeft(p)[2] = WaitPolls - poll[p]
       /\ WorkLeft(p)[3] = Attempts - attempt[p]
       /\ WorkLeft(p)[4] = StepsLeft(p)
  BY DEF WorkLeft
<1>12. /\ WorkLeft(p)'[1] = Stage(p)'
       /\ WorkLeft(p)'[2] = WaitPolls - poll'[p]
       /\ WorkLeft(p)'[3] = Attempts - attempt'[p]
       /\ WorkLeft(p)'[4] = StepsLeft(p)'
  BY DEF WorkLeft
<1> QED
  BY <1>9, <1>10, <1>11, <1>12, FirstDifference

\* The others have what they had left.
LEMMA OthersStep ==
  ASSUME TypeOK, NEW p \in Procs, Proceed(p) \/ Crash(p),
         NEW q \in Procs, q # p
  PROVE  WorkLeft(q)' = WorkLeft(q)
<1>1. pc'[q] = pc[q] /\ poll'[q] = poll[q] /\ attempt'[q] = attempt[q]
  <2> USE DEF Goto, TypeOK
  <2>1. CASE Read(p) \/ Stat(p) \/ Judge(p) \/ Rename(p) \/ Check(p)
             \/ PutBack(p)
    BY <2>1 DEF Read, Stat, Judge, Rename, Check, PutBack, Continue, HeldBy
  <2> QED
    BY <2>1 DEF Proceed, Start, Create, Write, Leave, ReleaseRead,
                ReleaseUnlink, Exit, Crash, End
<1> QED
  BY <1>1 DEF WorkLeft, Stage, StepsLeft

Advances ==
  \E p \in Procs :
    /\ <<WorkLeft(p)', WorkLeft(p)>> \in Smaller
    /\ \A q \in Procs \ {p} : WorkLeft(q)' = WorkLeft(q)

(* The lock cannot keep its users busy for ever: each step of theirs       *)
(* leaves one process less to do and no other process more, so no two of   *)
(* them go on moving the file from under each other without end.           *)
THEOREM NoEndlessContention == Spec => [][Advances]_vars
<1>1. TypeOK => \A p \in Procs : WorkLeft(p) \in [1 .. 4 -> Nat]
  BY WorkLeftType
<1>2. /\ TypeOK /\ TypeOK'
      /\ \A p \in Procs : WorkLeft(p) \in [1 .. 4 -> Nat]
      /\ (\A p \in Procs : WorkLeft(p) \in [1 .. 4 -> Nat])'
      /\ [Next]_vars
      => [Advances]_vars
  BY OwnStep, OthersStep DEF Next, Advances
<1> QED
  BY <1>1, <1>2, TypeCorrect, PTL DEF Spec
================================================================================
