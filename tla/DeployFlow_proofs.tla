-------------------------- MODULE DeployFlow_proofs --------------------------
(***************************************************************************)
(* Theorems about DeployFlow, for any deployers, starts and number of      *)
(* runs: who a name is handed to, and that it has content by then.         *)
(***************************************************************************)
EXTENDS DeployFlow, FiniteSetTheorems, TLAPS

FlowPcs == {"signer", "preflight", "storage", "owner", "check", "register", "commit",
            "link", "handover", "transfer", "done", "failed", "refused"}
FlowRuns == [pc : FlowPcs, runs : 1..MaxDeployRuns,
             planned : {"none", "already-owned-by-recipient", "already-owned-by-us",
                        "register", "subname"},
             fresh : BOOLEAN]

BeforeRegistration == {"signer", "preflight", "storage", "owner", "check", "register",
                       "commit"}
PastStorage == {"owner", "check", "register", "commit", "link", "handover", "transfer"}

(* What a deploy has done by the time it is where it is.                   *)
HasDone(d) ==
    /\ run[d].pc \in BeforeRegistration => ~run[d].fresh
    /\ run[d].pc \in PastStorage => d \in storedBy
    /\ run[d].pc \in {"handover", "transfer"} =>
           run[d].fresh /\ flow.modes[d] = "transfer" /\ linked \in Deployers
    /\ run[d].pc = "transfer" => flow.kind = "name"
    /\ run[d].fresh /\ flow.kind = "name" /\ ~Faulty("rpc") => d \in registrants
    /\ run[d].fresh /\ run[d].pc = "done" /\ flow.modes[d] = "transfer" => flow.kind = "name"

(* A name that was registered has an owner from then on.                   *)
StaysOwned == flow.kind = "name" /\ registrants # {} => nameOwner # Nobody

(* Whoever commits to a name that is its signer's by now was committing to *)
(* it when it was registered.                                              *)
CommittersRegister ==
    \A d \in Deployers :
        run[d].pc = "commit" =>
            /\ flow.kind = "name"
            /\ ~Faulty("rpc") /\ nameOwner = Signer(d) => d \in registrants

FlowInv ==
    /\ FlowTypeOK
    /\ \A d \in Deployers : HasDone(d)
    /\ StaysOwned
    /\ CommittersRegister
    /\ HandedToRegistrant
    /\ HandedOverWithContent

(* Where a step leaves the deploy it is of: at c, and fresh or not.        *)
Leaves(d, c, f) ==
    /\ run' \in [Deployers -> FlowRuns]
    /\ run'[d].pc = c /\ run'[d].fresh = f
    /\ \A e \in Deployers \ {d} : run'[e] = run[e]

(* The accounts of the system are distinct.                                *)
LEMMA DistinctAccounts ==
  /\ Nobody # Worker /\ Nobody # Rival /\ Worker # Rival
  /\ Nobody \notin Deployers /\ Worker \notin Deployers /\ Rival \notin Deployers
<1>1. Cardinality({Nobody, Worker, Rival}) = 3
      /\ {Nobody, Worker, Rival} \intersect Deployers = {}
  BY FlowAssumption DEF FlowAssumption
<1>2. ASSUME NEW a, NEW b, {Nobody, Worker, Rival} = {a, b} PROVE FALSE
  <2>1. IsFiniteSet({a}) /\ Cardinality({a}) = 1
    BY FS_Singleton
  <2>2. {a} \union {b} = {a, b}
    OBVIOUS
  <2>3. Cardinality({a} \union {b}) \in {1, 2}
    BY <2>1, FS_AddElement
  <2> QED
    BY <1>1, <1>2, <2>2, <2>3
<1>3. Nobody # Worker
  BY <1>2
<1> QED
  BY <1>1, <1>2

(* A run that goes to another point, or a fresh one.                       *)
LEMMA StepLeaves ==
  ASSUME FlowTypeOK, NEW d \in Deployers, NEW c \in FlowPcs, Step(d, c)
  PROVE  Leaves(d, c, run[d].fresh)
BY DEF FlowTypeOK, FlowRuns, FlowPcs, Step, Leaves

(* Preflight's verdict sends a run on to storage.                          *)
LEMMA PlanLeaves ==
  ASSUME FlowTypeOK, NEW d \in Deployers,
         NEW a \in {"already-owned-by-recipient", "already-owned-by-us", "register", "subname"},
         Plan(d, a)
  PROVE  Leaves(d, "storage", run[d].fresh)
<1>1. run[d] \in FlowRuns
  BY DEF FlowTypeOK, FlowRuns, FlowPcs
<1>2. run' = [run EXCEPT ![d] = [[run[d] EXCEPT !.pc = "storage"] EXCEPT !.planned = a]]
  BY <1>1 DEF Plan, FlowTypeOK, FlowRuns
<1>3. [[run[d] EXCEPT !.pc = "storage"] EXCEPT !.planned = a] \in FlowRuns
  BY <1>1 DEF FlowRuns, FlowPcs
<1> QED
  BY <1>1, <1>2, <1>3 DEF FlowTypeOK, FlowRuns, FlowPcs, Leaves

(* A registration sends it on to the link step, fresh.                     *)
LEMMA FreshLeaves ==
  ASSUME FlowTypeOK, NEW d \in Deployers, Fresh(d)
  PROVE  Leaves(d, "link", TRUE)
<1>1. run[d] \in FlowRuns
  BY DEF FlowTypeOK, FlowRuns, FlowPcs
<1>2. run' = [run EXCEPT ![d] = [[run[d] EXCEPT !.pc = "link"] EXCEPT !.fresh = TRUE]]
  BY <1>1 DEF Fresh, FlowTypeOK, FlowRuns
<1>3. [[run[d] EXCEPT !.pc = "link"] EXCEPT !.fresh = TRUE] \in FlowRuns
  BY <1>1 DEF FlowRuns, FlowPcs
<1> QED
  BY <1>1, <1>2, <1>3 DEF FlowTypeOK, FlowRuns, FlowPcs, Leaves

(* A deploy that is run again starts over, and not fresh.                  *)
LEMMA AgainLeaves ==
  ASSUME FlowTypeOK, NEW d \in Deployers, DeployAgain(d)
  PROVE  Leaves(d, "signer", FALSE)
<1>1. run[d] \in FlowRuns /\ run[d].runs + 1 \in 1..MaxDeployRuns
  BY FlowAssumption DEF FlowAssumption, FlowTypeOK, FlowRuns, FlowPcs, DeployAgain
<1>2. run' = [run EXCEPT ![d] = [NewRun(run[d].runs + 1) EXCEPT !.pc = "signer"]]
  BY DEF DeployAgain, FlowTypeOK
<1>3. [NewRun(run[d].runs + 1) EXCEPT !.pc = "signer"] \in FlowRuns
  BY <1>1 DEF FlowRuns, FlowPcs, NewRun
<1> QED
  BY <1>1, <1>2, <1>3 DEF FlowTypeOK, FlowRuns, FlowPcs, Leaves, NewRun

(***************************************************************************)
(* What the steps of a deploy come to.                                     *)
(***************************************************************************)
Quiet(d) ==
    /\ FlowKeepsChain
    /\ \E c \in FlowPcs :
           /\ Leaves(d, c, run[d].fresh)
           /\ \/ c \in {"failed", "refused"}
              \/ run[d].pc = "signer" /\ c = "preflight"
              \/ run[d].pc = "preflight" /\ c = "storage"
              \/ run[d].pc = "check" /\ c \in {"link", "register"}
              \/ /\ run[d].pc = "register" /\ flow.kind = "name" /\ c = "commit"
                 /\ ~Faulty("rpc") => nameOwner = Nobody
              \/ run[d].pc = "handover" /\ flow.kind = "name" /\ c = "transfer"
              \/ /\ run[d].pc = "handover" /\ flow.kind = "name" /\ c = "done"
                 /\ nameOwner = TransferTo(d)

Reproves(d) ==
    /\ alias' = "proved"
    /\ UNCHANGED <<flow, nameOwner, linked, storedBy, run, registrants, claimed>>

Stores(d) ==
    /\ run[d].pc = "storage" /\ storedBy' = storedBy \union {d}
    /\ \E c \in {"owner", "check"} : Leaves(d, c, run[d].fresh)
    /\ UNCHANGED <<flow, nameOwner, linked, alias, registrants, claimed>>

Linking(d) ==
    /\ run[d].pc \in {"owner", "link"} /\ Links(d)
    /\ \/ Leaves(d, "failed", run[d].fresh)
       \/ run[d].pc = "owner" /\ Leaves(d, "done", run[d].fresh)
       \/ run[d].pc = "link" /\ Leaves(d, AfterLink(d), run[d].fresh)

Registering(d) ==
    /\ \/ flow.kind = "name" /\ run[d].pc = "commit" /\ nameOwner = Nobody
          /\ Registered(d, Committing(d))
       \/ flow.kind = "subname" /\ run[d].pc = "register" /\ Registered(d, {d})
    /\ Leaves(d, "link", TRUE) \/ Leaves(d, "failed", run[d].fresh)

Adopting(d) ==
    /\ run[d].pc = "commit" /\ nameOwner = Signer(d)
    /\ FlowKeepsChain
    /\ Leaves(d, "link", TRUE)

Transferring(d) ==
    /\ run[d].pc = "transfer" /\ nameOwner = Worker /\ nameOwner' = TransferTo(d)
    /\ Leaves(d, "done", run[d].fresh) \/ Leaves(d, "refused", run[d].fresh)
    /\ UNCHANGED <<flow, linked, storedBy, alias, registrants, claimed>>

Effect(d) ==
    \/ Quiet(d) \/ Reproves(d) \/ Stores(d) \/ Linking(d) \/ Registering(d)
    \/ Adopting(d) \/ Transferring(d)

(* Every step of a deploy is one of these.                                 *)
LEMMA StepsHaveEffects ==
  ASSUME FlowTypeOK, CommittersRegister, NEW d \in Deployers, DeployStep(d)
  PROVE  Effect(d)
<1>1. CASE \/ PreflightThrows(d) \/ PreflightUnfunded(d) \/ StoreFails(d)
           \/ OwnerLinkFails(d) \/ RegisterFails(d) \/ SetContenthashFails(d)
           \/ HandoverFails(d)
  <2>1. FlowKeepsChain /\ (Step(d, "failed") \/ Step(d, "refused"))
    BY <1>1 DEF PreflightThrows, PreflightUnfunded, StoreFails, OwnerLinkFails,
       RegisterFails, SetContenthashFails, HandoverFails, Fails, Refuse
  <2> QED
    BY <2>1, StepLeaves DEF Effect, Quiet, FlowPcs
<1>2. CASE ChooseSigner(d)
  <2>1. FlowKeepsChain /\ run[d].pc = "signer"
        /\ (Step(d, "preflight") \/ Step(d, "refused"))
    BY <1>2 DEF ChooseSigner, Refuse
  <2> QED
    BY <2>1, StepLeaves DEF Effect, Quiet, FlowPcs
<1>3. CASE PreflightOwned(d) \/ PreflightFree(d) \/ PreflightSubname(d)
  <2>1. /\ FlowKeepsChain /\ run[d].pc = "preflight"
        /\ \/ Step(d, "refused")
           \/ \E a \in {"already-owned-by-recipient", "already-owned-by-us",
                        "register", "subname"} : Plan(d, a)
    BY <1>3 DEF PreflightOwned, PreflightFree, PreflightSubname, Refuse
  <2> QED
    BY <2>1, StepLeaves, PlanLeaves DEF Effect, Quiet, FlowPcs
<1>4. CASE Reprove(d)
  BY <1>4 DEF Reprove, Effect, Reproves
<1>5. CASE StoreContent(d)
  <2>1. Step(d, "owner") \/ Step(d, "check")
    BY <1>5 DEF StoreContent
  <2>2. \E c \in {"owner", "check"} : Leaves(d, c, run[d].fresh)
    BY <2>1, StepLeaves DEF FlowPcs
  <2> QED
    BY <1>5, <2>2 DEF StoreContent, Effect, Stores
<1>6. CASE OwnerLinks(d) \/ SetContenthash(d)
  <2>1. AfterLink(d) \in FlowPcs /\ {"done", "failed"} \subseteq FlowPcs
    BY DEF AfterLink, FlowPcs
  <2> QED
    BY <1>6, <2>1, StepLeaves DEF OwnerLinks, SetContenthash, Fails, Effect, Linking
<1>7. CASE CheckOwnership(d) \/ CheckSubdomainOwnership(d)
  <2>1. /\ FlowKeepsChain /\ run[d].pc = "check"
        /\ Step(d, "link") \/ Step(d, "register") \/ Step(d, "failed")
    BY <1>7 DEF CheckOwnership, CheckSubdomainOwnership
  <2> QED
    BY <2>1, StepLeaves DEF Effect, Quiet, FlowPcs
<1>8. CASE Register(d) \/ RegisterSubdomain(d)
  <2>1. "failed" \in FlowPcs
    BY DEF FlowPcs
  <2>2. run[d].pc = "commit" => flow.kind = "name"
    BY DEF CommittersRegister
  <2> QED
    BY <1>8, <2>1, <2>2, StepLeaves, FreshLeaves
       DEF Register, RegisterSubdomain, Fails, Effect, Registering
<1>11. CASE EnsureNotRegistered(d)
  <2>1. /\ FlowKeepsChain /\ run[d].pc = "register" /\ flow.kind = "name"
        /\ Step(d, "commit") /\ (~Faulty("rpc") => nameOwner = Nobody)
    BY <1>11 DEF EnsureNotRegistered, OwnerReads
  <2> QED
    BY <2>1, StepLeaves DEF Effect, Quiet, FlowPcs
<1>12. CASE RegisteredBySibling(d)
  BY <1>12, FreshLeaves DEF RegisteredBySibling, Effect, Adopting
<1>9. CASE HandoverChecks(d)
  <2>1. /\ FlowKeepsChain /\ run[d].pc = "handover"
        /\ flow.kind = "name" \/ flow.kind = "subname"
    BY <1>9 DEF HandoverChecks, FlowTypeOK, FlowStart
  <2>2. \/ Step(d, "refused")
        \/ flow.kind = "name" /\ nameOwner = TransferTo(d) /\ Step(d, "done")
        \/ flow.kind = "name" /\ Step(d, "transfer")
    BY <1>9, <2>1 DEF HandoverChecks
  <2> QED
    BY <2>1, <2>2, StepLeaves DEF Effect, Quiet, FlowPcs
<1>10. CASE TransferName(d)
  <2>1. {"done", "refused"} \subseteq FlowPcs
    BY DEF FlowPcs
  <2> QED
    BY <1>10, <2>1, StepLeaves DEF TransferName, Refuse, Effect, Transferring
<1> QED
  BY <1>1, <1>2, <1>3, <1>4, <1>5, <1>6, <1>7, <1>8, <1>9, <1>10,
     <1>11, <1>12 DEF DeployStep

(* The effects keep the types.                                             *)
LEMMA EffectTyped ==
  ASSUME FlowTypeOK, NEW d \in Deployers, Effect(d)
  PROVE  FlowTypeOK' /\ flow' = flow
<1> USE DEF FlowTypeOK
<1>1. run' \in [Deployers -> FlowRuns]
  BY DEF Effect, Quiet, Reproves, Stores, Linking, Registering, Adopting, Transferring,
     Leaves, FlowRuns, FlowPcs
<1>2. Signer(d) \in Accounts /\ TransferTo(d) \in Accounts
  BY DEF Signer, TransferTo, Accounts
<1>3. CASE Quiet(d)
  BY <1>1, <1>3 DEF Quiet, FlowKeepsChain, FlowRuns, FlowPcs
<1>4. CASE Reproves(d)
  BY <1>1, <1>4 DEF Reproves, FlowRuns, FlowPcs
<1>5. CASE Stores(d)
  BY <1>1, <1>5 DEF Stores, FlowRuns, FlowPcs
<1>6. CASE Linking(d)
  BY <1>1, <1>6 DEF Linking, Links, FlowRuns, FlowPcs
<1>7. CASE Registering(d)
  BY <1>1, <1>2, <1>7 DEF Registering, Registered, Committing, FlowRuns, FlowPcs
<1>8. CASE Transferring(d)
  BY <1>1, <1>2, <1>8 DEF Transferring, FlowRuns, FlowPcs
<1>9. CASE Adopting(d)
  BY <1>1, <1>9 DEF Adopting, FlowKeepsChain, FlowRuns, FlowPcs
<1> QED
  BY <1>3, <1>4, <1>5, <1>6, <1>7, <1>8, <1>9 DEF Effect

(* A deployer who signs by phone, or as the worker, receives no handover.  *)
LEMMA WhoSigns ==
  ASSUME FlowTypeOK, NEW d \in Deployers
  PROVE  /\ Signer(d) # Nobody /\ Signer(d) \in Accounts
         /\ \A e \in Deployers : Signer(d) = e => e = d /\ flow.modes[e] = "session"
         /\ flow.modes[d] = "transfer" => TransferTo(d) = d
BY DistinctAccounts DEF Signer, TransferTo, Accounts

(* What the deploy has done, after its own step.                           *)
LEMMA MoverHasDone ==
  ASSUME FlowInv, NEW d \in Deployers, Effect(d)
  PROVE  HasDone(d)'
<1>0. /\ FlowTypeOK /\ HasDone(d) /\ flow' = flow /\ d # Nobody
      /\ run[d].pc \in FlowPcs /\ run[d].fresh \in BOOLEAN
  BY EffectTyped, DistinctAccounts DEF FlowInv, FlowTypeOK, FlowPcs
<1> USE DEF BeforeRegistration, PastStorage
<1>1. CASE Quiet(d)
  BY <1>0, <1>1 DEF Quiet, FlowKeepsChain, Leaves, HasDone, Faulty
<1>2. CASE Reproves(d)
  BY <1>0, <1>2 DEF Reproves, HasDone, Faulty
<1>3. CASE Stores(d)
  BY <1>0, <1>3 DEF Stores, Leaves, HasDone, Faulty
<1>4. CASE Linking(d)
  <2>1. /\ linked' = d /\ storedBy' = storedBy /\ registrants' = registrants
        /\ d \in storedBy /\ run'[d].fresh = run[d].fresh
    BY <1>0, <1>4 DEF Linking, Links, Leaves, HasDone
  <2>2. \/ run'[d].pc = "failed"
        \/ run'[d].pc = "done" /\ (~run[d].fresh \/ flow.modes[d] # "transfer")
        \/ run'[d].pc = "handover" /\ run[d].fresh /\ flow.modes[d] = "transfer"
    <3>1. run[d].pc = "owner" => ~run[d].fresh
      BY <1>0 DEF HasDone
    <3>2. \/ AfterLink(d) = "done" /\ (~run[d].fresh \/ flow.modes[d] # "transfer")
          \/ AfterLink(d) = "handover" /\ run[d].fresh /\ flow.modes[d] = "transfer"
      BY <1>0, DistinctAccounts DEF AfterLink, TransferTo
    <3> QED
      BY <1>4, <3>1, <3>2 DEF Linking, Leaves
  <2> QED
    BY <1>0, <2>1, <2>2 DEF HasDone, Faulty
<1>5. CASE Registering(d)
  <2>1. d \in storedBy /\ storedBy' = storedBy /\ linked' = linked
    BY <1>0, <1>5 DEF Registering, Registered, HasDone
  <2>2. d \in registrants'
    BY <1>5 DEF Registering, Registered, Committing
  <2>3. run'[d].pc = "link" \/ (run'[d].pc = "failed" /\ run'[d].fresh = run[d].fresh)
    BY <1>5 DEF Registering, Leaves
  <2> QED
    BY <1>0, <2>1, <2>2, <2>3 DEF HasDone
<1>6. CASE Transferring(d)
  BY <1>0, <1>6 DEF Transferring, Leaves, HasDone, Faulty
<1>7. CASE Adopting(d)
  <2>1. ~Faulty("rpc") => d \in registrants
    BY <1>7 DEF FlowInv, CommittersRegister, Adopting
  <2> QED
    BY <1>0, <1>7, <2>1 DEF Adopting, FlowKeepsChain, Leaves, HasDone, Faulty
<1> QED
  BY <1>1, <1>2, <1>3, <1>4, <1>5, <1>6, <1>7 DEF Effect

(* What stays of what others have done: content, links, and registrations. *)
LEMMA ChainKeeps ==
  ASSUME FlowInv, NEW d \in Deployers, Effect(d)
  PROVE  /\ storedBy \subseteq storedBy' /\ claimed' = claimed
         /\ linked' = linked \/ (linked' = d /\ d \in storedBy)
         /\ flow.kind = "name" =>
                registrants' = registrants \/ registrants = {}
<1>1. HasDone(d) /\ StaysOwned
  BY DEF FlowInv
<1> QED
  BY <1>1 DEF Effect, Quiet, FlowKeepsChain, Reproves, Stores, Linking, Links,
     Registering, Registered, Adopting, Transferring, HasDone, PastStorage, StaysOwned

(* No other deploy loses anything it has done.                             *)
LEMMA OthersHaveDone ==
  ASSUME FlowInv, NEW d \in Deployers, Effect(d), NEW e \in Deployers \ {d}
  PROVE  HasDone(e)'
<1>1. HasDone(e) /\ flow' = flow /\ e # Nobody
  BY EffectTyped, DistinctAccounts DEF FlowInv
<1>2. run'[e] = run[e]
  BY DEF Effect, Quiet, Reproves, Stores, Linking, Registering, Adopting, Transferring,
     Leaves
<1>3. linked \in Deployers => linked' \in Deployers
  BY ChainKeeps
<1>4. flow.kind = "name" /\ e \in registrants => e \in registrants'
  BY <1>1, ChainKeeps
<1>5. e \in storedBy => e \in storedBy'
  BY ChainKeeps
<1> QED
  BY <1>1, <1>2, <1>3, <1>4, <1>5 DEF HasDone, Faulty

(* Who owns the name after a step.                                         *)
LEMMA OwnerAfter ==
  ASSUME FlowInv, NEW d \in Deployers, Effect(d)
  PROVE  \/ nameOwner' = nameOwner /\ (registrants' = registrants)
         \/ /\ nameOwner' = Signer(d)
            /\ flow.kind = "name" => nameOwner = Nobody /\ registrants' = Committing(d)
            /\ linked' = linked
         \/ /\ nameOwner = Worker /\ nameOwner' = d
            /\ ~Faulty("rpc") => d \in registrants
            /\ flow.kind = "name" /\ registrants' = registrants
            /\ linked' = linked /\ linked # Nobody /\ flow.modes[d] = "transfer"
<1>1. HasDone(d) /\ FlowTypeOK
  BY DEF FlowInv
<1>2. CASE Quiet(d) \/ Reproves(d) \/ Stores(d) \/ Linking(d) \/ Adopting(d)
  BY <1>2 DEF Quiet, FlowKeepsChain, Reproves, Stores, Linking, Links, Adopting
<1>3. CASE Registering(d)
  BY <1>3 DEF Registering, Registered
<1>4. CASE Transferring(d)
  <2>1. run[d].fresh /\ flow.modes[d] = "transfer" /\ linked \in Deployers
        /\ flow.kind = "name" /\ (~Faulty("rpc") => d \in registrants)
    BY <1>1, <1>4 DEF Transferring, HasDone
  <2>2. TransferTo(d) = d /\ linked # Nobody
    BY <1>1, <2>1, WhoSigns, DistinctAccounts
  <2> QED
    BY <1>4, <2>1, <2>2 DEF Transferring
<1> QED
  BY <1>2, <1>3, <1>4 DEF Effect

(* Nobody gets ahead of the others who commit to the same name.            *)
LEMMA EffectCommitters ==
  ASSUME FlowInv, NEW d \in Deployers, Effect(d)
  PROVE  CommittersRegister'
<1>0. /\ FlowTypeOK /\ CommittersRegister /\ StaysOwned /\ flow' = flow
      /\ \A e \in Deployers : Signer(e)' = Signer(e)
  BY EffectTyped DEF FlowInv, Signer
<1> SUFFICES ASSUME NEW e \in Deployers, run'[e].pc = "commit"
             PROVE  /\ flow.kind = "name"
                    /\ ~Faulty("rpc") /\ nameOwner' = Signer(e) => e \in registrants'
  BY <1>0 DEF CommittersRegister, Faulty
<1>1. CASE run[e].pc = "commit"
  <2>1. flow.kind = "name" /\ (~Faulty("rpc") /\ nameOwner = Signer(e) => e \in registrants)
    BY <1>0, <1>1 DEF CommittersRegister
  <2>2. CASE nameOwner' = nameOwner /\ registrants' = registrants
    BY <2>1, <2>2
  <2>3. CASE nameOwner' = Signer(d) /\ registrants' = Committing(d)
    BY <1>1, <2>1, <2>3 DEF Committing
  <2>4. CASE nameOwner' = d /\ flow.modes[d] = "transfer"
    BY <1>0, <2>1, <2>4, WhoSigns
  <2> QED
    BY <2>1, <2>2, <2>3, <2>4, OwnerAfter
<1>2. CASE run[e].pc # "commit"
  <2>1. /\ run[e].pc = "register" /\ flow.kind = "name"
        /\ ~Faulty("rpc") => nameOwner' = Nobody
    <3>1. AfterLink(d) # "commit"
      BY DEF AfterLink
    <3> QED
      BY <1>2, <3>1 DEF Effect, Quiet, Reproves, Stores, Linking, Registering, Adopting,
         Transferring, Leaves, FlowKeepsChain
  <2> QED
    BY <1>0, <2>1, WhoSigns
<1> QED
  BY <1>1, <1>2

(* A step of a deploy hands the name to nobody but its registrant, and     *)
(* with content.                                                           *)
LEMMA EffectHandsOver ==
  ASSUME FlowInv, NEW d \in Deployers, Effect(d)
  PROVE  StaysOwned' /\ HandedToRegistrant' /\ HandedOverWithContent'
<1>0. /\ FlowTypeOK /\ HasDone(d) /\ StaysOwned
      /\ HandedToRegistrant /\ HandedOverWithContent /\ flow' = flow
      /\ claimed' = claimed
  BY EffectTyped, ChainKeeps DEF FlowInv
<1>1. StaysOwned'
  BY <1>0, OwnerAfter, WhoSigns, DistinctAccounts DEF StaysOwned
<1>2. HandedToRegistrant'
  <2> SUFFICES ASSUME NEW e \in Deployers, flow.modes[e] = "transfer"
               PROVE  /\ (flow.kind = "name" /\ ~Faulty("rpc") /\ nameOwner' = e) =>
                             flow.owner = e \/ e \in registrants' \/ e \in claimed
                      /\ (run'[e].pc = "done" /\ run'[e].fresh) => nameOwner' = e
    BY <1>0 DEF HandedToRegistrant, Faulty
  <2>0. /\ (flow.kind = "name" /\ ~Faulty("rpc") /\ nameOwner = e) =>
               flow.owner = e \/ e \in registrants \/ e \in claimed
        /\ (run[e].pc = "done" /\ run[e].fresh) => nameOwner = e
        /\ e # Nobody /\ e # Worker /\ Signer(d) # e /\ HasDone(e)
    BY <1>0, WhoSigns, DistinctAccounts DEF HandedToRegistrant, FlowInv
  <2>1. ASSUME flow.kind = "name", ~Faulty("rpc"), nameOwner' = e
        PROVE  flow.owner = e \/ e \in registrants' \/ e \in claimed
    BY <2>0, <2>1, OwnerAfter
  <2>2. ASSUME run'[e].pc = "done", run'[e].fresh
        PROVE  nameOwner' = e
    <3>1. flow.kind = "name"
      BY <1>0, <2>2, MoverHasDone, OthersHaveDone DEF HasDone
    <3>2. CASE e # d
      <4>1. run'[e] = run[e]
        BY <3>2 DEF Effect, Quiet, Reproves, Stores, Linking, Registering, Adopting,
           Transferring, Leaves
      <4>2. nameOwner = e
        BY <2>0, <2>2, <4>1
      <4> QED
        BY <2>0, <3>1, <4>2, OwnerAfter
    <3>3. CASE e = d
      <4>1. TransferTo(d) = d
        BY <1>0, <3>3, WhoSigns
      <4>2. CASE Quiet(d)
        <5>1. nameOwner' = nameOwner
          BY <4>2 DEF Quiet, FlowKeepsChain
        <5>2. run[d].pc = "handover" /\ nameOwner = TransferTo(d)
          BY <2>2, <3>3, <4>2 DEF Quiet, Leaves
        <5> QED
          BY <3>3, <4>1, <5>1, <5>2
      <4>3. CASE Reproves(d)
        BY <2>0, <2>2, <3>3, <4>3 DEF Reproves
      <4>4. CASE Stores(d) \/ Registering(d) \/ Adopting(d)
        <5>1. run'[d].pc \in {"owner", "check", "link", "failed"}
          BY <4>4 DEF Stores, Registering, Adopting, Leaves
        <5> QED
          BY <2>2, <3>3, <5>1
      <4>5. CASE Linking(d)
        <5>1. run[d].pc = "owner" => ~run[d].fresh
          BY <1>0 DEF HasDone, BeforeRegistration
        <5>2. run[d].fresh => AfterLink(d) = "handover"
          BY <1>0, <3>3, <4>1, <2>0 DEF AfterLink
        <5> QED
          BY <2>2, <3>3, <4>5, <5>1, <5>2 DEF Linking, Leaves
      <4>6. CASE Transferring(d)
        BY <3>3, <4>1, <4>6 DEF Transferring
      <4> QED
        BY <4>2, <4>3, <4>4, <4>5, <4>6 DEF Effect
    <3> QED
      BY <3>2, <3>3
  <2> QED
    BY <2>1, <2>2
<1>3. HandedOverWithContent'
  <2>1. linked' # Nobody => linked' \in storedBy'
    BY <1>0, ChainKeeps DEF HandedOverWithContent
  <2>2. ASSUME NEW e \in Deployers, nameOwner' = e, flow.owner # e, e \notin claimed
        PROVE  linked' # Nobody \/ flow.modes[e] = "session"
    <3>1. linked # Nobody => linked' # Nobody
      BY ChainKeeps, DistinctAccounts
    <3>2. nameOwner = e => linked # Nobody \/ flow.modes[e] = "session"
      BY <1>0, <2>2 DEF HandedOverWithContent
    <3> QED
      BY <1>0, <2>2, <3>1, <3>2, OwnerAfter, WhoSigns
  <2> QED
    BY <1>0, <2>1, <2>2 DEF HandedOverWithContent
<1> QED
  BY <1>1, <1>2, <1>3

(* The invariant holds at the start.                                       *)
LEMMA FlowInvInit == FlowInit => FlowInv
<1> SUFFICES ASSUME NEW start \in FlowStarts, FlowBegin(start)
             PROVE  FlowInv
  BY DEF FlowInit
<1>1. start \in FlowStart /\ 1 \in 1..MaxDeployRuns
  BY FlowAssumption DEF FlowAssumption
<1>2. \A d \in Deployers : /\ run[d] = [NewRun(1) EXCEPT !.pc = "signer"]
                           /\ run[d].pc = "signer" /\ run[d].fresh = FALSE
  BY DEF FlowBegin, NewRun
<1>3. FlowTypeOK
  BY <1>1 DEF FlowBegin, FlowTypeOK, NewRun, FlowStart
<1>4. \A d \in Deployers : HasDone(d)
  BY <1>2 DEF HasDone, PastStorage
<1>5. StaysOwned /\ CommittersRegister /\ HandedToRegistrant /\ HandedOverWithContent
  BY <1>2 DEF FlowBegin, StaysOwned, CommittersRegister, HandedToRegistrant,
     HandedOverWithContent
<1> QED
  BY <1>3, <1>4, <1>5 DEF FlowInv

(* No step breaks the invariant.                                           *)
LEMMA FlowInvStep ==
  ASSUME FlowInv, [FlowNext]_FlowVars
  PROVE  FlowInv'
<1>0. FlowTypeOK /\ StaysOwned /\ CommittersRegister /\ HandedToRegistrant
      /\ HandedOverWithContent /\ \A e \in Deployers : HasDone(e)
  BY DEF FlowInv
<1>1. CASE UNCHANGED FlowVars
  BY <1>0, <1>1 DEF FlowVars, FlowInv, FlowTypeOK, HasDone, StaysOwned, HandedToRegistrant,
     CommittersRegister, HandedOverWithContent, Faulty, Signer
<1>2. ASSUME NEW d \in Deployers, DeployStep(d)
      PROVE  FlowInv'
  <2>1. Effect(d)
    BY <1>0, <1>2, StepsHaveEffects
  <2> QED
    BY <1>0, <2>1, EffectTyped, MoverHasDone, OthersHaveDone, EffectCommitters,
       EffectHandsOver DEF FlowInv
<1>3. ASSUME NEW d \in Deployers, DeployAgain(d)
      PROVE  FlowInv'
  <2>1. Leaves(d, "signer", FALSE) /\ FlowKeepsChain
    BY <1>0, <1>3, AgainLeaves DEF DeployAgain
  <2>2. FlowTypeOK'
    BY <1>0, <2>1 DEF FlowTypeOK, FlowKeepsChain, Leaves, FlowRuns, FlowPcs
  <2>3. ASSUME NEW e \in Deployers PROVE HasDone(e)'
    <3>1. e # d => run'[e] = run[e]
      BY <2>1 DEF Leaves
    <3>2. e = d => run'[e].pc = "signer" /\ run'[e].fresh = FALSE
      BY <2>1 DEF Leaves
    <3>3. HasDone(e)
      BY <1>0
    <3> QED
      BY <2>1, <3>1, <3>2, <3>3 DEF HasDone, FlowKeepsChain, PastStorage, Faulty
  <2>4. StaysOwned' /\ HandedOverWithContent'
    BY <1>0, <2>1 DEF FlowKeepsChain, StaysOwned, HandedOverWithContent
  <2>5. HandedToRegistrant'
    <3>1. \A e \in Deployers : run'[e].pc = "done" /\ run'[e].fresh =>
                                  run[e].pc = "done" /\ run[e].fresh
      BY <2>1 DEF Leaves
    <3> QED
      BY <1>0, <2>1, <3>1 DEF FlowKeepsChain, HandedToRegistrant, Faulty
  <2>6. CommittersRegister'
    <3>1. \A e \in Deployers : run'[e].pc = "commit" => run[e].pc = "commit"
      BY <2>1 DEF Leaves
    <3> QED
      BY <1>0, <2>1, <3>1 DEF FlowKeepsChain, CommittersRegister, Faulty, Signer
  <2> QED
    BY <2>2, <2>3, <2>4, <2>5, <2>6 DEF FlowInv
<1>4. ASSUME NEW d \in Deployers, RunTransfer(d)
      PROVE  FlowInv'
  <2>1. /\ nameOwner' = d /\ claimed' = claimed \union {d} /\ d # Nobody
        /\ nameOwner # d /\ flow.modes[d] = "transfer"
        /\ flow.kind = "name" => nameOwner = Worker
        /\ UNCHANGED <<flow, linked, storedBy, alias, run, registrants>>
    BY <1>0, <1>4, DistinctAccounts DEF RunTransfer, FlowTypeOK, FlowStart
  <2>2. FlowTypeOK'
    BY <1>0, <2>1 DEF FlowTypeOK, Accounts
  <2>3. \A e \in Deployers : HasDone(e)'
    BY <1>0, <2>1 DEF HasDone, Faulty
  <2>4. StaysOwned' /\ HandedOverWithContent'
    BY <1>0, <2>1 DEF StaysOwned, HandedOverWithContent
  <2>5. HandedToRegistrant'
    <3>1. ASSUME NEW e \in Deployers, flow.modes[e] = "transfer",
                 run[e].pc = "done", run[e].fresh
          PROVE  FALSE
      <4>1. nameOwner = e /\ flow.kind = "name"
        BY <1>0, <3>1 DEF HandedToRegistrant, HasDone
      <4> QED
        BY <2>1, <4>1, DistinctAccounts
    <3> QED
      BY <1>0, <2>1, <3>1 DEF HandedToRegistrant, Faulty
  <2>6. CommittersRegister'
    BY <1>0, <2>1, WhoSigns DEF CommittersRegister, Faulty, Signer
  <2> QED
    BY <2>2, <2>3, <2>4, <2>5, <2>6 DEF FlowInv
<1>5. CASE RivalRegisters
  <2>1. /\ nameOwner' = Rival /\ flow.kind = "name" /\ nameOwner = Nobody
        /\ UNCHANGED <<flow, linked, storedBy, alias, run, registrants, claimed>>
    BY <1>5 DEF RivalRegisters
  <2>2. FlowTypeOK'
    BY <1>0, <2>1 DEF FlowTypeOK, Accounts
  <2>3. \A e \in Deployers : HasDone(e)'
    BY <1>0, <2>1 DEF HasDone, Faulty
  <2>4. StaysOwned' /\ HandedOverWithContent' /\ HandedToRegistrant'
    BY <1>0, <2>1, DistinctAccounts
       DEF StaysOwned, HandedOverWithContent, HandedToRegistrant, Faulty
  <2>5. CommittersRegister'
    BY <1>0, <2>1, DistinctAccounts DEF CommittersRegister, Faulty, Signer
  <2> QED
    BY <2>2, <2>3, <2>4, <2>5 DEF FlowInv
<1> QED
  BY <1>1, <1>2, <1>3, <1>4, <1>5 DEF FlowNext

(* Types, what a deploy has done by the time it is where it is, and what   *)
(* the name shows and who owns it: the inductive invariant.                *)
THEOREM FlowInvariant == FlowSpec => []FlowInv
BY FlowInvInit, FlowInvStep, PTL DEF FlowSpec

(* Every variable of the deploys keeps its type.                           *)
THEOREM FlowTypeCorrect == FlowSpec => []FlowTypeOK
<1>1. FlowInv => FlowTypeOK
  BY DEF FlowInv
<1> QED
  BY <1>1, FlowInvariant, PTL

(* deploy(), #928: as long as reads do not fail, a name goes only to a     *)
(* deployer who was committing to it when it was registered; and a deploy  *)
(* that counts it as its own registration and succeeds has handed it over. *)
THEOREM HandedToRegistrantHolds == FlowSpec => []HandedToRegistrant
<1>1. FlowInv => HandedToRegistrant
  BY DEF FlowInv
<1> QED
  BY <1>1, FlowInvariant, PTL

(* deploy(): a name shows only stored content, and reaches the deployer it *)
(* is handed to with content.                                              *)
THEOREM HandedOverWithContentHolds == FlowSpec => []HandedOverWithContent
<1>1. FlowInv => HandedOverWithContent
  BY DEF FlowInv
<1> QED
  BY <1>1, FlowInvariant, PTL
=============================================================================
