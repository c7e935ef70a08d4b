------------------------------ MODULE DeployFlow ------------------------------
(***************************************************************************)
(* deploy(): from the choice of the signer over the DotNS preflight and    *)
(* the storage phase to linking the content and handing the name over, by  *)
(* deployers on different machines who deploy the same name; and the       *)
(* transfer command, with which a handover that failed is made good.       *)
(*                                                                         *)
(* In transfer mode every deployer signs as the same local worker account  *)
(* (the public dev account by default) and owns the name through the       *)
(* account of their own session.                                           *)
(***************************************************************************)
EXTENDS Naturals, FiniteSets

CONSTANTS
    Deployers,      \* a deployer; also their session account, and their content
    FlowStarts,     \* what a behaviour starts from: records of FlowStart
    MaxDeployRuns   \* bound: how often one deployer runs deploy

CONSTANTS Nobody, Worker, Rival

\* transfer: a local worker signs, the session's account receives the name;
\* session: the phone signs; worker: a mnemonic signs and nobody receives it.
DeployModes == {"transfer", "session", "worker"}

\* rpc: an ownership read fails; rival: another account registers the name; lost: a
\* transaction is included although its submission failed; fail: a step fails.
FlowFaults == {"rpc", "rival", "lost", "fail"}
Accounts == {Nobody, Worker, Rival} \union Deployers

\* kind: a top-level name, or a subname whose parent `authorised` may write;
\* registrable: PopRules admits the label; alias: the signer's personhood.
FlowStart ==
    [kind : {"name", "subname"}, modes : [Deployers -> DeployModes],
     owner : Accounts, authorised : SUBSET Accounts, registrable : BOOLEAN,
     alias : {"proved", "stale", "none"}, faults : SUBSET FlowFaults]

ASSUME FlowAssumption ==
    /\ IsFiniteSet(Deployers)
    /\ Cardinality({Nobody, Worker, Rival}) = 3
    /\ {Nobody, Worker, Rival} \intersect Deployers = {}
    /\ FlowStarts \subseteq FlowStart
    /\ MaxDeployRuns \in Nat \ {0}

VARIABLES
    flow,       \* the start: kind, modes, authorised, registrable, faults
    nameOwner,  \* owner of the name in the registrar, of the subname in the registry
    linked,     \* whose content the name's contenthash names
    storedBy,   \* deployers whose content is stored on Bulletin
    alias,      \* state of the signer's alias binding
    run,        \* the deploy each deployer is in
    registrants, \* history: whose deploys were registering the name when it was registered
    claimed     \* history: deployers whose transfer command took it

FlowVars == <<flow, nameOwner, linked, storedBy, alias, run, registrants, claimed>>

Faulty(kind) == kind \in flow.faults
Signer(d) == IF flow.modes[d] = "session" THEN d ELSE Worker
TransferTo(d) == IF flow.modes[d] = "transfer" THEN d ELSE Nobody

NewRun(n) == [pc |-> "preflight", runs |-> n, planned |-> "none", fresh |-> FALSE]

FlowBegin(start) ==
    /\ flow = start
    /\ nameOwner = start.owner
    /\ linked = Nobody
    /\ storedBy = {}
    /\ alias = start.alias
    /\ run = [d \in Deployers |-> [NewRun(1) EXCEPT !.pc = "signer"]]
    /\ registrants = {}
    /\ claimed = {}

FlowInit == \E start \in FlowStarts : FlowBegin(start)

Step(d, pc) == run' = [run EXCEPT ![d].pc = pc]

\* A NonRetryableError refuses; any other error fails, and is run again.
Refuse(d) == Step(d, "refused")
Fails(d) == Step(d, "failed")
FlowKeepsChain == UNCHANGED <<flow, nameOwner, linked, storedBy, alias, registrants,
                              claimed>>

\* checkOwnership and checkSubdomainOwnership read a failure as "owned by nobody".
OwnerReads == {nameOwner} \union (IF Faulty("rpc") THEN {Nobody} ELSE {})

(***************************************************************************)
(* Before anything is stored.                                              *)
(***************************************************************************)

\* A session on disk that does not load, a default worker off the testnet, or a
\* statement account without allowance end the deploy before any write.
ChooseSigner(d) ==
    /\ run[d].pc = "signer"
    /\ \/ Step(d, "preflight")
       \/ flow.modes[d] # "worker" /\ Faulty("fail") /\ Refuse(d)
    /\ FlowKeepsChain

Plan(d, action) == run' = [run EXCEPT ![d].pc = "storage", ![d].planned = action]

\* connect() (mapping, protocol, TLD) or a read that must complete fails.
PreflightThrows(d) ==
    /\ run[d].pc = "preflight" /\ Faulty("fail")
    /\ Fails(d)
    /\ FlowKeepsChain

\* gateOnFeeBalance: a signer that cannot be funded is refused.
PreflightUnfunded(d) ==
    /\ run[d].pc = "preflight" /\ flow.kind = "name" /\ Faulty("fail")
    /\ Refuse(d)
    /\ FlowKeepsChain

PreflightOwned(d) ==
    /\ run[d].pc = "preflight" /\ flow.kind = "name"
    /\ \E owner \in OwnerReads \ {Nobody} :
           IF owner = TransferTo(d)   THEN Plan(d, "already-owned-by-recipient")
           ELSE IF owner # Signer(d)  THEN Refuse(d)
                                      ELSE Plan(d, "already-owned-by-us")
    /\ FlowKeepsChain

\* A free name is registered if the label and the signer's personhood allow it.
PreflightFree(d) ==
    /\ run[d].pc = "preflight" /\ flow.kind = "name"
    /\ Nobody \in OwnerReads
    /\ IF flow.registrable /\ alias = "proved" THEN Plan(d, "register") ELSE Refuse(d)
    /\ FlowKeepsChain

\* A stale alias of a local signer is reproved, once, and preflight starts over.
Reprove(d) ==
    /\ run[d].pc = "preflight" /\ flow.kind = "name"
    /\ Nobody \in OwnerReads /\ flow.registrable
    /\ alias = "stale" /\ flow.modes[d] = "worker"
    /\ alias' = "proved"
    /\ UNCHANGED <<flow, nameOwner, linked, storedBy, run, registrants, claimed>>

\* A subname goes on if it is the signer's, or the registry lets the signer write
\* under the parent; who else owns it is not looked at.
PreflightSubname(d) ==
    /\ run[d].pc = "preflight" /\ flow.kind = "subname"
    /\ \E owner \in OwnerReads :
           IF owner = Signer(d) \/ Signer(d) \in flow.authorised
             THEN Plan(d, "subname") ELSE Refuse(d)
    /\ FlowKeepsChain

StoreContent(d) ==
    /\ run[d].pc = "storage"
    /\ storedBy' = storedBy \union {d}
    /\ Step(d, IF run[d].planned = "already-owned-by-recipient" THEN "owner" ELSE "check")
    /\ UNCHANGED <<flow, nameOwner, linked, alias, registrants, claimed>>

StoreFails(d) ==
    /\ run[d].pc = "storage" /\ Faulty("fail")
    /\ Fails(d) \/ Refuse(d)
    /\ FlowKeepsChain

(***************************************************************************)
(* The DotNS phase, on a connection of its own. A transaction takes effect *)
(* and the submission resolves, or fails; a lost one does both.            *)
(***************************************************************************)
Registered(d, together) ==
    /\ nameOwner' = Signer(d)
    /\ registrants' = together
    /\ UNCHANGED <<flow, linked, storedBy, alias, claimed>>

Links(d) ==
    /\ linked' = d
    /\ UNCHANGED <<flow, nameOwner, storedBy, alias, registrants, claimed>>

\* The recipient owns the name: its session signs, and nothing is handed over.
OwnerLinks(d) ==
    /\ run[d].pc = "owner" /\ nameOwner = d
    /\ Links(d)
    /\ Step(d, "done") \/ (Faulty("lost") /\ Fails(d))

OwnerLinkFails(d) ==
    /\ run[d].pc = "owner" /\ (Faulty("fail") \/ nameOwner # d)
    /\ Fails(d)
    /\ FlowKeepsChain

CheckOwnership(d) ==
    /\ run[d].pc = "check" /\ flow.kind = "name"
    /\ \E owner \in OwnerReads :
           Step(d, IF owner = Signer(d) THEN "link" ELSE "register")
    /\ FlowKeepsChain

CheckSubdomainOwnership(d) ==
    /\ run[d].pc = "check" /\ flow.kind = "subname"
    /\ \E owner \in OwnerReads :
           Step(d, IF owner = Signer(d) THEN "link"
                   ELSE IF owner = Nobody /\ Signer(d) \in flow.authorised
                          THEN "register" ELSE "failed")
    /\ FlowKeepsChain

Fresh(d) == run' = [run EXCEPT ![d].pc = "link", ![d].fresh = TRUE]

\* register() asks who owns the name once more before it commits, and takes a
\* read that fails for "available".
EnsureNotRegistered(d) ==
    /\ run[d].pc = "register" /\ flow.kind = "name"
    /\ Nobody \in OwnerReads /\ flow.registrable /\ alias = "proved"
    /\ Step(d, "commit")
    /\ FlowKeepsChain

\* Those who commit to the name as the account that d signs as.
Committing(d) == {e \in Deployers : run[e].pc = "commit" /\ Signer(e) = Signer(d)}

\* commitAndRegister and verifyOwnership: the controller registers a free name, and
\* nothing else; a read-back that fails fails the registration.
Register(d) ==
    /\ run[d].pc = "commit" /\ nameOwner = Nobody
    /\ Registered(d, Committing(d))
    /\ Fresh(d) \/ (flow.faults \intersect {"lost", "rpc"} # {} /\ Fails(d))

\* The name is the signer's by now, whoever registered it: the lock came free for
\* it, or the read-back after register() finds the owner it expects.
RegisteredBySibling(d) ==
    /\ run[d].pc = "commit" /\ nameOwner = Signer(d)
    /\ Fresh(d)
    /\ FlowKeepsChain

\* setSubnodeOwner asks who owns the parent, not who owns the subname.
RegisterSubdomain(d) ==
    /\ run[d].pc = "register" /\ flow.kind = "subname"
    /\ Signer(d) \in flow.authorised
    /\ Registered(d, {d})
    /\ Fresh(d) \/ (Faulty("lost") /\ Fails(d))

\* A name that is taken makes the availability check, the dry run of register() or
\* verifyOwnership throw.
RegisterFails(d) ==
    /\ run[d].pc \in {"register", "commit"}
    /\ Faulty("fail") \/ (flow.kind = "name" /\ nameOwner # Nobody)
    /\ Fails(d)
    /\ FlowKeepsChain

\* Fault: whatever the worker owns is handed over.
AfterAnyLink(d) == IF TransferTo(d) # Nobody THEN "handover" ELSE "done"

\* Only a fresh registration is handed over (#928).
AfterLink(d) ==
    IF TransferTo(d) # Nobody /\ run[d].fresh THEN "handover" ELSE "done"

SetContenthash(d) ==
    /\ run[d].pc = "link" /\ nameOwner = Signer(d)
    /\ Links(d)
    /\ Step(d, AfterLink(d)) \/ (Faulty("lost") /\ Fails(d))

\* Fault: a failed link does not end the deploy.
LinkFailureIgnored(d) ==
    /\ run[d].pc = "link" /\ (Faulty("fail") \/ nameOwner # Signer(d))
    /\ Step(d, AfterLink(d))
    /\ FlowKeepsChain

SetContenthashFails(d) ==
    /\ run[d].pc = "link" /\ (Faulty("fail") \/ nameOwner # Signer(d))
    /\ Fails(d)
    /\ FlowKeepsChain

\* transferName first validates a label, which a subname's dotted path is not; it
\* goes on only from the worker, and is done if the recipient has the name.
HandoverChecks(d) ==
    /\ run[d].pc = "handover"
    /\ Step(d, IF flow.kind = "subname"         THEN "refused"
               ELSE IF nameOwner = TransferTo(d) THEN "done"
               ELSE IF nameOwner = Worker        THEN "transfer" ELSE "refused")
    /\ FlowKeepsChain

TransferName(d) ==
    /\ run[d].pc = "transfer" /\ nameOwner = Worker
    /\ nameOwner' = TransferTo(d)
    /\ Step(d, "done") \/ (Faulty("lost") /\ Refuse(d))
    /\ UNCHANGED <<flow, linked, storedBy, alias, registrants, claimed>>

HandoverFails(d) ==
    /\ run[d].pc \in {"handover", "transfer"}
    /\ Faulty("fail") \/ (run[d].pc = "transfer" /\ nameOwner # Worker)
    /\ Refuse(d)
    /\ FlowKeepsChain

DeployEnded(d) == run[d].pc \in {"done", "failed", "refused"}

\* The workflow's retry, or the deployer, runs the whole deploy again.
DeployAgain(d) ==
    /\ DeployEnded(d) /\ run[d].runs < MaxDeployRuns
    /\ run' = [run EXCEPT ![d] = [NewRun(@.runs + 1) EXCEPT !.pc = "signer"]]
    /\ FlowKeepsChain

\* The transfer command, signing as the worker: a name of the worker's, or any
\* subname under a parent the worker may write.
RunTransfer(d) ==
    /\ flow.modes[d] = "transfer" /\ DeployEnded(d)
    /\ nameOwner # d
    /\ \/ flow.kind = "name" /\ nameOwner = Worker
       \/ flow.kind = "subname" /\ Worker \in flow.authorised
    /\ nameOwner' = d
    /\ claimed' = claimed \union {d}
    /\ UNCHANGED <<flow, linked, storedBy, alias, run, registrants>>

\* Another account registers the free name.
RivalRegisters ==
    /\ Faulty("rival") /\ flow.kind = "name" /\ nameOwner = Nobody
    /\ nameOwner' = Rival
    /\ UNCHANGED <<flow, linked, storedBy, alias, run, registrants, claimed>>

DeployStep(d) ==
    \/ ChooseSigner(d) \/ PreflightThrows(d) \/ PreflightUnfunded(d)
    \/ PreflightOwned(d) \/ PreflightFree(d) \/ PreflightSubname(d)
    \/ Reprove(d) \/ StoreContent(d) \/ StoreFails(d)
    \/ OwnerLinks(d) \/ OwnerLinkFails(d)
    \/ CheckOwnership(d) \/ CheckSubdomainOwnership(d)
    \/ EnsureNotRegistered(d) \/ Register(d) \/ RegisteredBySibling(d)
    \/ RegisterSubdomain(d) \/ RegisterFails(d)
    \/ SetContenthash(d) \/ SetContenthashFails(d)
    \/ HandoverChecks(d) \/ TransferName(d) \/ HandoverFails(d)

FlowNext ==
    \/ \E d \in Deployers : DeployStep(d) \/ DeployAgain(d) \/ RunTransfer(d)
    \/ RivalRegisters

FlowSpec == FlowInit /\ [][FlowNext]_FlowVars

(***************************************************************************)
(* Properties.                                                             *)
(***************************************************************************)
FlowTypeOK ==
    /\ flow \in FlowStart
    /\ nameOwner \in Accounts /\ linked \in Deployers \union {Nobody}
    /\ storedBy \subseteq Deployers
    /\ alias \in {"proved", "stale", "none"}
    /\ run \in [Deployers ->
         [pc : {"signer", "preflight", "storage", "owner", "check", "register", "commit",
                "link", "handover", "transfer", "done", "failed", "refused"},
          runs : 1..MaxDeployRuns,
          planned : {"none", "already-owned-by-recipient", "already-owned-by-us",
                     "register", "subname"},
          fresh : BOOLEAN]]
    /\ registrants \subseteq Deployers /\ claimed \subseteq Deployers

\* #928: "updating the content of a name that already exists must NOT change its
\* ownership" (deploy.ts:4455), though every deployer signs as the same worker: as
\* long as reads do not fail, a name is handed only to a deployer who was committing
\* to it when it was registered; the rest takes `transfer`. And a deploy that counts
\* the name as its own registration and reports success has left it with the
\* recipient, although a sibling who counts it as his may hand it over first.
HandedToRegistrant ==
    \A d \in {e \in Deployers : flow.modes[e] = "transfer"} :
        /\ (flow.kind = "name" /\ ~Faulty("rpc") /\ nameOwner = d) =>
               flow.owner = d \/ d \in registrants \/ d \in claimed
        /\ (run[d].pc = "done" /\ run[d].fresh) => nameOwner = d

\* A name never shows content that was not stored first, and reaches the deployer
\* who is to receive it with content: neither of the two deploys that share the
\* worker, nor a rerun, gets ahead of its own storage or link step.
HandedOverWithContent ==
    /\ linked # Nobody => linked \in storedBy
    /\ \A d \in Deployers :
           (nameOwner = d /\ flow.owner # d /\ d \notin claimed) => 
               \/ linked # Nobody
               \/ flow.modes[d] = "session"
=============================================================================
