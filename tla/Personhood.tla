------------------------------ MODULE Personhood ------------------------------
(***************************************************************************)
(* The personhood flow of one account: bind the personal id on the People  *)
(* chain, claim PGAS and bind the alias on Asset Hub (runBootstrap), and   *)
(* prove an alias again once its ring has changed (reprove).               *)
(*                                                                         *)
(* A proof is built from the ring's keys on People against the root of     *)
(* them that Asset Hub has, which follows later; it is good for a day or   *)
(* for a window of seconds. The process may stop anywhere and run again    *)
(* while what it sent is still in the pool.                                *)
(*                                                                         *)
(* The alias costs a fee in PGAS, read from storage whenever it is needed, *)
(* and the transaction that binds it pays its weight in PGAS as well, also *)
(* when its call fails. A deploy of the account may pay in PGAS meanwhile. *)
(* What a block costs is a constant; fee and roots change in final blocks. *)
(* The reads of one probe are made at once and are one step.               *)
(***************************************************************************)
EXTENDS Naturals, FiniteSets

CONSTANTS
    ClaimAmount,    \* PGAS of a claim
    AliasFees,      \* values of the storage item AliasFee; 0 where it is unset
    WeightFee,      \* PGAS for the weight of a transaction that pays in PGAS
    DayLength,      \* moments in a day of the Asset Hub clock
    ProofValidity,  \* moments a signed proof is valid
    RootWindow,     \* revisions of the ring Asset Hub accepts
    PersonStarts,   \* records of PersonStart
    MaxMoment, MaxRing, MaxPersonRuns, MaxPersonReorgs  \* bounds

Kinds == {"id", "claim", "alias", "reprove", "write"}
Jobs == {"bootstrap", "reprove"}
PersonStart == [recognized : BOOLEAN, prereqs : BOOLEAN, pgas : Nat, fee : AliasFees,
                deploys : BOOLEAN]

\* The kinds that are signed, and so can be in a block whose call has failed, and those
\* that pay in PGAS: reproveAliasToAccount pays in the native token.
SignedKinds == {"alias", "reprove", "write"}
PaidInPgas == {"alias", "write"}

ASSUME PersonAssumption ==
    /\ {ClaimAmount, WeightFee, DayLength, ProofValidity, RootWindow} \subseteq Nat \ {0}
    /\ AliasFees \subseteq Nat
    /\ {MaxMoment, MaxPersonReorgs} \subseteq Nat
    /\ {MaxRing, MaxPersonRuns} \subseteq Nat \ {0}
    /\ PersonStarts \subseteq PersonStart

VARIABLES
    standing,      \* the start: the key in the ring, the pallets set up, balance,
                   \* fee, and whether the account deploys meanwhile
    moment,        \* the Asset Hub clock
    ring,          \* version of the ring's keys on People
    root,          \* latest version Asset Hub has a root of
    aliasFee,      \* AliasAccounts.AliasFee
    floating,      \* transactions sent that are in no block
    bestTxs,       \* transactions in best blocks
    finalTxs,      \* transactions in finalised blocks
    failedTxs,     \* those in best blocks whose call has failed
    bestPgas, finalPgas,  \* the account's PGAS at the best and at the finalised block
    person,        \* the process
    personReorgs

PersonBlocks == <<bestTxs, finalTxs, failedTxs, bestPgas, finalPgas>>
PersonChain == <<standing, moment, ring, root, aliasFee, floating, PersonBlocks, personReorgs>>
PersonVars == <<PersonChain, person>>

PersonTx == [kind : Kinds, run : 0..MaxPersonRuns, members : 0..MaxRing,
             rev : 0..MaxRing, at : 0..MaxMoment]

PersonRun == [job |-> "bootstrap", step |-> "probe", run |-> 1, kind |-> "id",
              members |-> 0, rev |-> 0, at |-> 0, did |-> {}]

PersonBegin(start) ==
    /\ standing = start
    /\ moment = 0 /\ ring = 1 /\ root = 1
    /\ aliasFee = start.fee
    /\ floating = {} /\ bestTxs = {} /\ finalTxs = {} /\ failedTxs = {}
    /\ bestPgas = start.pgas /\ finalPgas = start.pgas
    /\ person = PersonRun
    /\ personReorgs = 0

PersonInit == \E start \in PersonStarts : PersonBegin(start)

(***************************************************************************)
(* The chains. Reads are of the best block.                                *)
(***************************************************************************)
Of(kind) == {t \in bestTxs \ failedTxs : t.kind = kind}
Bound(kind) == Of(kind) # {}
StoredRevision ==
    LET revs == {t.rev : t \in Of("alias") \union Of("reprove")}
    IN  CHOOSE v \in revs : \A w \in revs : w <= v
DayOf(m) == m \div DayLength

ProofAccepted(t) == t.members = t.rev /\ t.rev <= root /\ root < t.rev + RootWindow
InTime(t) == t.at <= moment /\ moment <= t.at + ProofValidity

\* A transaction whose call succeeds on top of the best block.
Applies(t) ==
    \/ t.kind = "write"
    \/ t.kind = "id" /\ InTime(t) /\ ~Bound("id")
    \/ /\ t.kind = "claim" /\ DayOf(t.at) = DayOf(moment) /\ ProofAccepted(t)
       /\ \A c \in Of("claim") : DayOf(c.at) # DayOf(moment)
    \/ /\ t.kind = "alias" /\ InTime(t) /\ ProofAccepted(t)
       /\ aliasFee # 0 /\ WeightFee + aliasFee <= bestPgas /\ ~Bound("alias")
    \/ /\ t.kind = "reprove" /\ InTime(t) /\ ProofAccepted(t)
       /\ Bound("alias") /\ StoredRevision < t.rev

\* The account's PGAS after a transaction: its weight, then what its call moves.
PgasAfter(t) ==
    bestPgas - (IF t.kind \in PaidInPgas THEN WeightFee ELSE 0)
             - (IF t.kind = "alias" /\ Applies(t) THEN aliasFee ELSE 0)
             + (IF t.kind = "claim" /\ Applies(t) THEN ClaimAmount ELSE 0)

ClockTicks ==
    /\ moment < MaxMoment
    /\ moment' = moment + 1
    /\ UNCHANGED <<standing, ring, root, aliasFee, floating, PersonBlocks, person, personReorgs>>

RingChanges ==
    /\ ring < MaxRing
    /\ ring' = ring + 1
    /\ UNCHANGED <<standing, moment, root, aliasFee, floating, PersonBlocks, person, personReorgs>>

RootPublished ==
    /\ root < ring
    /\ root' = root + 1
    /\ UNCHANGED <<standing, moment, ring, aliasFee, floating, PersonBlocks, person, personReorgs>>

FeeChanges ==
    /\ aliasFee' \in AliasFees \ {aliasFee}
    /\ UNCHANGED <<standing, moment, ring, root, floating, PersonBlocks, person, personReorgs>>

\* A transaction in a best block: one that is signed can pay for its weight, and is there
\* though its call fails; one carried by its proof only as its call succeeds.
EntersBlock(t) ==
    /\ t.kind \in PaidInPgas => WeightFee <= bestPgas
    /\ t.kind \in SignedKinds \/ Applies(t)
    /\ bestTxs' = bestTxs \union {t}
    /\ failedTxs' = failedTxs \union (IF Applies(t) THEN {} ELSE {t})
    /\ bestPgas' = PgasAfter(t)

\* A deploy signed by the account links content and pays in PGAS.
DeployWrites ==
    LET t == [kind |-> "write", run |-> 0, members |-> 0, rev |-> 0, at |-> 0]
    IN  /\ standing.deploys /\ t \notin floating \union bestTxs
        /\ EntersBlock(t)
        /\ UNCHANGED <<standing, moment, ring, root, aliasFee, floating, finalTxs, finalPgas, person,
                       personReorgs>>

\* A block takes a transaction, or the pool drops it: its era is over, it cannot pay, its
\* proof is refused.
PoolMoves ==
    \E t \in floating :
        /\ floating' = floating \ {t}
        /\ EntersBlock(t) \/ UNCHANGED <<bestTxs, failedTxs, bestPgas>>
        /\ UNCHANGED <<standing, moment, ring, root, aliasFee, finalTxs, finalPgas, person,
                       personReorgs>>

BestFinalised ==
    /\ finalTxs # bestTxs
    /\ finalTxs' = bestTxs /\ finalPgas' = bestPgas
    /\ UNCHANGED <<standing, moment, ring, root, aliasFee, floating, bestTxs, failedTxs, bestPgas,
                   person, personReorgs>>

BestReorganised ==
    /\ personReorgs < MaxPersonReorgs /\ bestTxs # finalTxs
    /\ bestTxs' = finalTxs /\ bestPgas' = finalPgas
    /\ failedTxs' = failedTxs \intersect finalTxs
    /\ floating' = floating \union (bestTxs \ finalTxs)
    /\ personReorgs' = personReorgs + 1
    /\ UNCHANGED <<standing, moment, ring, root, aliasFee, finalTxs, finalPgas, person>>

(***************************************************************************)
(* The process.                                                            *)
(***************************************************************************)
Ends(step) == [person EXCEPT !.step = step]
Proves(kind) == [person EXCEPT !.kind = kind, !.step = "keys"]

\* The steps come in one order, and none is asked for again in the same run.
NextBootstrapStep ==
    IF person.did = {} /\ ~Bound("id") THEN "id"
    ELSE IF person.did \intersect {"claim", "alias"} = {} /\ bestPgas < aliasFee THEN "claim"
    ELSE IF "alias" \notin person.did /\ ~Bound("alias") THEN "alias"
    ELSE "none"

\* The pallets' prerequisites are asked for once, by a run that has anything to do.
Refused == ~standing.recognized
               \/ (~standing.prereqs /\ NextBootstrapStep # "none")

BootstrapProbes ==
    /\ person.step = "probe" /\ person.job = "bootstrap"
    /\ LET next == NextBootstrapStep
       IN  person' =
             IF person.did = {} /\ Refused THEN Ends("failed")
             ELSE IF next = "none" THEN Ends("done")
             ELSE IF next = "id"
                 THEN [person EXCEPT !.kind = "id", !.at = moment, !.step = "send"]
             ELSE [Proves(next) EXCEPT !.step = IF next = "alias" THEN "fee" ELSE "keys"]
    /\ UNCHANGED PersonChain

\* Fee and balance are read again; the weight of the transaction is not asked for.
FeeCovered ==
    /\ person.step = "fee"
    /\ person' = IF aliasFee = 0 \/ bestPgas < aliasFee THEN Ends("failed") ELSE Proves("alias")
    /\ UNCHANGED PersonChain

ReproveReadsRow ==
    /\ person.step = "probe" /\ person.job = "reprove"
    /\ person' = IF Bound("alias") /\ standing.recognized
                     THEN [Proves("reprove") EXCEPT !.rev = StoredRevision]
                     ELSE Ends("failed")
    /\ UNCHANGED PersonChain

RingKeysRead ==
    /\ person.step = "keys"
    /\ person' = [person EXCEPT !.members = ring, !.step = "root"]
    /\ UNCHANGED PersonChain

\* Only the claim checks its proof against the root; only the reprove refuses a
\* revision it has.
ProofRefused ==
    \/ person.kind = "claim" /\ person.members # root
    \/ person.kind = "reprove" /\ root <= person.rev

\* The latest root and the clock are read and the proof is built.
ProofBuilt ==
    /\ person.step = "root"
    /\ person' = IF ProofRefused THEN Ends("failed")
                     ELSE [person EXCEPT !.rev = root, !.at = moment, !.step = "send"]
    /\ UNCHANGED PersonChain

SentTx == [kind |-> person.kind, run |-> person.run, members |-> person.members,
           rev |-> person.rev, at |-> person.at]

PersonSends ==
    /\ person.step = "send"
    /\ person' = Ends("watch")
    /\ floating' = floating \union {SentTx}
    /\ UNCHANGED <<standing, moment, ring, root, aliasFee, PersonBlocks, personReorgs>>

\* Fault: a best block resolves the transaction.
ResolvableInBest(t) == t \in bestTxs \ failedTxs

\* A call that succeeds in a best block changes nothing: only finality resolves.
Resolvable(t) == t \in finalTxs \ failedTxs

PersonResolves ==
    /\ person.step = "watch" /\ Resolvable(SentTx)
    /\ person' = [person EXCEPT !.did = @ \union {person.kind}, !.members = 0, !.rev = 0, !.at = 0,
                                !.step = IF person.job = "reprove" THEN "done" ELSE "probe"]
    /\ UNCHANGED PersonChain

\* The pool has dropped it, or its call has failed in a block, final or not.
PersonRejected ==
    /\ person.step = "watch"
    /\ SentTx \notin floating \union bestTxs \/ SentTx \in failedTxs
    /\ person' = Ends("failed")
    /\ UNCHANGED PersonChain

\* A read, a build or the subscription fails, or the process is killed.
PersonBreaks ==
    /\ person.step \notin {"failed", "done"}
    /\ person' = Ends("failed")
    /\ UNCHANGED PersonChain

PersonRunsAgain ==
    /\ person.step \in {"failed", "done"} /\ person.run < MaxPersonRuns
    /\ \E job \in Jobs :
        person' = [PersonRun EXCEPT !.job = job, !.run = person.run + 1]
    /\ UNCHANGED PersonChain

PersonhoodNext ==
    \/ ClockTicks \/ RingChanges \/ RootPublished
    \/ FeeChanges \/ DeployWrites
    \/ PoolMoves \/ BestFinalised \/ BestReorganised
    \/ BootstrapProbes \/ FeeCovered \/ ReproveReadsRow \/ RingKeysRead \/ ProofBuilt
    \/ PersonSends \/ PersonResolves \/ PersonRejected
    \/ PersonBreaks \/ PersonRunsAgain

PersonhoodSpec == PersonInit /\ [][PersonhoodNext]_PersonVars

-----------------------------------------------------------------------------
\* Every variable of the personhood flow has its type; PGAS is never overdrawn.
PersonTypeOK ==
    /\ standing \in PersonStarts
    /\ moment \in 0..MaxMoment /\ ring \in 1..MaxRing /\ root \in 1..ring
    /\ aliasFee \in AliasFees
    /\ floating \subseteq PersonTx /\ bestTxs \subseteq PersonTx
    /\ finalTxs \subseteq bestTxs /\ failedTxs \subseteq bestTxs
    /\ bestPgas \in Nat /\ finalPgas \in Nat
    /\ person.job \in Jobs /\ person.kind \in Kinds /\ person.run \in 1..MaxPersonRuns
    /\ person.step \in {"probe", "fee", "keys", "root", "send", "watch", "done", "failed"}
    /\ person.did \subseteq Kinds
    /\ personReorgs \in 0..MaxPersonReorgs

\* A run on its way to send its alias.
BindsAlias == person.kind = "alias" /\ person.step \in {"fee", "keys", "root", "send"}

\* Another run's transaction, or a deploy's, has spent PGAS.
SpentElsewhere == \E t \in bestTxs : t.kind \in PaidInPgas /\ t.run # person.run

\* A bootstrap that has claimed and is about to bind its alias can pay for it, weight
\* included, where a claim can pay that at all and no other transaction of the account
\* has spent PGAS, however the chain is reorganised and the fee changed (runBootstrap
\* awaits the claim's finality before it goes on).
ClaimedCoversFee ==
    "claim" \in person.did /\ BindsAlias /\ WeightFee + aliasFee <= ClaimAmount
        => WeightFee + aliasFee <= bestPgas \/ SpentElsewhere
=============================================================================
