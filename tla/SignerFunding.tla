----------------------------- MODULE SignerFunding -----------------------------
(***************************************************************************)
(* What a DotNS signer needs before it may submit: an account mapped on    *)
(* Revive, and a free balance. connect() maps, preflight and every         *)
(* submission gate on the balance, and on a testnet a short signer is      *)
(* topped up from one of the two public dev accounts, which other deploys  *)
(* draw on, and may deploy as, at the same time.                           *)
(*                                                                         *)
(* Balances are kept twice: at the best block and at the finalised one,    *)
(* which every read is answered from.                                      *)
(***************************************************************************)
EXTENDS Naturals, FiniteSets

CONSTANTS
    Signers,        \* the accounts that deploy
    Alice, Bob,     \* the sources of a top-up, in the order they are tried
    Floor, TopUp,   \* by stage: balance needed, amount transferred
    SourceBuffer,   \* what a source has left after a top-up
    Fee,            \* what a transaction costs its signer
    FundingStarts,  \* records of FundingStart
    MaxTopUps,      \* bound: top-ups that are submitted
    MaxFundReorgs   \* bound: reorganisations of the best chain

Holders == Signers \union {Alice, Bob}
Sources == {Alice, Bob}
Stages == {"map", "preflight", "submit"}

\* auto: the environment maps accounts on the first Revive call; spends: a sibling
\* deploy with the same signer spends of its balance.
FundingStart ==
    [balance : [Holders -> Nat], mapped : SUBSET Signers,
     auto : BOOLEAN, testnet : BOOLEAN, spends : BOOLEAN]

ASSUME FundingAssumption ==
    /\ IsFiniteSet(Signers) /\ Alice # Bob
    /\ Floor \in [Stages -> Nat] /\ TopUp \in [Stages -> Nat]
    /\ \A s \in Stages : Floor[s] <= TopUp[s]
    /\ {SourceBuffer, Fee, MaxFundReorgs, MaxTopUps} \subseteq Nat
    /\ FundingStarts \subseteq FundingStart

VARIABLES
    funding,        \* the start: auto, testnet, spends
    best, final,    \* balances at the best and at the finalised block
    sending,        \* transfers in the pool
    inBest,         \* transfers in a best block that is not final
    arrived,        \* numbers of the transfers that are final
    mapped,         \* accounts with a Revive.OriginalAccount entry
    fund,           \* where each signer's deploy is
    fundReorgs, topUps

FundingVars == <<funding, best, final, sending, inBest, arrived, mapped, fund,
                 fundReorgs, topUps>>

FundingBegin(start) ==
    /\ funding = start
    /\ best = start.balance /\ final = start.balance
    /\ sending = {} /\ inBest = {} /\ arrived = {}
    /\ mapped = start.mapped
    /\ fund = [d \in Signers |->
                 [stage |-> "map", pc |-> "gate", source |-> Alice, tx |-> 0,
                  spent |-> FALSE]]
    /\ fundReorgs = 0 /\ topUps = 0

FundingInit == \E start \in FundingStarts : FundingBegin(start)

(***************************************************************************)
(* The chain.                                                              *)
(***************************************************************************)
Moved(bal, t) == [bal EXCEPT ![t.from] = @ - t.amount, ![t.to] = @ + t.amount]

IncludeTransfer ==
    \E t \in sending :
        /\ best[t.from] >= t.amount
        /\ best' = Moved(best, t)
        /\ sending' = sending \ {t}
        /\ inBest' = inBest \union {t}
        /\ UNCHANGED <<funding, final, arrived, mapped, fund, fundReorgs, topUps>>

FinaliseTransfers ==
    /\ best # final
    /\ final' = best /\ inBest' = {}
    /\ arrived' = arrived \union {t.n : t \in inBest}
    /\ UNCHANGED <<funding, best, sending, mapped, fund, fundReorgs, topUps>>

\* A transfer that is undone goes back to the pool, or is lost.
ReorgTransfers ==
    /\ best # final /\ fundReorgs < MaxFundReorgs
    /\ best' = final /\ inBest' = {}
    /\ \E back \in SUBSET inBest : sending' = sending \union back
    /\ fundReorgs' = fundReorgs + 1
    /\ UNCHANGED <<funding, final, arrived, mapped, fund, topUps>>

\* A sibling of d spends: from here on d's balance is not d's alone.
SiblingSpends(d) ==
    /\ funding.spends /\ ~fund[d].spent
    /\ final[d] > 0 /\ best[d] > 0
    /\ final' = [final EXCEPT ![d] = @ - 1] /\ best' = [best EXCEPT ![d] = @ - 1]
    /\ fund' = [fund EXCEPT ![d].spent = TRUE]
    /\ UNCHANGED <<funding, sending, inBest, arrived, mapped, fundReorgs, topUps>>

(***************************************************************************)
(* maybeTopUpToFloor and attemptTestnetTopUp.                              *)
(***************************************************************************)
Goes(d, pc) == fund' = [fund EXCEPT ![d].pc = pc]
FundingKeepsChain == UNCHANGED <<funding, best, final, sending, inBest, arrived,
                                 mapped, fundReorgs, topUps>>

Suffices(d) == final[d] >= Floor[fund[d].stage]
ToppedUp(d) ==
    [from |-> fund[d].source, to |-> d, amount |-> TopUp[fund[d].stage], n |-> topUps + 1]

\* Mapping comes first: an account that is mapped needs no balance for it.
Gate(d) ==
    /\ fund[d].pc = "gate"
    /\ \/ /\ fund[d].stage = "map" /\ d \in mapped
          /\ Goes(d, "passed")
       \/ /\ fund[d].stage # "map" \/ d \notin mapped
          /\ IF Suffices(d) THEN Goes(d, "granted")
             ELSE IF funding.testnet
               THEN fund' = [fund EXCEPT ![d].pc = "source", ![d].source = Alice]
               ELSE Goes(d, "short")
    /\ FundingKeepsChain

\* A source is skipped if it is the signer itself, or has no more than its buffer.
NextSource(d) ==
    fund' = IF fund[d].source = Alice
              THEN [fund EXCEPT ![d].pc = "source", ![d].source = Bob]
              ELSE [fund EXCEPT ![d].pc = "short"]

CanSpare(d) == final[fund[d].source] >= TopUp[fund[d].stage] + SourceBuffer

SkipSource(d) ==
    /\ fund[d].pc = "source"
    /\ fund[d].source = d \/ ~CanSpare(d)
    /\ NextSource(d)
    /\ FundingKeepsChain

\* Two transfers of one source that are in the pool at once have the same nonce:
\* the second is turned away.
SendTopUp(d) ==
    /\ fund[d].pc = "source"
    /\ fund[d].source # d /\ CanSpare(d)
    /\ topUps < MaxTopUps
    /\ IF \E t \in sending : t.from = fund[d].source
         THEN NextSource(d) /\ UNCHANGED <<sending, topUps>>
         ELSE /\ sending' = sending \union {ToppedUp(d)}
              /\ topUps' = topUps + 1
              /\ fund' = [fund EXCEPT ![d].pc = "sent", ![d].tx = topUps + 1]
    /\ UNCHANGED <<funding, best, final, inBest, arrived, mapped, fundReorgs>>

\* Fault: a transfer in a best block counts.
ResolvingInBest == arrived \union {t.n : t \in inBest}

\* submitTransfer resolves on finality only. That it is final is what the signer
\* is told; it does not read its balance again.
Resolving == arrived

TopUpFinal(d) ==
    /\ fund[d].pc = "sent" /\ fund[d].tx \in Resolving
    /\ Goes(d, "granted")
    /\ FundingKeepsChain

\* An error, the stream's end, or TOP_UP_TRANSFER_TIMEOUT_MS: the transfer may
\* still be included.
TopUpFails(d) ==
    /\ fund[d].pc = "sent"
    /\ NextSource(d)
    /\ FundingKeepsChain

(***************************************************************************)
(* What the deploy does with the answer.                                   *)
(***************************************************************************)

\* map_account, or the Revive call that maps the account; either may fail though
\* the mapping is there, which is why it is looked at again.
MapAccount(d) ==
    /\ fund[d].stage = "map" /\ fund[d].pc \in {"granted", "short"}
    /\ \/ /\ final[d] >= Fee /\ best[d] >= Fee
          /\ mapped' = mapped \union {d}
          /\ final' = [final EXCEPT ![d] = @ - Fee]
          /\ best' = [best EXCEPT ![d] = @ - Fee]
          /\ Goes(d, "passed")
       \/ /\ Goes(d, IF d \in mapped THEN "passed" ELSE "refused")
          /\ UNCHANGED <<mapped, final, best>>
    /\ UNCHANGED <<funding, sending, inBest, arrived, fundReorgs, topUps>>

\* Off the auto-mapping environments map_account is tried before any top-up.
MapExplicitly(d) ==
    /\ ~funding.auto /\ fund[d].stage = "map" /\ fund[d].pc = "gate"
    /\ d \notin mapped /\ final[d] >= Fee /\ best[d] >= Fee
    /\ mapped' = mapped \union {d}
    /\ final' = [final EXCEPT ![d] = @ - Fee]
    /\ best' = [best EXCEPT ![d] = @ - Fee]
    /\ Goes(d, "passed")
    /\ UNCHANGED <<funding, sending, inBest, arrived, fundReorgs, topUps>>

\* A signer that is still short ends the deploy, before anything is signed.
RefuseShort(d) ==
    /\ fund[d].stage # "map" /\ fund[d].pc = "short"
    /\ Goes(d, "refused")
    /\ FundingKeepsChain

\* The transaction the gate was for is signed, and paid.
Submits(d) ==
    /\ fund[d].stage = "submit" /\ fund[d].pc = "granted"
    /\ final[d] >= Fee /\ best[d] >= Fee
    /\ final' = [final EXCEPT ![d] = @ - Fee]
    /\ best' = [best EXCEPT ![d] = @ - Fee]
    /\ Goes(d, "done")
    /\ UNCHANGED <<funding, sending, inBest, arrived, mapped, fundReorgs, topUps>>

NextStage(d) ==
    /\ \/ fund[d].pc = "passed"
       \/ fund[d].stage = "preflight" /\ fund[d].pc = "granted"
    /\ fund' = [fund EXCEPT ![d].pc = "gate",
                    ![d].stage = IF @ = "map" THEN "preflight" ELSE "submit"]
    /\ FundingKeepsChain

FundingStep(d) ==
    \/ Gate(d) \/ SkipSource(d) \/ SendTopUp(d) \/ TopUpFinal(d) \/ TopUpFails(d)
    \/ MapAccount(d) \/ MapExplicitly(d) \/ RefuseShort(d) \/ Submits(d) \/ NextStage(d)

FundingNext ==
    \/ \E d \in Signers : FundingStep(d) \/ SiblingSpends(d)
    \/ IncludeTransfer \/ FinaliseTransfers \/ ReorgTransfers

FundingSpec == FundingInit /\ [][FundingNext]_FundingVars

(***************************************************************************)
(* Properties.                                                             *)
(***************************************************************************)
FundingTypeOK ==
    /\ funding \in FundingStart
    /\ best \in [Holders -> Nat] /\ final \in [Holders -> Nat]
    /\ sending \union inBest \subseteq [from : Sources, to : Signers, amount : Nat, n : 1..MaxTopUps]
    /\ arrived \subseteq 1..MaxTopUps
    /\ mapped \subseteq Signers
    /\ fund \in [Signers ->
         [stage : Stages, source : Sources, tx : 0..MaxTopUps, spent : BOOLEAN,
          pc : {"gate", "source", "sent", "granted", "short", "passed", "refused", "done"}]]

\* A deploy that the gate let through has the balance it needs on the finalised
\* chain, whatever is reorganised away and however many deploys draw on the same
\* source, as long as nobody else spends of its account: the transfer is final
\* before it counts. And it is mapped before any dry run.
GrantedMeansFunded ==
    \A d \in Signers \ Sources :
        /\ (fund[d].pc = "granted" /\ ~fund[d].spent) => Suffices(d)
        /\ fund[d].stage # "map" => d \in mapped
=============================================================================
