----------------------------- MODULE Services_proofs -----------------------------
(***************************************************************************)
(* What the services around an upload promise, for every value of their    *)
(* constants: the funding of a signer, the bootstrap of a person, the      *)
(* account a file is stored with, what a connection concludes of the       *)
(* contracts, the cached reading of an allowance, and what a write that is *)
(* reported done did to its record. The components share no variable; each *)
(* has its inductive invariant, one lemma per kind of step, and its theorems *)
(* at the end. Last comes their composition with the deploy flow and the   *)
(* manifests, which have proofs of their own.                              *)
(***************************************************************************)
EXTENDS MCServices, DeployFlow_proofs, ManifestPublish_proofs, PreviousManifest_proofs,
        FiniteSetTheorems, FunctionTheorems, SequenceTheorems,
        WellFoundedInduction, TLAPS

(***************************************************************************)
(* Smallest and largest numbers, which the models choose with CHOOSE.      *)
(***************************************************************************)

\* A set of natural numbers has a smallest one.
LEMMA SmallestOf ==
  ASSUME NEW S, S # {}, S \subseteq Nat
  PROVE  \E m \in S : \A n \in S : m <= n
<1> DEFINE less == {ss \in Nat \X Nat : ss[1] < ss[2]}
<1>1. less = OpToRel(<, Nat)
  BY DEF OpToRel
<1>2. IsWellFoundedOn(less, Nat)
  BY <1>1, NatLessThanWellFounded
<1>3. \A x \in Nat, y \in Nat : <<x, y>> \in less <=> x < y
  OBVIOUS
<1> HIDE DEF less
<1>4. PICK m \in S : \A n \in S : ~(<<n, m>> \in less)
  BY <1>2, WFMin
<1>5. ASSUME NEW n \in S PROVE m <= n
  <2>1. m \in Nat /\ n \in Nat /\ ~(n < m)
    BY <1>3, <1>4, <1>5
  <2> QED BY <2>1
<1> QED BY <1>5

\* One with a bound has a largest one.
LEMMA LargestOf ==
  ASSUME NEW S, S # {}, NEW k \in Nat, S \subseteq 0..k
  PROVE  \E m \in S : \A n \in S : n <= m
<1> DEFINE rest == {k - n : n \in S}
<1>1. rest \subseteq Nat /\ rest # {}
  <2>1. \A n \in S : k - n \in Nat
    OBVIOUS
  <2> QED BY <2>1
<1>2. PICK b \in rest : \A a \in rest : b <= a
  <2> HIDE DEF rest
  <2> QED BY <1>1, SmallestOf
<1>3. PICK m \in S : b = k - m
  OBVIOUS
<1>4. \A n \in S : k - m <= k - n
  BY <1>2, <1>3
<1>5. \A n \in S : n <= m
  BY <1>4
<1> QED BY <1>5

(***************************************************************************)
(* SignerFunding. A deploy that waits for a transfer waits for its own:    *)
(* the numbers are used once, and the best and the final balance of a      *)
(* signer who is no source only grow by what is sent to it.                *)
(***************************************************************************)

\* Numbers of transfers are given out once.
NumbersUsed ==
    /\ topUps \in 0..MaxTopUps
    /\ \A t \in sending \union inBest : t.n <= topUps
    /\ \A n \in arrived : n <= topUps
    /\ \A d \in Signers : fund[d].tx <= topUps

\* The transfer a signer waits for is its own, of the amount its stage asks for.
Awaited ==
    \A d \in Signers : fund[d].pc = "sent" =>
        \A t \in sending \union inBest : t.n = fund[d].tx =>
            t.to = d /\ t.amount = TopUp[fund[d].stage]

\* While it waits and nobody else spends, what arrived is there: at the best block
\* if the transfer is in one, at the finalised block if it is final.
Credited ==
    \A d \in Signers \ Sources :
        /\ final[d] <= best[d]
        /\ (fund[d].pc = "sent" /\ ~fund[d].spent) =>
               /\ \A t \in inBest : t.n = fund[d].tx => TopUp[fund[d].stage] <= best[d]
               /\ fund[d].tx \in arrived => TopUp[fund[d].stage] <= final[d]

\* The stages after the mapping, and its end, are reached by the mapped.
MappedBefore ==
    \A d \in Signers : (fund[d].stage # "map" \/ fund[d].pc = "passed") => d \in mapped

\* The inductive invariant.
FundingInv ==
    FundingTypeOK /\ NumbersUsed /\ Awaited /\ Credited /\ MappedBefore /\ GrantedMeansFunded

\* The state of a signer's deploy.
Deploys == [stage : Stages, source : Sources, tx : 0..MaxTopUps, spent : BOOLEAN,
            pc : {"gate", "source", "sent", "granted", "short", "passed", "refused", "done"}]

\* Every start satisfies it: nothing is sent, credited or granted.
LEMMA FundingInitHolds == FundingInit => FundingInv
<1> SUFFICES ASSUME NEW start \in FundingStarts, FundingBegin(start) PROVE FundingInv
  BY DEF FundingInit
<1>1. start \in FundingStart
  BY FundingAssumption
<1>2. FundingTypeOK
  BY <1>1, FundingAssumption
     DEF FundingTypeOK, FundingBegin, FundingStart, Holders, Sources, Stages
<1>3. NumbersUsed /\ Awaited /\ Credited /\ MappedBefore /\ GrantedMeansFunded
  BY <1>1, <1>2, FundingAssumption
     DEF FundingBegin, NumbersUsed, Awaited, Credited, MappedBefore, GrantedMeansFunded,
         FundingStart, Holders, FundingTypeOK
<1> QED BY <1>2, <1>3 DEF FundingInv

\* A transfer moves what it says, and never from a signer that is no source.
LEMMA MovedFacts ==
  ASSUME FundingTypeOK, NEW t \in sending, best[t.from] >= t.amount
  PROVE  /\ Moved(best, t) \in [Holders -> Nat]
         /\ \A d \in Signers \ Sources :
              Moved(best, t)[d] = IF d = t.to THEN best[d] + t.amount ELSE best[d]
<1>1. t.from \in Holders /\ t.to \in Holders /\ t.amount \in Nat /\ t.from \in Sources
  BY DEF FundingTypeOK, Holders, Sources
<1>2. best \in [Holders -> Nat] /\ Signers \subseteq Holders
  BY DEF FundingTypeOK, Holders
<1> QED BY <1>1, <1>2 DEF Moved

\* The chain keeps the invariant: it includes, finalises and takes back what was sent.
LEMMA ChainKeepsFunding ==
  FundingInv /\ (IncludeTransfer \/ FinaliseTransfers \/ ReorgTransfers) => FundingInv'
<1> SUFFICES ASSUME FundingInv, IncludeTransfer \/ FinaliseTransfers \/ ReorgTransfers
             PROVE  FundingInv'
  OBVIOUS
<1> USE FundingAssumption DEF FundingInv
<1>a. /\ \A d \in Signers : fund[d].stage \in Stages /\ fund[d].tx \in Nat
      /\ \A d \in Signers : TopUp[fund[d].stage] \in Nat
      /\ best \in [Holders -> Nat] /\ final \in [Holders -> Nat] /\ Signers \subseteq Holders
  BY DEF FundingTypeOK, Holders
<1>1. CASE IncludeTransfer
  <2>1. PICK t \in sending :
          /\ best[t.from] >= t.amount
          /\ best' = Moved(best, t)
          /\ sending' = sending \ {t} /\ inBest' = inBest \union {t}
          /\ UNCHANGED <<funding, final, arrived, mapped, fund, fundReorgs, topUps>>
    BY <1>1 DEF IncludeTransfer
  <2>2. /\ best' \in [Holders -> Nat]
        /\ \A d \in Signers \ Sources :
             best'[d] = IF d = t.to THEN best[d] + t.amount ELSE best[d]
    BY <2>1, MovedFacts
  <2>3. t.amount \in Nat
    BY DEF FundingTypeOK
  <2>4. FundingTypeOK' /\ NumbersUsed' /\ Awaited' /\ MappedBefore'
    BY <2>1, <2>2 DEF FundingTypeOK, NumbersUsed, Awaited, MappedBefore
  <2>5. Credited'
    BY <1>a, <2>1, <2>2, <2>3 DEF Credited, Awaited
  <2>6. GrantedMeansFunded'
    BY <2>1 DEF GrantedMeansFunded, Suffices
  <2> QED BY <2>4, <2>5, <2>6
<1>2. CASE FinaliseTransfers
  <2>1. FundingTypeOK' /\ NumbersUsed' /\ Awaited' /\ MappedBefore'
    BY <1>2 DEF FundingTypeOK, NumbersUsed, Awaited, MappedBefore, FinaliseTransfers
  <2>2. Credited'
    BY <1>a, <1>2 DEF Credited, FinaliseTransfers
  <2>3. GrantedMeansFunded'
    BY <1>2, <1>a DEF GrantedMeansFunded, Suffices, FinaliseTransfers, Credited
  <2> QED BY <2>1, <2>2, <2>3
<1>3. CASE ReorgTransfers
  <2>1. FundingTypeOK' /\ NumbersUsed' /\ Awaited' /\ MappedBefore'
    BY <1>3 DEF FundingTypeOK, NumbersUsed, Awaited, MappedBefore, ReorgTransfers
  <2>2. Credited' /\ GrantedMeansFunded'
    BY <1>a, <1>3 DEF Credited, GrantedMeansFunded, Suffices, ReorgTransfers
  <2> QED BY <2>1, <2>2
<1> QED BY <1>1, <1>2, <1>3

\* A step of one deploy moves that deploy only, and the others' account not at all.
LEMMA DeployKeepsFunding ==
  ASSUME FundingInv, NEW d \in Signers, FundingStep(d) \/ SiblingSpends(d)
  PROVE  FundingInv'
<1> USE FundingAssumption DEF FundingInv, FundingKeepsChain
<1>a. /\ \A e \in Signers : fund[e] \in Deploys /\ TopUp[fund[e].stage] \in Nat
                            /\ Floor[fund[e].stage] \in Nat
                            /\ Floor[fund[e].stage] <= TopUp[fund[e].stage]
      /\ best \in [Holders -> Nat] /\ final \in [Holders -> Nat] /\ Signers \subseteq Holders
      /\ fund \in [Signers -> Deploys]
      /\ DOMAIN fund = Signers
      /\ Fee \in Nat
  BY DEF FundingTypeOK, Holders, Deploys
\* Where nothing but d's own record moves, and d waits for nothing.
<1>b. ASSUME NEW f \in Deploys, fund' = [fund EXCEPT ![d] = f],
             f.tx = fund[d].tx, f.pc # "sent",
             f.spent = fund[d].spent,
             (f.stage # "map" \/ f.pc = "passed") => d \in mapped,
             (d \notin Sources /\ f.pc = "granted" /\ ~f.spent) => final[d] >= Floor[f.stage],
             FundingKeepsChain
      PROVE  FundingInv'
  <2>0. \A e \in Signers : fund'[e] = IF e = d THEN f ELSE fund[e]
    BY <1>a, <1>b
  <2>1. FundingTypeOK'
    BY <1>a, <1>b DEF FundingTypeOK, Deploys
  <2>2. NumbersUsed' /\ MappedBefore'
    BY <2>0, <1>b DEF NumbersUsed, MappedBefore
  <2>3. Awaited'
    BY <2>0, <1>b DEF Awaited
  <2>4. Credited'
    BY <2>0, <1>b DEF Credited
  <2>5. GrantedMeansFunded'
    BY <2>0, <1>b DEF GrantedMeansFunded, Suffices, MappedBefore
  <2> QED BY <2>1, <2>2, <2>3, <2>4, <2>5
\* Where d pays, or a sibling of d does.
<1>c. ASSUME NEW f \in Deploys, fund' = [fund EXCEPT ![d] = f],
             NEW paid \in Nat, paid <= final[d], paid <= best[d],
             final' = [final EXCEPT ![d] = @ - paid], best' = [best EXCEPT ![d] = @ - paid],
             f.tx = fund[d].tx, f.pc = "sent" => f.spent /\ fund[d].pc = "sent" /\ f.stage = fund[d].stage,
             f.pc = "granted" => f.spent,
             mapped \subseteq mapped', mapped' \subseteq Signers,
             (f.stage # "map" \/ f.pc = "passed") => d \in mapped',
             UNCHANGED <<funding, sending, inBest, arrived, fundReorgs, topUps>>
      PROVE  FundingInv'
  <2>0. \A e \in Signers : fund'[e] = IF e = d THEN f ELSE fund[e]
    BY <1>a, <1>c
  <2>1. FundingTypeOK'
    BY <1>a, <1>c DEF FundingTypeOK, Deploys
  <2>2. NumbersUsed' /\ MappedBefore'
    BY <2>0, <1>c DEF NumbersUsed, MappedBefore
  <2>3. Awaited'
    BY <2>0, <1>c DEF Awaited
  <2>4. Credited'
    BY <2>0, <1>a, <1>c DEF Credited
  <2>5. GrantedMeansFunded'
    BY <2>0, <1>a, <1>c DEF GrantedMeansFunded, Suffices, MappedBefore
  <2> QED BY <2>1, <2>2, <2>3, <2>4, <2>5
<1>1. CASE Gate(d)
  <2>1. PICK f \in {[fund[d] EXCEPT !.pc = "passed"], [fund[d] EXCEPT !.pc = "granted"],
                    [fund[d] EXCEPT !.pc = "source", !.source = Alice],
                    [fund[d] EXCEPT !.pc = "short"]} :
          /\ fund' = [fund EXCEPT ![d] = f]
          /\ f.pc = "passed" => d \in mapped
          /\ f.pc = "granted" => Suffices(d)
    BY <1>1, <1>a DEF Gate, Goes, Deploys
  <2>2. /\ f \in Deploys /\ f.tx = fund[d].tx /\ f.pc # "sent" /\ f.spent = fund[d].spent
        /\ f.stage = fund[d].stage /\ fund[d].pc = "gate"
    BY <1>1, <1>a, <2>1 DEF Deploys, Sources, Gate
  <2> QED BY <1>1, <1>b, <2>1, <2>2 DEF MappedBefore, Suffices, Gate
<1>2. CASE SkipSource(d) \/ TopUpFails(d)
  <2>1. PICK f \in {[fund[d] EXCEPT !.pc = "source", !.source = Bob],
                    [fund[d] EXCEPT !.pc = "short"]} : fund' = [fund EXCEPT ![d] = f]
    BY <1>2, <1>a DEF SkipSource, TopUpFails, NextSource, Deploys
  <2>2. /\ f \in Deploys /\ f.tx = fund[d].tx /\ f.pc \in {"source", "short"}
        /\ f.spent = fund[d].spent /\ f.stage = fund[d].stage
    BY <1>a, <2>1 DEF Deploys, Sources
  <2> QED BY <1>2, <1>b, <2>1, <2>2 DEF MappedBefore, SkipSource, TopUpFails
<1>3. CASE SendTopUp(d)
  <2>1. CASE \E t \in sending : t.from = fund[d].source
    <3>1. PICK f \in {[fund[d] EXCEPT !.pc = "source", !.source = Bob],
                      [fund[d] EXCEPT !.pc = "short"]} : fund' = [fund EXCEPT ![d] = f]
      BY <1>3, <2>1, <1>a DEF SendTopUp, NextSource, Deploys
    <3>2. /\ f \in Deploys /\ f.tx = fund[d].tx /\ f.pc \in {"source", "short"}
          /\ f.spent = fund[d].spent /\ f.stage = fund[d].stage
      BY <1>a, <3>1 DEF Deploys, Sources
    <3>3. FundingKeepsChain
      BY <1>3, <2>1 DEF SendTopUp
    <3> QED BY <1>b, <3>1, <3>2, <3>3 DEF MappedBefore
  <2>2. CASE ~\E t \in sending : t.from = fund[d].source
    <3> DEFINE f == [fund[d] EXCEPT !.pc = "sent", !.tx = topUps + 1]
    <3>1. /\ fund' = [fund EXCEPT ![d] = f] /\ topUps < MaxTopUps /\ topUps' = topUps + 1
          /\ sending' = sending \union {ToppedUp(d)}
          /\ UNCHANGED <<funding, best, final, inBest, arrived, mapped, fundReorgs>>
      BY <1>3, <2>2, <1>a DEF SendTopUp, Deploys
    <3>0. /\ topUps + 1 \in 1..MaxTopUps /\ topUps + 1 \in 0..MaxTopUps /\ topUps \in Nat
          /\ fund[d] \in Deploys
      BY <1>a, <3>1 DEF NumbersUsed
    <3>2. /\ f \in Deploys /\ f.tx = topUps + 1 /\ f.pc = "sent" /\ f.stage = fund[d].stage
          /\ topUps + 1 \in 1..MaxTopUps /\ topUps \in Nat
      <4>1. \A n \in 0..MaxTopUps : [fund[d] EXCEPT !.pc = "sent", !.tx = n] \in Deploys
        BY <3>0 DEF Deploys
      <4>2. fund[d].stage = f.stage /\ f.pc = "sent" /\ f.tx = topUps + 1
        BY <3>0 DEF Deploys
      <4> QED BY <3>0, <4>1, <4>2
    <3>3. \A e \in Signers : fund'[e] = IF e = d THEN f ELSE fund[e]
      BY <1>a, <3>1
    <3>4. ToppedUp(d) \in [from : Sources, to : Signers, amount : Nat, n : 1..MaxTopUps]
      BY <1>a, <3>2 DEF ToppedUp, Deploys
    <3>5. FundingTypeOK'
      BY <1>a, <3>1, <3>2, <3>4 DEF FundingTypeOK, Deploys
    <3> HIDE DEF f
    <3>6. NumbersUsed'
      BY <1>a, <3>1, <3>2, <3>3 DEF NumbersUsed, FundingTypeOK, ToppedUp, Deploys
    <3>7. MappedBefore' /\ GrantedMeansFunded'
      BY <3>1, <3>2, <3>3 DEF MappedBefore, GrantedMeansFunded, Suffices
    <3>8. Awaited'
      BY <1>a, <3>1, <3>2, <3>3 DEF Awaited, NumbersUsed, FundingTypeOK, ToppedUp, Deploys
    <3>9. Credited'
      BY <1>a, <3>1, <3>2, <3>3 DEF Credited, NumbersUsed, FundingTypeOK, Deploys
    <3> QED BY <3>5, <3>6, <3>7, <3>8, <3>9
  <2> QED BY <2>1, <2>2
<1>4. CASE TopUpFinal(d)
  <2> DEFINE f == [fund[d] EXCEPT !.pc = "granted"]
  <2>1. fund' = [fund EXCEPT ![d] = f] /\ fund[d].pc = "sent" /\ fund[d].tx \in arrived
    BY <1>4, <1>a DEF TopUpFinal, Goes, Resolving, Deploys
  <2>2. /\ f \in Deploys /\ f.tx = fund[d].tx /\ f.pc = "granted"
        /\ f.spent = fund[d].spent /\ f.stage = fund[d].stage
    BY <1>a DEF Deploys
  <2>3. (d \notin Sources /\ ~f.spent) => final[d] >= Floor[f.stage]
    BY <1>a, <2>1, <2>2 DEF Credited
  <2> HIDE DEF f
  <2> QED BY <1>4, <1>b, <2>1, <2>2, <2>3 DEF MappedBefore, TopUpFinal
<1>5. CASE MapAccount(d) \/ MapExplicitly(d) \/ Submits(d)
  <2>1. CASE FundingKeepsChain
    <3>1. PICK f \in {[fund[d] EXCEPT !.pc = "passed"], [fund[d] EXCEPT !.pc = "refused"],
                      [fund[d] EXCEPT !.pc = "done"]} :
            /\ fund' = [fund EXCEPT ![d] = f]
            /\ f.pc = "passed" => d \in mapped'
      BY <1>5, <1>a DEF MapAccount, MapExplicitly, Submits, Goes, Deploys
    <3>2. /\ f \in Deploys /\ f.tx = fund[d].tx /\ f.pc \in {"passed", "refused", "done"}
          /\ f.spent = fund[d].spent /\ f.stage = fund[d].stage
      BY <1>a, <3>1 DEF Deploys
    <3> QED BY <1>b, <2>1, <3>1, <3>2 DEF MappedBefore
  <2>2. CASE ~FundingKeepsChain
    <3>1. PICK f \in {[fund[d] EXCEPT !.pc = "passed"],
                      [fund[d] EXCEPT !.pc = "done"]} :
            /\ fund' = [fund EXCEPT ![d] = f]
            /\ final[d] >= Fee /\ best[d] >= Fee
            /\ final' = [final EXCEPT ![d] = @ - Fee] /\ best' = [best EXCEPT ![d] = @ - Fee]
            /\ mapped' \in {mapped, mapped \union {d}}
            /\ f.pc = "passed" => d \in mapped'
            /\ UNCHANGED <<funding, sending, inBest, arrived, fundReorgs, topUps>>
      BY <1>5, <2>2, <1>a DEF MapAccount, MapExplicitly, Submits, Goes, Deploys
    <3>2. /\ f \in Deploys /\ f.tx = fund[d].tx /\ f.pc \in {"passed", "done"}
          /\ f.stage = fund[d].stage
      BY <1>a, <3>1 DEF Deploys
    <3>3. mapped' \subseteq Signers /\ mapped \subseteq mapped'
      BY <3>1 DEF FundingTypeOK
    <3>4. Fee <= final[d] /\ Fee <= best[d]
      BY <1>a, <3>1
    <3> QED BY <1>a, <1>c, <3>1, <3>2, <3>3, <3>4 DEF MappedBefore
  <2> QED BY <2>1, <2>2
<1>6. CASE RefuseShort(d) \/ NextStage(d)
  <2>1. PICK f \in {[fund[d] EXCEPT !.pc = "refused"],
                    [fund[d] EXCEPT !.pc = "gate",
                         !.stage = IF @ = "map" THEN "preflight" ELSE "submit"]} :
          /\ fund' = [fund EXCEPT ![d] = f]
          /\ f.pc = "gate" => fund[d].pc = "passed" \/ fund[d].stage # "map"
          /\ f.pc = "refused" => fund[d].stage # "map"
    BY <1>6, <1>a DEF RefuseShort, NextStage, Goes, Deploys
  <2>2. /\ f \in Deploys /\ f.tx = fund[d].tx /\ f.pc \in {"refused", "gate"}
        /\ f.spent = fund[d].spent
    BY <1>a, <2>1 DEF Deploys, Stages
  <2> QED BY <1>6, <1>b, <2>1, <2>2 DEF MappedBefore, RefuseShort, NextStage
<1>7. CASE SiblingSpends(d)
  <2> DEFINE f == [fund[d] EXCEPT !.spent = TRUE]
  <2>1. /\ fund' = [fund EXCEPT ![d] = f] /\ final[d] > 0 /\ best[d] > 0
        /\ final' = [final EXCEPT ![d] = @ - 1] /\ best' = [best EXCEPT ![d] = @ - 1]
        /\ UNCHANGED <<funding, sending, inBest, arrived, mapped, fundReorgs, topUps>>
    BY <1>7, <1>a DEF SiblingSpends, Deploys
  <2>2. /\ f \in Deploys /\ f.tx = fund[d].tx /\ f.pc = fund[d].pc
        /\ f.spent /\ f.stage = fund[d].stage
    BY <1>a DEF Deploys
  <2>3. 1 <= final[d] /\ 1 <= best[d] /\ 1 \in Nat
    BY <1>a, <2>1
  <2> HIDE DEF f
  <2>4. mapped' \subseteq Signers /\ mapped \subseteq mapped'
    BY <2>1 DEF FundingTypeOK
  <2> QED BY <1>a, <1>c, <2>1, <2>2, <2>3, <2>4 DEF MappedBefore
<1> QED BY <1>1, <1>2, <1>3, <1>4, <1>5, <1>6, <1>7 DEF FundingStep

\* So every step of the chain and of a deploy keeps it.
LEMMA FundingNextKeeps == FundingInv /\ [FundingNext]_FundingVars => FundingInv'
<1>1. FundingInv /\ UNCHANGED FundingVars => FundingInv'
  BY DEF FundingInv, FundingVars, FundingTypeOK, NumbersUsed, Awaited, Credited,
         MappedBefore, GrantedMeansFunded, Suffices
<1> QED BY <1>1, ChainKeepsFunding, DeployKeepsFunding DEF FundingNext

\* GrantedMeansFunded for any number of deploys on the same two sources, any floors,
\* top-ups and reorganisations: a deploy the gate let through has its balance on the
\* finalised chain, and is mapped before its later stages (ensureSignerFunded).
THEOREM GrantsAreFunded == FundingSpec => [](FundingTypeOK /\ GrantedMeansFunded)
<1>1. FundingInv => FundingTypeOK /\ GrantedMeansFunded
  BY DEF FundingInv
<1> QED BY <1>1, FundingInitHolds, FundingNextKeeps, PTL DEF FundingSpec

(***************************************************************************)
(* Personhood. A claim counts as done when it is final, and what it paid   *)
(* in stays until a transaction that pays in PGAS is in a block.           *)
(***************************************************************************)

\* The steps of one bootstrap.
PersonSteps == {"probe", "fee", "keys", "root", "send", "watch", "done", "failed"}

\* The process's record.
PersonRecords ==
    [job : Jobs, step : PersonSteps, run : 1..MaxPersonRuns, kind : Kinds \ {"write"},
     members : 0..MaxRing, rev : 0..MaxRing, at : 0..MaxMoment, did : SUBSET Kinds]

PersonRecord == person \in PersonRecords

\* A block whose state holds a claim and no spending holds the claim's amount.
ClaimStays(txs, pgas) ==
    (\E t \in txs : t.kind = "claim") => ClaimAmount <= pgas \/ \E t \in txs : t.kind \in PaidInPgas

\* Only signed transactions fail in a block; what the process has claimed is final.
PersonBooks ==
    /\ \A t \in failedTxs : t.kind \in SignedKinds
    /\ ClaimStays(bestTxs, bestPgas) /\ ClaimStays(finalTxs, finalPgas)
    /\ "claim" \in person.did => \E t \in finalTxs : t.kind = "claim"

\* A transaction of this run that pays in PGAS is the alias it has sent.
PersonSent ==
    \A t \in floating \union bestTxs :
        /\ t.run <= person.run
        /\ t.run = person.run /\ t.kind \in PaidInPgas
             => \/ person.step = "watch" /\ person.kind = "alias"
                \/ person.step \in {"failed", "done"}
                \/ "alias" \in person.did

\* The alias is asked for once in a run.
PersonOrder ==
    /\ "alias" \in person.did => ~BindsAlias
    /\ person.step = "fee" => person.kind = "alias"

\* The inductive invariant.
PersonInv == PersonTypeOK /\ PersonRecord /\ PersonBooks /\ PersonSent /\ PersonOrder

\* The revision the alias row holds is one of the ring's.
LEMMA StoredRevisionTyped ==
  ASSUME PersonTypeOK, Bound("alias")
  PROVE  StoredRevision \in 0..MaxRing
<1> DEFINE revs == {t.rev : t \in Of("alias") \union Of("reprove")}
<1>1. revs # {} /\ revs \subseteq 0..MaxRing
  BY DEF Bound, Of, PersonTypeOK, PersonTx
<1>2. \E v \in revs : \A w \in revs : w <= v
  BY <1>1, LargestOf, PersonAssumption
<1> QED BY <1>1, <1>2 DEF StoredRevision

\* The invariant gives the property: this run's alias is not sent yet, so whatever has
\* spent is another's, and where nothing has, the final claim is still there.
LEMMA PersonInvCovers == PersonInv => ClaimedCoversFee
<1> SUFFICES ASSUME PersonInv, "claim" \in person.did, BindsAlias, ~SpentElsewhere,
                    WeightFee + aliasFee <= ClaimAmount
             PROVE  WeightFee + aliasFee <= bestPgas
  BY DEF ClaimedCoversFee
<1>1. ~\E t \in bestTxs : t.kind \in PaidInPgas
  BY DEF PersonInv, PersonSent, PersonOrder, BindsAlias, SpentElsewhere
<1>2. \E t \in bestTxs : t.kind = "claim"
  BY DEF PersonInv, PersonBooks, PersonTypeOK
<1>3. ClaimAmount <= bestPgas
  BY <1>1, <1>2 DEF PersonInv, PersonBooks, ClaimStays
<1> QED BY <1>3, PersonAssumption DEF PersonInv, PersonTypeOK

\* Every start satisfies it: nothing is sent, and nothing claimed.
LEMMA PersonInitHolds == PersonInit => PersonInv
<1> SUFFICES ASSUME NEW start \in PersonStarts, PersonBegin(start) PROVE PersonInv
  BY DEF PersonInit
<1>1. PersonTypeOK /\ PersonRecord
  BY PersonAssumption DEF PersonBegin, PersonTypeOK, PersonRecord, PersonRecords, PersonRun, Jobs, Kinds,
     PersonSteps, PersonStart
<1>2. PersonBooks /\ PersonSent /\ PersonOrder
  BY DEF PersonBegin, PersonRun, PersonBooks, PersonSent, PersonOrder, ClaimStays
<1> QED BY <1>1, <1>2 DEF PersonInv

\* A block that takes a transaction in has its type and keeps what a claim paid in.
LEMMA BlockKeepsClaims ==
  ASSUME PersonInv, NEW t \in PersonTx, EntersBlock(t)
  PROVE  /\ bestTxs' = bestTxs \union {t} /\ failedTxs' \in {failedTxs, failedTxs \union {t}}
         /\ \A u \in failedTxs' : u.kind \in SignedKinds
         /\ bestPgas' \in Nat /\ ClaimStays(bestTxs', bestPgas')
<1> USE PersonAssumption
<1>1. /\ bestTxs' = bestTxs \union {t} /\ failedTxs' \in {failedTxs, failedTxs \union {t}}
      /\ bestPgas' = PgasAfter(t)
  BY DEF EntersBlock
<1>2. \A u \in failedTxs' : u.kind \in SignedKinds
  BY DEF EntersBlock, PersonInv, PersonBooks
<1>3. bestPgas \in Nat /\ aliasFee \in Nat /\ WeightFee \in Nat /\ ClaimAmount \in Nat
  BY DEF PersonInv, PersonTypeOK
<1>4. CASE t.kind \in PaidInPgas
  <2>1. WeightFee <= bestPgas /\ t.kind # "claim"
    BY <1>4 DEF EntersBlock, PaidInPgas
  <2>2. t.kind = "alias" /\ Applies(t) => WeightFee + aliasFee <= bestPgas
    BY DEF Applies
  <2>3. bestPgas' \in {bestPgas - WeightFee - 0 + 0, bestPgas - WeightFee - aliasFee + 0}
        /\ (~(t.kind = "alias" /\ Applies(t)) => bestPgas' = bestPgas - WeightFee - 0 + 0)
    BY <1>1, <1>4, <2>1 DEF PgasAfter
  <2>4. bestPgas' \in Nat
    BY <1>3, <2>1, <2>2, <2>3
  <2>5. ClaimStays(bestTxs', bestPgas')
    BY <1>1, <1>4 DEF ClaimStays
  <2> QED BY <1>1, <1>2, <2>4, <2>5
<1>5. CASE t.kind \notin PaidInPgas
  <2>1. t.kind # "alias"
    BY <1>5 DEF PaidInPgas
  <2>2. CASE t.kind = "claim"
    <3>1. Applies(t)
      BY <2>2 DEF EntersBlock, SignedKinds
    <3>2. bestPgas' = bestPgas - 0 - 0 + ClaimAmount
      BY <1>1, <1>5, <2>1, <2>2, <3>1 DEF PgasAfter
    <3>3. bestPgas' \in Nat /\ ClaimAmount <= bestPgas'
      BY <1>3, <3>2
    <3> QED BY <1>1, <1>2, <3>3 DEF ClaimStays
  <2>3. CASE t.kind # "claim"
    <3>1. bestPgas' = bestPgas - 0 - 0 + 0
      BY <1>1, <1>5, <2>1, <2>3 DEF PgasAfter
    <3>2. bestPgas' = bestPgas
      BY <1>3, <3>1
    <3>3. ClaimStays(bestTxs', bestPgas')
      BY <1>1, <2>3, <3>2 DEF ClaimStays, PersonInv, PersonBooks
    <3> QED BY <1>1, <1>2, <1>3, <3>2, <3>3
  <2> QED BY <2>2, <2>3
<1> QED BY <1>4, <1>5

\* The chains move transactions between the pool, the best block and the final one; what
\* was final stays so, and the process's record is not theirs.
LEMMA PersonChainKeeps ==
  ASSUME PersonInv, \/ ClockTicks \/ RingChanges \/ RootPublished \/ FeeChanges \/ DeployWrites
                    \/ PoolMoves \/ BestFinalised \/ BestReorganised
  PROVE  PersonInv'
<1> USE PersonAssumption DEF PersonInv
<1>0. person' = person
  BY DEF ClockTicks, RingChanges, RootPublished, FeeChanges, DeployWrites, PoolMoves, BestFinalised,
         BestReorganised
<1>1. PersonRecord' /\ PersonOrder'
  BY <1>0 DEF PersonRecord, PersonRecords, PersonOrder, BindsAlias
<1>2. CASE ClockTicks \/ RingChanges \/ RootPublished \/ FeeChanges
  <2>1. PersonTypeOK'
    BY <1>2 DEF ClockTicks, RingChanges, RootPublished, FeeChanges, PersonBlocks, PersonTypeOK
  <2>2. PersonBooks' /\ PersonSent'
    BY <1>2 DEF ClockTicks, RingChanges, RootPublished, FeeChanges, PersonBlocks, PersonBooks, PersonSent,
                ClaimStays
  <2> QED BY <1>1, <2>1, <2>2
<1>3. ASSUME NEW t \in PersonTx, EntersBlock(t), t.run <= person.run,
             t.run = person.run /\ t.kind \in PaidInPgas => t \in floating,
             floating' \subseteq floating,
             UNCHANGED <<standing, moment, ring, root, aliasFee, finalTxs, finalPgas, personReorgs>>
      PROVE  PersonInv'
  <2>1. /\ bestTxs' = bestTxs \union {t} /\ failedTxs' \in {failedTxs, failedTxs \union {t}}
        /\ \A u \in failedTxs' : u.kind \in SignedKinds
        /\ bestPgas' \in Nat /\ ClaimStays(bestTxs', bestPgas')
    BY <1>3, BlockKeepsClaims
  <2>2. PersonTypeOK'
    BY <1>0, <1>3, <2>1 DEF PersonTypeOK
  <2>3. PersonBooks'
    BY <1>0, <1>3, <2>1 DEF PersonBooks, ClaimStays
  <2>4. PersonSent'
    BY <1>0, <1>3, <2>1 DEF PersonSent
  <2> QED BY <1>1, <2>2, <2>3, <2>4
<1>4. CASE DeployWrites
  <2> DEFINE t == [kind |-> "write", run |-> 0, members |-> 0, rev |-> 0, at |-> 0]
  <2>1. t \in PersonTx /\ t.run = 0 /\ person.run \in 1..MaxPersonRuns
    BY DEF PersonTx, Kinds, PersonTypeOK
  <2>2. EntersBlock(t) /\ floating' = floating
        /\ UNCHANGED <<standing, moment, ring, root, aliasFee, finalTxs, finalPgas, personReorgs>>
    BY <1>4 DEF DeployWrites
  <2> HIDE DEF t, PersonInv
  <2> QED BY <1>3, <2>1, <2>2
<1>5. CASE PoolMoves
  <2>1. PICK t \in floating :
          /\ floating' = floating \ {t}
          /\ EntersBlock(t) \/ UNCHANGED <<bestTxs, failedTxs, bestPgas>>
          /\ UNCHANGED <<standing, moment, ring, root, aliasFee, finalTxs, finalPgas, personReorgs>>
    BY <1>5 DEF PoolMoves
  <2>2. t \in PersonTx /\ t.run <= person.run
    BY DEF PersonTypeOK, PersonSent
  <2>3. CASE EntersBlock(t)
    BY <1>3, <2>1, <2>2, <2>3
  <2>4. CASE UNCHANGED <<bestTxs, failedTxs, bestPgas>>
    <3>1. PersonTypeOK'
      BY <1>0, <2>1, <2>4 DEF PersonTypeOK
    <3>2. PersonBooks' /\ PersonSent'
      BY <1>0, <2>1, <2>4 DEF PersonBooks, PersonSent, ClaimStays
    <3> QED BY <1>1, <3>1, <3>2
  <2> QED BY <2>1, <2>3, <2>4
<1>6. CASE BestFinalised
  <2>1. PersonTypeOK'
    BY <1>6 DEF BestFinalised, PersonTypeOK
  <2>2. PersonBooks' /\ PersonSent'
    BY <1>6 DEF BestFinalised, PersonTypeOK, PersonBooks, PersonSent, ClaimStays
  <2> QED BY <1>1, <2>1, <2>2
<1>7. CASE BestReorganised
  <2>1. PersonTypeOK'
    BY <1>7 DEF BestReorganised, PersonTypeOK
  <2>2. PersonBooks' /\ PersonSent'
    BY <1>7 DEF BestReorganised, PersonTypeOK, PersonBooks, PersonSent, ClaimStays
  <2> QED BY <1>1, <2>1, <2>2
<1> QED BY <1>2, <1>4, <1>5, <1>6, <1>7

\* A process that starts again changes nothing but its own record.
LEMMA RunsAgainEffect ==
  ASSUME PersonRunsAgain
  PROVE  /\ person.run < MaxPersonRuns
         /\ UNCHANGED PersonChain
         /\ \E job \in Jobs :
               person' = [job |-> job, step |-> "probe", run |-> person.run + 1, kind |-> "id",
                          members |-> 0, rev |-> 0, at |-> 0, did |-> {}]
  BY DEF PersonRunsAgain, PersonRun

\* A step of the process. Only a claim that is final is counted as done, and only the
\* step that sends the alias puts a transaction of this run where PGAS is spent.
LEMMA PersonProcessKeeps ==
  ASSUME PersonInv,
         \/ BootstrapProbes \/ FeeCovered \/ ReproveReadsRow \/ RingKeysRead \/ ProofBuilt
         \/ PersonSends \/ PersonResolves \/ PersonRejected
         \/ PersonBreaks \/ PersonRunsAgain
  PROVE  PersonInv'
<1> USE PersonAssumption DEF PersonInv
\* Where the chains stand still and the run goes on, its record is all there is to see.
<1>a. ASSUME UNCHANGED PersonChain, PersonRecord', PersonOrder',
             person'.run = person.run, person.did \subseteq person'.did,
             "claim" \in person'.did => \E t \in finalTxs : t.kind = "claim",
             person.step = "watch" /\ person.kind = "alias"
               => person'.step \in {"failed", "done"} \/ "alias" \in person'.did,
             person.step \notin {"failed", "done"}
      PROVE  PersonInv'
  <2>1. PersonTypeOK'
    BY <1>a DEF PersonTypeOK, PersonRecord, PersonRecords, PersonChain, PersonBlocks, PersonSteps
  <2>2. PersonBooks'
    BY <1>a DEF PersonBooks, PersonChain, PersonBlocks
  <2>3. PersonSent'
    BY <1>a DEF PersonSent, PersonChain, PersonBlocks
  <2> QED BY <1>a, <2>1, <2>2, <2>3
<1>b. /\ ring \in 0..MaxRing /\ root \in 0..MaxRing /\ moment \in 0..MaxMoment
      /\ 0 \in 0..MaxRing /\ 0 \in 0..MaxMoment /\ 1 \in 1..MaxPersonRuns
      /\ person \in PersonRecords
  BY DEF PersonTypeOK, PersonRecord
\* The same where nothing was awaited and nothing is done yet.
<1>c. ASSUME UNCHANGED PersonChain, PersonRecord', PersonOrder',
             person'.run = person.run, person'.did = person.did,
             person.step \notin {"watch", "failed", "done"}
      PROVE  PersonInv'
  BY <1>a, <1>c DEF PersonBooks
<1>1. CASE BootstrapProbes
  <2>1. person.step = "probe" /\ UNCHANGED PersonChain
    BY <1>1 DEF BootstrapProbes
  <2>2. CASE person' = Ends("failed") \/ person' = Ends("done")
    <3>1. PersonRecord' /\ person'.did = person.did /\ person'.run = person.run
          /\ person'.step \in {"failed", "done"}
      BY <1>b, <2>2 DEF PersonRecord, PersonRecords, Ends, PersonSteps
    <3>2. PersonOrder'
      BY <3>1 DEF PersonOrder, BindsAlias
    <3> QED BY <1>c, <2>1, <3>1, <3>2
  <2>3. CASE person' = [person EXCEPT !.kind = "id", !.at = moment, !.step = "send"]
    <3>1. PersonRecord' /\ person'.did = person.did /\ person'.run = person.run
          /\ person'.kind = "id" /\ person'.step = "send"
      BY <1>b, <2>3 DEF PersonRecord, PersonRecords, Kinds, PersonSteps
    <3>2. PersonOrder'
      BY <3>1 DEF PersonOrder, BindsAlias
    <3> QED BY <1>c, <2>1, <3>1, <3>2
  <2>4. ASSUME NEW k \in {"claim", "alias"}, NEW s \in {"fee", "keys"},
               person' = [Proves(k) EXCEPT !.step = s],
               k = "alias" => "alias" \notin person.did, s = "fee" => k = "alias"
        PROVE  PersonInv'
    <3>1. k \in Kinds \ {"write"} /\ s \in PersonSteps /\ "keys" \in PersonSteps
      BY DEF Kinds, PersonSteps
    <3>2. Proves(k) \in PersonRecords /\ Proves(k).did = person.did /\ Proves(k).run = person.run
          /\ Proves(k).kind = k
      BY <1>b, <3>1 DEF Proves, PersonRecords
    <3>3. PersonRecord' /\ person'.did = person.did /\ person'.run = person.run
          /\ person'.kind = k /\ person'.step = s
      BY <2>4, <3>1, <3>2 DEF PersonRecord, PersonRecords
    <3>4. PersonOrder'
      BY <2>4, <3>3 DEF PersonOrder, BindsAlias
    <3> QED BY <1>c, <2>1, <3>3, <3>4
  <2>5. /\ NextBootstrapStep \in {"id", "claim", "alias", "none"}
        /\ NextBootstrapStep = "alias" => "alias" \notin person.did
    BY DEF NextBootstrapStep
  <2> QED BY <1>1, <2>2, <2>3, <2>4, <2>5 DEF BootstrapProbes
<1>2. CASE FeeCovered
  <2>1. person.step = "fee" /\ person.kind = "alias" /\ UNCHANGED PersonChain
    BY <1>2 DEF FeeCovered, PersonOrder
  <2>2. "alias" \notin person.did
    BY <2>1 DEF PersonOrder, BindsAlias
  <2>3. person' \in {Ends("failed"), Proves("alias")}
    BY <1>2 DEF FeeCovered
  <2>4. PersonRecord' /\ person'.did = person.did /\ person'.run = person.run
        /\ person'.step \in {"failed", "keys"}
    BY <1>b, <2>3 DEF PersonRecord, PersonRecords, Ends, Proves, PersonSteps, Kinds
  <2>5. PersonOrder'
    BY <2>2, <2>4 DEF PersonOrder, BindsAlias
  <2> QED BY <1>c, <2>1, <2>4, <2>5
<1>3. CASE ReproveReadsRow
  <2>1. person.step = "probe" /\ UNCHANGED PersonChain
    BY <1>3 DEF ReproveReadsRow
  <2>2. \/ person' = Ends("failed")
        \/ /\ Bound("alias")
           /\ person' = [Proves("reprove") EXCEPT !.rev = StoredRevision]
    BY <1>3 DEF ReproveReadsRow
  <2>3. Bound("alias") => StoredRevision \in 0..MaxRing
    BY StoredRevisionTyped
  <2>4. PersonRecord' /\ person'.did = person.did /\ person'.run = person.run
        /\ (person'.step = "failed" \/ (person'.step = "keys" /\ person'.kind = "reprove"))
    BY ZenonT(60), <1>b, <2>2, <2>3 DEF PersonRecord, PersonRecords, Ends, Proves, Kinds, PersonSteps
  <2>5. PersonOrder'
    BY <2>4 DEF PersonOrder, BindsAlias
  <2> QED BY <1>c, <2>1, <2>4, <2>5
<1>4. CASE RingKeysRead \/ ProofBuilt
  <2>1. person.step \in {"keys", "root"} /\ UNCHANGED PersonChain
    BY <1>4 DEF RingKeysRead, ProofBuilt
  <2>2. person' \in {Ends("failed"), [person EXCEPT !.members = ring, !.step = "root"],
                     [person EXCEPT !.rev = root, !.at = moment, !.step = "send"]}
    BY <1>4 DEF RingKeysRead, ProofBuilt
  <2>3. PersonRecord' /\ person'.did = person.did /\ person'.run = person.run
        /\ person'.kind = person.kind /\ person'.step \in {"failed", "root", "send"}
    BY <1>b, <2>2 DEF PersonRecord, PersonRecords, Ends, PersonSteps
  <2>4. PersonOrder'
    BY <2>1, <2>3 DEF PersonOrder, BindsAlias
  <2> QED BY <1>c, <2>1, <2>3, <2>4
<1>5. CASE PersonRejected \/ PersonBreaks
  <2>1. person' = Ends("failed") /\ person.step \notin {"failed", "done"} /\ UNCHANGED PersonChain
    BY <1>5 DEF PersonRejected, PersonBreaks
  <2>2. PersonRecord' /\ person'.did = person.did /\ person'.run = person.run
        /\ person'.step = "failed"
    BY <1>b, <2>1 DEF PersonRecord, PersonRecords, Ends, PersonSteps
  <2>3. PersonOrder'
    BY <2>2 DEF PersonOrder, BindsAlias
  <2> QED BY <1>a, <2>1, <2>2, <2>3 DEF PersonBooks
<1>6. CASE PersonSends
  <2>1. PersonRecord' /\ person'.did = person.did /\ person'.run = person.run
        /\ person'.kind = person.kind /\ person'.step = "watch"
    BY <1>b, <1>6 DEF PersonSends, PersonRecord, PersonRecords, Ends, PersonSteps
  <2>2. SentTx \in PersonTx /\ SentTx.run = person.run /\ SentTx.kind = person.kind
    BY <1>b DEF PersonRecords, SentTx, PersonTx
  <2>3. floating' = floating \union {SentTx} /\ person.step = "send"
        /\ UNCHANGED <<standing, moment, ring, root, aliasFee, PersonBlocks, personReorgs>>
    BY <1>6 DEF PersonSends
  <2>4. PersonTypeOK'
    BY <2>1, <2>2, <2>3 DEF PersonTypeOK, PersonBlocks, PersonRecord, PersonRecords, PersonSteps
  <2>5. PersonBooks' /\ PersonOrder'
    BY <2>1, <2>3 DEF PersonBooks, PersonBlocks, PersonOrder, BindsAlias
  <2>6. SentTx.kind \in PaidInPgas => SentTx.kind = "alias"
    <3>1. person.kind # "write"
      BY <1>b DEF PersonRecords
    <3> QED BY <2>2, <3>1 DEF PaidInPgas
  <2>7. PersonSent'
    BY <2>1, <2>2, <2>3, <2>6 DEF PersonSent, PersonBlocks, PersonTypeOK
  <2> QED BY <2>1, <2>4, <2>5, <2>7
<1>7. CASE PersonResolves
  <2>1. UNCHANGED PersonChain /\ person.step = "watch"
        /\ SentTx \in finalTxs /\ SentTx.kind = person.kind
    BY <1>7 DEF PersonResolves, Resolvable, SentTx
  <2>2. PersonRecord' /\ person'.did = person.did \union {person.kind}
        /\ person'.run = person.run /\ person'.step \in {"probe", "done"}
    BY <1>7, <1>b DEF PersonResolves, PersonRecord, PersonRecords, PersonSteps
  <2>3. "claim" \in person'.did => \E t \in finalTxs : t.kind = "claim"
    BY <2>1, <2>2 DEF PersonBooks
  <2>4. PersonOrder'
    BY <2>2 DEF PersonOrder, BindsAlias
  <2> QED BY <1>a, <2>1, <2>2, <2>3, <2>4
<1>8. CASE PersonRunsAgain
  <2>1. PICK job \in Jobs :
          person' = [job |-> job, step |-> "probe", run |-> person.run + 1, kind |-> "id",
                     members |-> 0, rev |-> 0, at |-> 0, did |-> {}]
    BY <1>8, RunsAgainEffect
  <2>2. person.run + 1 \in 1..MaxPersonRuns /\ person.run \in Nat
    <3>1. person.run \in 1..MaxPersonRuns
      BY DEF PersonTypeOK
    <3>2. person.run < MaxPersonRuns
      BY <1>8, RunsAgainEffect
    <3> HIDE DEF PersonInv
    <3> QED BY <3>1, <3>2
  <2>3. PersonRecord' /\ person'.did = {} /\ person'.run = person.run + 1 /\ person'.step = "probe"
    BY <1>b, <2>1, <2>2 DEF PersonRecord, PersonRecords, PersonRun, PersonSteps, Kinds
  <2>4. UNCHANGED PersonChain
    BY <1>8, RunsAgainEffect
  <2>5. PersonTypeOK'
    BY <2>3, <2>4 DEF PersonTypeOK, PersonRecord, PersonRecords, PersonChain, PersonBlocks, PersonSteps
  <2>6. PersonBooks' /\ PersonOrder'
    BY <2>3, <2>4 DEF PersonBooks, PersonOrder, BindsAlias, PersonChain, PersonBlocks
  <2>7. PersonSent'
    <3>1. \A t \in floating \union bestTxs : t.run \in Nat /\ t.run <= person.run
      BY DEF PersonSent, PersonTypeOK, PersonTx
    <3>2. \A t \in floating' \union bestTxs' : t.run <= person'.run /\ t.run # person'.run
      BY <2>2, <2>3, <2>4, <3>1 DEF PersonChain, PersonBlocks
    <3> QED BY <3>2 DEF PersonSent
  <2> QED BY <2>3, <2>5, <2>6, <2>7
<1> QED BY <1>1, <1>2, <1>3, <1>4, <1>5, <1>6, <1>7, <1>8


\* So every step keeps it.
LEMMA PersonNextKeeps == PersonInv /\ [PersonhoodNext]_PersonVars => PersonInv'
<1>1. PersonInv /\ UNCHANGED PersonVars => PersonInv'
  BY DEF PersonInv, PersonVars, PersonChain, PersonBlocks, PersonTypeOK, PersonRecord, PersonRecords,
         PersonBooks, PersonSent, PersonOrder, BindsAlias, ClaimStays
<1> QED BY <1>1, PersonChainKeeps, PersonProcessKeeps DEF PersonhoodNext

\* ClaimedCoversFee for any amounts, fees that change, clocks, rings, runs and
\* reorganisations: a bootstrap that has claimed in this run can pay for the alias it is
\* about to bind, weight included (runBootstrap, which counts a claim when it is final).
THEOREM ClaimsCoverTheFee == PersonhoodSpec => [](PersonTypeOK /\ ClaimedCoversFee)
<1>1. PersonInv => PersonTypeOK /\ ClaimedCoversFee
  BY PersonInvCovers DEF PersonInv
<1> QED BY <1>1, PersonInitHolds, PersonNextKeeps, PTL DEF PersonhoodSpec

(***************************************************************************)
(* StorageAccess. The account a provider hands out follows from the mode   *)
(* it is in and from whether it is still on its slot; the queue check      *)
(* compares with the nonce it read first.                                  *)
(***************************************************************************)

AccessPCs == {"connect", "draw", "sample", "confirm", "authorise", "has", "refused"}
Reasons == {"none", "slot", "unauthorised", "pin", "stuck"}
Accesses ==
    [pc : AccessPCs, useSlot : BOOLEAN, checkQueue : BOOLEAN, tries : 0..SlotTries,
     rest : SUBSET PoolAccounts, first : PoolAccounts \union {NoAccount},
     account : StoreAccounts \union {NoAccount}, base : SUBSET Nat, seen : SUBSET Nat,
     left : 0..ConfirmReads, why : Reasons]
Boots ==
    [pc : {"idle", "grant", "done", "stopped"}, at : 0..MaxBlock,
     todo : SUBSET PoolAccounts, failed : SUBSET PoolAccounts]

\* Every variable has its type, and what the types leave open about the providers:
\* a refusal has a reason, and an account is drawn from the pool unless it is the
\* caller's own.
StorageTyped ==
    /\ storage \in StorageStarts
    /\ block \in 0..MaxBlock /\ expires \in [StoreAccounts -> Nat]
    /\ head \in [StoreAccounts -> 0..MaxNonce]
    /\ next \in [StoreAccounts -> [NodeSet -> 0..MaxNonce]]
    /\ access \in Accesses /\ boot \in Boots
    /\ uses \in Seq(StoreAccounts)

AccessInv ==
    /\ Len(uses) <= MaxConnects
    /\ access.pc \notin {"has", "refused"} => Len(uses) < MaxConnects
    /\ access.pc # "refused" => access.why = "none"
    /\ access.pc = "connect" => access.account = NoAccount
    /\ access.pc = "draw" => StorageMode # "direct"
    /\ access.pc \in {"sample", "confirm", "authorise"} =>
           \/ StorageMode = "direct" /\ access.account = OwnAccount
           \/ StorageMode # "direct" /\ {access.account, access.first} \subseteq PoolAccounts

\* The queue check: one nonce is read, and what it is compared with is behind it.
QueueInv ==
    /\ access.base = {} \/ \E b \in access.base : access.base = {b}
    /\ access.pc = "confirm" => access.base # {} /\ ~Ahead(Min(access.seen))

\* On its slot a deploy has used nothing else; off it, it is not on mainnet.
SlotInv ==
    StorageMode = "slot" =>
        /\ access.useSlot => \A i \in DOMAIN uses : uses[i] = SlotAccount
        /\ ~access.useSlot => storage.network # "mainnet"
        /\ access.pc \in {"draw", "sample", "confirm", "authorise"} => ~access.useSlot

\* What the bootstrap is done with is authorised beyond its buffer.
BootInv ==
    /\ boot.at <= block
    /\ boot.pc = "done" => boot.todo = {}
    /\ boot.pc \in {"grant", "done"} =>
           \A a \in PoolAccounts \ (boot.todo \union boot.failed) :
               boot.at + storage.buffer < expires[a]

StorageInv ==
    StorageTyped /\ AccessInv /\ QueueInv /\ SlotInv /\ BootInv /\ NoSignerDrift

\* The start of a behaviour.
LEMMA StorageStartTyped ==
  ASSUME StorageTyped
  PROVE  /\ storage.buffer \in Nat /\ storage.buffer < AuthPeriod
         /\ storage.blocks \in 0..MaxBlock /\ storage.busy \subseteq StoreAccounts
         /\ storage.pinned \in PoolAccounts \union {NoAccount, "missing"}
         /\ storage.shut \subseteq NodeSet
BY StorageAssumption DEF StorageTyped, StorageStart

\* Every start satisfies it: nothing is drawn and nothing granted.
LEMMA StorageInitHolds == StorageInit => StorageInv
<1> SUFFICES ASSUME NEW start \in StorageStarts, StorageBegin(start) PROVE StorageInv
  BY DEF StorageInit
<1> USE StorageAssumption
<1>1. start \in StorageStart
  OBVIOUS
<1>2. access \in Accesses /\ boot \in Boots
  BY DEF StorageBegin, Accesses, AccessPCs, Reasons, Boots
<1>3. StorageTyped
  BY <1>1, <1>2 DEF StorageBegin, StorageStart, StorageTyped
<1>4. /\ access.pc = "connect" /\ access.account = NoAccount /\ access.why = "none"
      /\ access.base = {} /\ access.useSlot /\ uses = <<>> /\ boot.at = 0 /\ boot.pc = "idle"
      /\ block = 0
  BY DEF StorageBegin
<1>5. AccessInv /\ QueueInv /\ SlotInv /\ BootInv /\ NoSignerDrift
  BY <1>4 DEF AccessInv, QueueInv, SlotInv, BootInv, NoSignerDrift
<1> QED BY <1>3, <1>5 DEF StorageInv

\* The chain and its nodes leave the deploy and the bootstrap where they are.
LEMMA ChainKeepsStorage ==
  ASSUME StorageInv, \/ NextBlock
                     \/ \E a \in storage.busy : \/ Gossip(a) \/ IncludeHead(a)
                                                \/ \E n \in NodeSet : SentElsewhere(a, n)
  PROVE  StorageInv'
<1> USE StorageAssumption DEF StorageInv
<1>1. UNCHANGED <<storage, expires, access, uses, boot>>
  BY DEF NextBlock, Gossip, IncludeHead, SentElsewhere
<1>2. StorageTyped' /\ block <= block'
  <2>1. CASE NextBlock
    BY <1>1, <2>1, StorageStartTyped DEF NextBlock, StorageTyped
  <2>2. ASSUME NEW a \in storage.busy, NEW n \in NodeSet, SentElsewhere(a, n)
        PROVE  StorageTyped' /\ block <= block'
    BY SMTT(60), <1>1, <2>2, StorageStartTyped DEF SentElsewhere, StorageTyped
  <2>3. ASSUME NEW a \in storage.busy, Gossip(a)
        PROVE  StorageTyped' /\ block <= block'
    <3> DEFINE S == {next[a][n] : n \in Open}
               known == Max(S)
    <3>1. a \in StoreAccounts /\ Open \subseteq NodeSet /\ Open # {}
      BY <2>3, StorageStartTyped DEF Gossip, Open
    <3>2. S # {} /\ S \subseteq 0..MaxNonce
      BY <3>1 DEF StorageTyped
    <3>3. known \in 0..MaxNonce
      BY <3>2, LargestOf DEF Max
    <3> HIDE DEF known
    <3>4. next' = [next EXCEPT ![a] = [n \in NodeSet |-> Further(@[n], known)]]
      BY <2>3 DEF Gossip, known
    <3>5. \A n \in NodeSet : Further(next[a][n], known) \in 0..MaxNonce
      BY <3>1, <3>3 DEF Further, StorageTyped
    <3>6. next' \in [StoreAccounts -> [NodeSet -> 0..MaxNonce]]
      BY <3>1, <3>4, <3>5 DEF StorageTyped
    <3>7. block' = block /\ head' = head
      BY <2>3 DEF Gossip
    <3> QED BY <1>1, <3>6, <3>7 DEF StorageTyped
  <2>4. ASSUME NEW a \in storage.busy, IncludeHead(a)
        PROVE  StorageTyped' /\ block <= block'
    <3>1. a \in StoreAccounts
      BY StorageStartTyped
    <3>2. head[a] + 1 \in 0..MaxNonce
      BY <2>4, <3>1 DEF IncludeHead, StorageTyped, Open
    <3>3. \A n \in NodeSet : Further(next[a][n], head[a] + 1) \in 0..MaxNonce
      BY <3>1, <3>2 DEF Further, StorageTyped
    <3>4. /\ next' \in [StoreAccounts -> [NodeSet -> 0..MaxNonce]]
          /\ head' \in [StoreAccounts -> 0..MaxNonce]
      BY <2>4, <3>1, <3>2, <3>3 DEF IncludeHead, StorageTyped
    <3> QED BY <1>1, <2>4, <3>4 DEF IncludeHead, StorageTyped
  <2> QED BY <2>1, <2>2, <2>3, <2>4
<1>3. AccessInv' /\ QueueInv' /\ SlotInv' /\ NoSignerDrift'
  BY <1>1 DEF AccessInv, QueueInv, SlotInv, NoSignerDrift, StorageMode, Ahead, Base
<1>4. BootInv'
  BY <1>1, <1>2 DEF BootInv, StorageTyped, Boots
<1> QED BY <1>2, <1>3, <1>4

\* The bootstrap grants, and lets nothing expire sooner.
LEMMA BootKeepsStorage ==
  ASSUME StorageInv, StartBoot \/ Grant \/ EndBoot
  PROVE  StorageInv'
<1> USE StorageAssumption DEF StorageInv, BootKeeps
<1>1. UNCHANGED <<storage, block, head, next, access, uses>>
  BY DEF StartBoot, Grant, EndBoot
<1>2. AccessInv' /\ QueueInv' /\ SlotInv' /\ NoSignerDrift'
  BY <1>1 DEF AccessInv, QueueInv, SlotInv, NoSignerDrift, StorageMode, Ahead, Base
<1>3. /\ boot \in Boots /\ expires \in [StoreAccounts -> Nat] /\ block \in 0..MaxBlock
      /\ PoolAccounts \subseteq StoreAccounts
      /\ storage.buffer \in Nat /\ storage.buffer < AuthPeriod /\ AuthPeriod \in Nat
      /\ boot.failed \subseteq PoolAccounts /\ boot.todo \subseteq PoolAccounts /\ boot.at \in Nat
  BY SMTT(60), StorageStartTyped DEF StorageTyped, StoreAccounts, Boots
<1>4. CASE StartBoot
  <2>1. PICK unread \in SUBSET PoolAccounts, pc \in {"done", "stopped", "grant"} :
          /\ boot' = [boot EXCEPT !.at = block, !.todo = NeedsAuth(unread), !.pc = pc]
          /\ pc = "done" => NeedsAuth(unread) = {}
    BY <1>4 DEF StartBoot
  <2> DEFINE needs == NeedsAuth(unread)
  <2>2. needs \subseteq PoolAccounts
    BY DEF NeedsAuth
  <2>3. \A a \in PoolAccounts \ needs : block + storage.buffer < expires[a]
    BY <1>3 DEF NeedsAuth
  <2> HIDE DEF needs
  <2>4. boot' \in Boots /\ boot'.at = block /\ boot'.todo = needs /\ boot'.pc = pc
    BY <1>3, <2>1, <2>2 DEF Boots, needs
  <2>5. BootInv'
    BY <1>1, <1>3, <1>4, <2>1, <2>3, <2>4 DEF BootInv, StartBoot, needs
  <2>6. StorageTyped'
    BY <1>1, <1>4, <2>4 DEF StorageTyped, StartBoot
  <2> QED BY <1>2, <2>5, <2>6
<1>5. CASE Grant
  <2>1. PICK a \in boot.todo :
          \/ /\ expires' = [expires EXCEPT ![a] = Further(@, block + AuthPeriod)]
             /\ boot' = [boot EXCEPT !.todo = @ \ {a}]
          \/ /\ boot' = [boot EXCEPT !.todo = @ \ {a}, !.failed = @ \union {a}]
             /\ UNCHANGED expires
    BY <1>5 DEF Grant
  <2>2. a \in StoreAccounts /\ a \in PoolAccounts /\ boot.pc = "grant"
    BY <1>3, <1>5 DEF Grant
  <2>3. CASE /\ expires' = [expires EXCEPT ![a] = Further(@, block + AuthPeriod)]
             /\ boot' = [boot EXCEPT !.todo = @ \ {a}]
    <3>1. /\ boot' \in Boots /\ boot'.at = boot.at /\ boot'.pc = "grant"
          /\ boot'.todo = boot.todo \ {a} /\ boot'.failed = boot.failed
      BY <1>3, <2>2, <2>3 DEF Boots
    <3>2. /\ expires' \in [StoreAccounts -> Nat]
          /\ \A b \in StoreAccounts : expires[b] <= expires'[b]
          /\ block + AuthPeriod <= expires'[a]
      BY <1>3, <2>2, <2>3 DEF Further
    <3>3. BootInv'
      BY <1>1, <1>3, <2>2, <3>1, <3>2 DEF BootInv
    <3>4. StorageTyped'
      BY <1>1, <3>1, <3>2 DEF StorageTyped
    <3> QED BY <1>2, <3>3, <3>4
  <2>4. CASE /\ boot' = [boot EXCEPT !.todo = @ \ {a}, !.failed = @ \union {a}]
             /\ UNCHANGED expires
    <3>1. /\ boot' \in Boots /\ boot'.at = boot.at /\ boot'.pc = "grant"
          /\ boot'.todo = boot.todo \ {a} /\ boot'.failed = boot.failed \union {a}
      BY <1>3, <2>2, <2>4 DEF Boots
    <3>2. BootInv'
      BY <1>1, <1>3, <2>2, <2>4, <3>1 DEF BootInv
    <3>3. StorageTyped'
      BY <1>1, <2>4, <3>1 DEF StorageTyped
    <3> QED BY <1>2, <3>2, <3>3
  <2> QED BY <2>1, <2>3, <2>4
<1>6. CASE EndBoot
  <2>1. boot' \in Boots
    BY <1>3, <1>6 DEF EndBoot, Boots
  <2>2. BootInv'
    BY <1>1, <1>3, <1>6 DEF EndBoot, BootInv, Boots
  <2>3. StorageTyped'
    BY <1>1, <1>6, <2>1 DEF EndBoot, StorageTyped
  <2> QED BY <1>2, <2>2, <2>3
<1> QED BY <1>4, <1>5, <1>6

-----------------------------------------------------------------------------
\* What one step of a provider does with the deploy's record, and with the accounts
\* handed out: it moves on, it hands out the account it has, or it refuses.
LEMMA AccessStepKeeps ==
  ASSUME StorageInv, AccessStep
  PROVE  StorageInv'
<1> USE StorageAssumption DEF AccessKeeps, StorageChain
<1>0. UNCHANGED <<storage, StorageChain, boot>> /\ StorageMode' = StorageMode
  BY DEF AccessStep, ConnectSlot, ConnectSigner, ConnectDirect, ConnectPool, Draw, ReadOnchain,
         Sample, Judge, Confirm, EnsureAuthorized, StorageReconnect, StorageMode
<1>a. BootInv'
  BY <1>0 DEF BootInv, StorageInv
<1>b. /\ access \in Accesses /\ uses \in Seq(StoreAccounts) /\ head \in [StoreAccounts -> Nat]
      /\ \A x \in StoreAccounts, n \in NodeSet : next[x][n] \in Nat
      /\ AccessInv /\ QueueInv /\ SlotInv /\ NoSignerDrift
      /\ MaxConnects \in Nat /\ Len(uses) \in Nat
  BY DEF StorageInv, StorageTyped
<1>c. access' \in Accesses /\ uses' \in Seq(StoreAccounts) => StorageTyped'
  BY <1>0 DEF StorageInv, StorageTyped
\* Where nothing is handed out.
<1>d. ASSUME access' \in Accesses, UNCHANGED uses, AccessInv', QueueInv',
             StorageMode = "slot" =>
               /\ access'.useSlot => access.useSlot
               /\ ~access'.useSlot => storage.network # "mainnet"
               /\ access'.pc \in {"draw", "sample", "confirm", "authorise"} => ~access'.useSlot
      PROVE  StorageInv'
  <2>1. SlotInv' /\ NoSignerDrift'
    BY <1>0, <1>b, <1>d DEF SlotInv, NoSignerDrift
  <2> QED BY <1>a, <1>b, <1>c, <1>d, <2>1 DEF StorageInv
\* A hand-out.
<1>e. ASSUME NEW a \in StoreAccounts, HandOut(a), access.pc \notin {"has", "refused"},
             StorageMode = "slot" =>
               IF access.useSlot THEN a = SlotAccount ELSE a \in PoolAccounts
      PROVE  StorageInv'
  <2>1. /\ access' \in Accesses /\ access'.pc = "has" /\ access'.why = access.why
        /\ access'.base = {} /\ access'.useSlot = access.useSlot
    BY <1>b, <1>e DEF HandOut, Accesses, AccessPCs
  <2>2. /\ uses' \in Seq(StoreAccounts) /\ Len(uses') = Len(uses) + 1
        /\ \A i \in DOMAIN uses' : uses'[i] = IF i \in DOMAIN uses THEN uses[i] ELSE a
        /\ DOMAIN uses = 1..Len(uses) /\ DOMAIN uses' = 1..(Len(uses) + 1)
    BY <1>b, <1>e DEF HandOut
  <2>3. AccessInv' /\ QueueInv'
    BY <1>b, <1>e, <2>1, <2>2 DEF AccessInv, QueueInv
  <2>4. SlotInv'
    BY <1>0, <1>b, <1>e, <2>1, <2>2 DEF SlotInv
  <2>5. NoSignerDrift'
    <3> SUFFICES ASSUME StorageMode = "slot", NEW i \in DOMAIN uses'
                 PROVE  /\ uses'[i] \in PoolAccounts => storage.network # "mainnet"
                        /\ uses'[i] = SlotAccount =>
                               \A j \in 1..i : uses'[j] = SlotAccount
      BY <1>0 DEF NoSignerDrift
    <3>1. CASE access.useSlot
      <4>1. \A j \in DOMAIN uses' : uses'[j] = SlotAccount
        BY <1>b, <1>e, <2>2, <3>1 DEF SlotInv
      <4> QED BY <2>2, <4>1
    <3>2. CASE ~access.useSlot
      <4>1. storage.network # "mainnet" /\ a # SlotAccount
        BY <1>b, <1>e, <3>2 DEF SlotInv
      <4>2. uses'[i] = SlotAccount => i \in DOMAIN uses /\ uses[i] = SlotAccount
        BY <2>2, <4>1
      <4>3. uses'[i] = SlotAccount => \A j \in 1..i : uses[j] = SlotAccount
        BY <1>b, <4>2 DEF NoSignerDrift
      <4>4. ASSUME NEW j \in 1..i, i \in DOMAIN uses PROVE uses'[j] = uses[j]
        <5>1. i \in Nat /\ j \in 1..Len(uses)
          BY SMTT(60), <1>b, <2>2, <4>4
        <5>2. j \in DOMAIN uses /\ j \in DOMAIN uses'
          BY <1>b, <2>2, <5>1
        <5> QED BY <2>2, <5>2
      <4> QED BY <4>1, <4>2, <4>3, <4>4
    <3> QED BY <3>1, <3>2
  <2> QED BY <1>a, <1>c, <2>1, <2>2, <2>3, <2>4, <2>5 DEF StorageInv
\* A refusal.
<1>f. ASSUME NEW why \in Reasons, Reject(why), access.pc \notin {"has", "refused"}
      PROVE  StorageInv'
  <2>1. /\ access' \in Accesses /\ access'.pc = "refused"
        /\ access'.base = access.base /\ access'.useSlot = access.useSlot
    BY <1>b, <1>f DEF Reject, Accesses, AccessPCs
  <2>2. AccessInv' /\ QueueInv'
    BY <1>b, <1>f, <2>1 DEF AccessInv, QueueInv, Reject
  <2> QED BY <1>b, <1>d, <1>f, <2>1, <2>2 DEF Reject, SlotInv
<1>1. CASE ConnectSlot
  <2>1. access.pc = "connect" /\ StorageMode = "slot" /\ access.useSlot
    BY <1>1 DEF ConnectSlot
  <2>2. CASE HandOut(SlotAccount)
    BY <1>e, <2>1, <2>2 DEF StoreAccounts
  <2>3. CASE SlotUnusable
    <3>1. CASE storage.network = "mainnet"
      BY <1>f, <2>1, <2>3, <3>1 DEF SlotUnusable, Reasons
    <3>2. CASE storage.network # "mainnet"
      <4>1. /\ access' \in Accesses /\ access'.pc = "draw" /\ access'.useSlot = FALSE
            /\ access'.base = access.base /\ access'.why = access.why /\ UNCHANGED uses
        <5>1. access' = FallBack /\ UNCHANGED uses
          BY <2>3, <3>2 DEF SlotUnusable
        <5>2. 0 \in 0..SlotTries
          OBVIOUS
        <5>3. FallBack \in Accesses
          BY <1>b, <5>2 DEF FallBack, Accesses, AccessPCs
        <5> QED BY <1>b, <5>1, <5>3 DEF FallBack, Accesses
      <4>2. AccessInv' /\ QueueInv'
        BY <1>0, <1>b, <2>1, <4>1 DEF AccessInv, QueueInv
      <4> QED BY <1>d, <3>2, <4>1, <4>2
    <3> QED BY <3>1, <3>2
  <2>4. CASE access' = [access EXCEPT !.tries = @ + 1] /\ UNCHANGED uses /\ access.tries + 1 < SlotTries
    <3>1. /\ access' \in Accesses /\ access'.pc = "connect" /\ access'.useSlot = access.useSlot
          /\ access'.base = access.base /\ access'.why = access.why
          /\ access'.account = access.account
      <4>1. access.tries + 1 \in 0..SlotTries
        BY <1>b, <2>4 DEF Accesses
      <4> QED BY <1>b, <2>1, <2>4, <4>1 DEF Accesses
    <3>2. AccessInv' /\ QueueInv'
      BY <1>b, <2>1, <2>4, <3>1 DEF AccessInv, QueueInv
    <3> QED BY <1>d, <2>1, <2>4, <3>1, <3>2
  <2> QED BY <1>1, <2>2, <2>3, <2>4 DEF ConnectSlot
<1>2. CASE ConnectSigner
  <2>1. access.pc = "connect" /\ StorageMode # "slot"
    BY <1>2 DEF ConnectSigner
  <2>2. HandOut(OwnAccount) \/ Reject("unauthorised")
    BY <1>2 DEF ConnectSigner
  <2> QED BY <1>e, <1>f, <2>1, <2>2 DEF StoreAccounts, Reasons
\* An account that is looked at next, or accepted unseen.
<1>g. ASSUME NEW a \in StoreAccounts, NEW f \in PoolAccounts \union {NoAccount},
             access.pc \in {"connect", "draw"},
             access' = [Checks(a) EXCEPT !.first = f], UNCHANGED uses,
             \/ StorageMode = "direct" /\ a = OwnAccount
             \/ StorageMode # "direct" /\ {a, f} \subseteq PoolAccounts,
             StorageMode = "slot" => access.pc = "draw"
      PROVE  StorageInv'
  <2>1. Checks(a) \in Accesses
    BY <1>b DEF Checks, Accesses, AccessPCs
  <2>2. /\ Checks(a).account = a /\ Checks(a).pc \in {"sample", "authorise"}
        /\ Checks(a).useSlot = access.useSlot /\ Checks(a).base = access.base
        /\ Checks(a).why = access.why
    BY <1>b DEF Checks, Accesses
  <2>3. /\ access' \in Accesses /\ access'.account = a /\ access'.first = f
        /\ access'.pc \in {"sample", "authorise"} /\ access'.useSlot = access.useSlot
        /\ access'.base = access.base /\ access'.why = access.why
    BY <1>g, <2>1, <2>2 DEF Accesses
  <2>4. AccessInv' /\ QueueInv'
    BY <1>0, <1>b, <1>g, <2>3 DEF AccessInv, QueueInv
  <2> QED BY <1>b, <1>d, <1>g, <2>3, <2>4 DEF SlotInv
<1>3. CASE ConnectDirect
  <2>1. access.pc = "connect" /\ StorageMode = "direct" /\ UNCHANGED uses
    BY <1>3 DEF ConnectDirect
  <2>2. access' = [Checks(OwnAccount) EXCEPT !.first = access.first]
    BY <1>3, <1>b DEF ConnectDirect, Checks, Accesses
  <2>3. access.first \in PoolAccounts \union {NoAccount} /\ OwnAccount \in StoreAccounts
    BY <1>b DEF Accesses, StoreAccounts
  <2> QED BY <1>g, <2>1, <2>2, <2>3
<1>4. CASE ConnectPool
  <2>1. /\ access' \in Accesses /\ access'.pc = "draw" /\ access'.useSlot = access.useSlot
        /\ access'.base = access.base /\ access'.why = access.why /\ UNCHANGED uses
    BY <1>b, <1>4 DEF ConnectPool, Accesses, AccessPCs
  <2>2. AccessInv' /\ QueueInv'
    BY <1>0, <1>b, <1>4, <2>1 DEF AccessInv, QueueInv, ConnectPool
  <2>3. access.pc = "connect" /\ (StorageMode = "slot" => ~access.useSlot)
    BY <1>4 DEF ConnectPool
  <2> QED BY <1>b, <1>d, <2>1, <2>2, <2>3 DEF SlotInv
<1>5. CASE Draw
  <2>1. access.pc = "draw"
    BY <1>5 DEF Draw
  <2>2. CASE Reject("pin")
    BY <1>f, <2>1, <2>2 DEF Reasons
  <2>3. CASE ~Reject("pin")
    <3>1. PICK a \in IF storage.pinned = NoAccount THEN access.rest ELSE {storage.pinned} :
            access' = [Checks(a) EXCEPT
                !.first = IF access.first = NoAccount THEN a ELSE access.first]
      BY <1>5, <2>3 DEF Draw
    <3>2. UNCHANGED uses /\ storage.pinned # "missing"
      BY <1>5, <2>3 DEF Draw
    <3>3. a \in PoolAccounts /\ a \in StoreAccounts
      BY <1>b, <3>1, <3>2, StorageStartTyped DEF Accesses, StoreAccounts, StorageInv
    <3>4. (IF access.first = NoAccount THEN a ELSE access.first) \in PoolAccounts
      BY <1>b, <3>3 DEF Accesses
    <3>5. StorageMode # "direct"
      BY <1>b, <2>1 DEF AccessInv
    <3> QED BY <1>g, <2>1, <3>1, <3>2, <3>3, <3>4, <3>5
  <2> QED BY <2>2, <2>3
\* A read of the queue check.
<1>h. ASSUME NEW b \in SUBSET Nat, NEW s \in SUBSET Nat, access.pc = "sample",
             access' = [access EXCEPT !.base = b, !.seen = s], UNCHANGED uses,
             b = {} \/ \E n \in Nat : b = {n}
      PROVE  StorageInv'
  <2>1. /\ access' \in Accesses /\ access'.pc = "sample" /\ access'.base = b
        /\ access'.useSlot = access.useSlot /\ access'.why = access.why
        /\ access'.account = access.account /\ access'.first = access.first
    BY <1>b, <1>h DEF Accesses
  <2>2. AccessInv' /\ QueueInv'
    BY <1>0, <1>b, <1>h, <2>1 DEF AccessInv, QueueInv
  <2> QED BY <1>b, <1>d, <1>h, <2>1, <2>2 DEF SlotInv
<1>6. CASE ReadOnchain
  <2>1. access.pc = "sample" /\ UNCHANGED uses
    BY <1>6 DEF ReadOnchain
  <2>2. access.account \in StoreAccounts
    BY <1>b, <2>1 DEF AccessInv, StoreAccounts
  <2>3. access' = [access EXCEPT !.base = {head[access.account]}, !.seen = access.seen]
    BY <1>b, <1>6 DEF ReadOnchain, Accesses
  <2>4. access.seen \in SUBSET Nat /\ head[access.account] \in Nat
    BY <1>b, <2>2 DEF Accesses
  <2> QED BY <1>h, <2>1, <2>3, <2>4
<1>7. ASSUME NEW n \in NodeSet, Sample(n) PROVE StorageInv'
  <2>1. access.pc = "sample" /\ UNCHANGED uses
    BY <1>7 DEF Sample
  <2>2. access.account \in StoreAccounts
    BY <1>b, <2>1 DEF AccessInv, StoreAccounts
  <2>3. access' = [access EXCEPT !.base = access.base,
                                 !.seen = access.seen \union {next[access.account][n]}]
    BY <1>b, <1>7 DEF Sample, Accesses
  <2>4. access.seen \union {next[access.account][n]} \in SUBSET Nat
    BY <1>b, <2>2 DEF Accesses
  <2>5. access.base \in SUBSET Nat /\ (access.base = {} \/ \E m \in Nat : access.base = {m})
    <3>1. access.base \in SUBSET Nat
      BY <1>b DEF Accesses
    <3> QED BY <1>b, <3>1 DEF QueueInv
  <2> QED BY <1>h, <2>1, <2>3, <2>4, <2>5
\* The queue check passes, or is confirmed once more.
<1>i. ASSUME NEW left \in 0..ConfirmReads, NEW to \in {"confirm", "authorise"},
             access.pc \in {"sample", "confirm"}, UNCHANGED uses,
             access' = [access EXCEPT !.pc = to, !.left = left],
             to = "confirm" => access.base # {} /\ ~Ahead(Min(access.seen))
      PROVE  StorageInv'
  <2>1. /\ access' \in Accesses /\ access'.pc = to /\ access'.base = access.base
        /\ access'.useSlot = access.useSlot /\ access'.why = access.why
        /\ access'.account = access.account /\ access'.first = access.first
        /\ access'.seen = access.seen
    BY <1>b, <1>i DEF Accesses, AccessPCs
  <2>2. AccessInv'
    BY <1>0, <1>b, <1>i, <2>1 DEF AccessInv
  <2>3. Ahead(Min(access.seen))' <=> Ahead(Min(access.seen))
    BY <2>1 DEF Ahead, Base
  <2>4. QueueInv'
    BY <1>b, <1>i, <2>1, <2>3 DEF QueueInv
  <2> QED BY <1>b, <1>d, <1>i, <2>1, <2>2, <2>4 DEF SlotInv
<1>8. CASE Judge
  <2>1. access.pc = "sample" /\ UNCHANGED uses
    BY <1>8 DEF Judge
  <2>2. CASE access.base # {} /\ access.seen # {} /\ BackendLocal
    <3>1. access' = [access EXCEPT !.pc = "confirm", !.left = ConfirmReads]
      BY <1>8, <2>2 DEF Judge
    <3>2. ConfirmReads \in 0..ConfirmReads /\ ~Ahead(Min(access.seen))
      BY <2>2 DEF BackendLocal
    <3> QED BY <1>i, <2>1, <2>2, <3>1, <3>2
  <2>3. CASE ~(access.base # {} /\ access.seen # {} /\ BackendLocal)
    <3>1. access' = [access EXCEPT !.pc = "authorise", !.left = access.left]
      BY <1>b, <1>8, <2>3 DEF Judge, Accesses
    <3>2. access.left \in 0..ConfirmReads
      BY <1>b DEF Accesses
    <3> QED BY <1>i, <2>1, <3>1, <3>2
  <2> QED BY <2>2, <2>3
<1>9. CASE Confirm
  <2>1. access.pc = "confirm" /\ access.left \in 0..ConfirmReads
    BY <1>b, <1>9 DEF Confirm, Accesses
  <2>2. CASE access' = [access EXCEPT !.pc = "authorise"] /\ UNCHANGED uses
    <3>1. access' = [access EXCEPT !.pc = "authorise", !.left = access.left]
      BY <1>b, <2>2 DEF Accesses
    <3> QED BY <1>i, <2>1, <2>2, <3>1
  <2>3. CASE access.left > 1 /\ access' = [access EXCEPT !.left = @ - 1] /\ UNCHANGED uses
    <3>1. access' = [access EXCEPT !.pc = "confirm", !.left = access.left - 1]
      BY <1>b, <2>1, <2>3 DEF Accesses
    <3>2. access.left - 1 \in 0..ConfirmReads
      BY <2>1, <2>3
    <3>3. access.base # {} /\ ~Ahead(Min(access.seen))
      BY <1>b, <2>1 DEF QueueInv
    <3> QED BY <1>i, <2>1, <2>3, <3>1, <3>2, <3>3
  <2>4. CASE Stuck
    <3>1. CASE Reject("stuck")
      BY <1>f, <2>1, <3>1 DEF Reasons
    <3>2. CASE ~Reject("stuck")
      <4>1. StorageMode # "direct" /\ UNCHANGED uses
        BY <2>4, <3>2 DEF Stuck
      <4>2. {access.account, access.first} \subseteq PoolAccounts
        BY <1>b, <2>1, <4>1 DEF AccessInv
      <4>3. \/ access' = [access EXCEPT !.pc = "authorise", !.account = access.first, !.rest = {}]
            \/ access' = [access EXCEPT !.pc = "draw", !.rest = access.rest \ {access.account},
                                        !.base = {}, !.seen = {}]
        BY <2>4, <3>2 DEF Stuck
      <4>4. CASE access' = [access EXCEPT !.pc = "authorise", !.account = access.first, !.rest = {}]
        <5>1. /\ access' \in Accesses /\ access'.pc = "authorise" /\ access'.base = access.base
              /\ access'.useSlot = access.useSlot /\ access'.why = access.why
              /\ access'.account = access.first /\ access'.first = access.first
          BY <1>b, <4>2, <4>4 DEF Accesses, AccessPCs, StoreAccounts
        <5>2. AccessInv' /\ QueueInv'
          BY <1>0, <1>b, <2>1, <4>1, <4>2, <5>1 DEF AccessInv, QueueInv
        <5> QED BY <1>b, <1>d, <2>1, <4>1, <5>1, <5>2 DEF SlotInv
      <4>5. CASE access' = [access EXCEPT !.pc = "draw", !.rest = access.rest \ {access.account},
                                          !.base = {}, !.seen = {}]
        <5>1. /\ access' \in Accesses /\ access'.pc = "draw" /\ access'.base = {}
              /\ access'.useSlot = access.useSlot /\ access'.why = access.why
          BY <1>b, <4>5 DEF Accesses, AccessPCs
        <5>2. AccessInv' /\ QueueInv'
          BY <1>0, <1>b, <2>1, <4>1, <5>1 DEF AccessInv, QueueInv
        <5> QED BY <1>b, <1>d, <2>1, <4>1, <5>1, <5>2 DEF SlotInv
      <4> QED BY <4>3, <4>4, <4>5
    <3> QED BY <3>1, <3>2
  <2> QED BY <1>9, <2>2, <2>3, <2>4 DEF Confirm
<1>10. CASE EnsureAuthorized
  <2>1. access.pc = "authorise" /\ (HandOut(access.account) \/ Reject("unauthorised"))
    BY <1>10 DEF EnsureAuthorized
  <2>2. access.account \in StoreAccounts
    BY <1>b, <2>1 DEF AccessInv, StoreAccounts
  <2>3. StorageMode = "slot" => ~access.useSlot /\ access.account \in PoolAccounts
    BY <1>b, <2>1 DEF AccessInv, SlotInv
  <2> QED BY <1>e, <1>f, <2>1, <2>2, <2>3 DEF Reasons
<1>11. CASE StorageReconnect
  <2>1. UNCHANGED uses /\ Len(uses) < MaxConnects
    BY <1>11 DEF StorageReconnect
  <2>2. (access.checkQueue /\ access.account = SlotAccount) \in BOOLEAN
    OBVIOUS
  <2>3. /\ access' \in Accesses /\ access'.pc = "connect" /\ access'.why = "none"
        /\ access'.account = NoAccount
        /\ access'.base = access.base /\ access'.useSlot = access.useSlot
    <3>1. PICK c \in BOOLEAN :
            access' = [access EXCEPT !.pc = "connect", !.tries = 0, !.why = "none",
                         !.checkQueue = c, !.rest = PoolAccounts, !.first = NoAccount,
                         !.account = NoAccount]
      BY <1>b, <1>11, <2>2 DEF StorageReconnect, Accesses
    <3>2. 0 \in 0..SlotTries
      OBVIOUS
    <3> QED BY <1>b, <3>1, <3>2 DEF Accesses, AccessPCs, Reasons
  <2>4. AccessInv' /\ QueueInv'
    BY <1>b, <2>1, <2>3 DEF AccessInv, QueueInv
  <2> QED BY <1>b, <1>d, <2>1, <2>3, <2>4 DEF SlotInv
<1> QED BY <1>1, <1>2, <1>3, <1>4, <1>5, <1>6, <1>7, <1>8, <1>9, <1>10, <1>11 DEF AccessStep

\* So every step keeps it.
LEMMA StorageNextKeeps == StorageInv /\ [StorageNext]_StorageVars => StorageInv'
<1>1. ASSUME StorageInv, UNCHANGED StorageVars PROVE StorageInv'
  <2>1. UNCHANGED <<storage, block, expires, head, next, access, uses, boot>>
    BY <1>1 DEF StorageVars, StorageChain
  <2> QED BY <1>1, <2>1
     DEF StorageInv, StorageTyped, AccessInv, QueueInv, SlotInv, BootInv, NoSignerDrift,
         StorageMode, Ahead, Base
<1> QED BY <1>1, ChainKeepsStorage, BootKeepsStorage, AccessStepKeeps DEF StorageNext

\* And every state of a behaviour satisfies it.
LEMMA StorageInvariant == StorageSpec => []StorageInv
BY StorageInitHolds, StorageNextKeeps, PTL DEF StorageSpec

\* The type invariant follows from it.
LEMMA StorageTypesFollow == StorageInv => StorageTypeOK
BY StorageAssumption DEF StorageInv, StorageTyped, StorageTypeOK, Accesses, Boots, AccessInv

\* NoSignerDrift for any pool, nodes, queues and expiries: a deploy that starts on its
\* slot never returns to it once it has stored from the pool, and on mainnet never
\* stores from the pool (the provider chain of the storage signer).
THEOREM SignerDoesNotDrift == StorageSpec => [](StorageTypeOK /\ NoSignerDrift)
<1>1. StorageInv => StorageTypeOK /\ NoSignerDrift
  BY StorageTypesFollow DEF StorageInv
<1> QED BY <1>1, StorageInvariant, PTL

\* A step that refuses a pool account, or moves on from one, had the reason for it.
LEMMA RefusalStep ==
  ASSUME StorageInv, [StorageNext]_StorageVars
  PROVE  /\ (access.pc = "confirm" /\ (access'.why = "stuck" \/ access'.rest # access.rest))
              => access.base = {head[access.account]} /\ ~Ahead(Min(access.seen))
         /\ (boot.pc = "done" /\ boot.failed = {} /\ block <= boot.at + storage.buffer
               /\ access.why = "none" /\ access.account \in PoolAccounts)
              => access'.why # "unauthorised"
<1>1. CASE access' = access
  BY <1>1 DEF StorageInv, AccessInv
<1>2. CASE access' # access
  <2>1. AccessStep
    BY <1>2 DEF StorageNext, StartBoot, Grant, EndBoot, NextBlock, Gossip, IncludeHead,
                SentElsewhere, BootKeeps, StorageVars
  <2>2. access \in Accesses /\ AccessInv /\ QueueInv /\ BootInv
    BY DEF StorageInv, StorageTyped
  <2>3. ASSUME access.pc = "confirm", access'.why = "stuck" \/ access'.rest # access.rest
        PROVE  access.base = {head[access.account]} /\ ~Ahead(Min(access.seen))
    <3>1. Confirm
      BY <2>1, <2>3
         DEF AccessStep, ConnectSlot, ConnectSigner, ConnectDirect, ConnectPool, Draw,
             ReadOnchain, Sample, Judge, EnsureAuthorized, StorageReconnect
    <3>2. access.why = "none"
      BY <2>2, <2>3 DEF AccessInv
    <3>3. head[access.account] = Base
      BY <2>2, <2>3, <3>1, <3>2 DEF Confirm, Accesses
    <3>4. PICK b \in Nat : access.base = {b}
      <4>1. access.base \in SUBSET Nat
        BY <2>2 DEF Accesses
      <4> QED BY <2>2, <2>3, <4>1 DEF QueueInv
    <3>5. Base = b
      BY <3>4 DEF Base
    <3> QED BY <2>2, <2>3, <3>3, <3>4, <3>5 DEF QueueInv
  <2>4. ASSUME boot.pc = "done", boot.failed = {}, block <= boot.at + storage.buffer,
               access.why = "none", access.account \in PoolAccounts,
               access'.why = "unauthorised"
        PROVE  FALSE
    <3>1. access.account # NoAccount /\ access.account \in StoreAccounts
      BY <2>4, StorageAssumption DEF StoreAccounts
    <3>2. Authorized(access.account)
      <4>1. boot.at + storage.buffer < expires[access.account]
        BY <2>2, <2>4 DEF BootInv
      <4>2. boot.at \in Nat /\ storage.buffer \in Nat /\ block \in Nat
            /\ expires[access.account] \in Nat
        BY <3>1, StorageStartTyped DEF StorageInv, StorageTyped, Boots
      <4> QED BY <2>4, <4>1, <4>2 DEF Authorized
    <3>3. access.pc # "connect"
      BY <2>2, <3>1 DEF AccessInv
    <3>4. CASE Draw \/ Confirm \/ ConnectPool \/ StorageReconnect \/ ReadOnchain \/ Judge
               \/ \E n \in NodeSet : Sample(n)
      BY <2>2, <2>4, <3>4
         DEF Draw, Checks, Confirm, Stuck, ConnectPool, StorageReconnect, ReadOnchain, Judge,
             Sample, Reject, Accesses
    <3>5. CASE EnsureAuthorized
      BY <2>2, <2>4, <3>2, <3>5 DEF EnsureAuthorized, HandOut, Accesses
    <3> QED BY <2>1, <3>3, <3>4, <3>5 DEF AccessStep, ConnectSlot, ConnectSigner, ConnectDirect
  <2> QED BY <2>3, <2>4
<1> QED BY <1>1, <1>2

\* RefusedForCause for the same: a pool account is passed over as stuck only if its nonce
\* is still the one that was read first, and found unauthorised only once a bootstrap's
\* buffer has run out or a grant of it failed.
THEOREM RefusedOnlyForCause == StorageSpec => RefusedForCause
<1>1. StorageInv /\ [StorageNext]_StorageVars =>
        [/\ (access.pc = "confirm" /\ (access'.why = "stuck" \/ access'.rest # access.rest))
              => access.base = {head[access.account]} /\ ~Ahead(Min(access.seen))
         /\ (boot.pc = "done" /\ boot.failed = {} /\ block <= boot.at + storage.buffer
               /\ access.why = "none" /\ access.account \in PoolAccounts)
              => access'.why # "unauthorised"]_StorageVars
  BY RefusalStep
<1> QED BY <1>1, StorageInvariant, PTL DEF StorageSpec, RefusedForCause

(***************************************************************************)
(* ProtocolConnect. An answer that came in is about a generation since     *)
(* the connection began, and no upgrade takes it back.                     *)
(***************************************************************************)

ConnPCs == {"closed", "address", "tld", "tldNode", "probe", "mapping", "ready", "legacy",
            "failed"}
Begun == {"address", "tld", "tldNode", "probe", "mapping", "ready", "legacy"}
Reading == {Unread, "yes", "no", "null"}
Probes == [code : Reading, pricing : Reading, starting : Reading, issued : Reading]
Profiles == {"none", "unknown", "poprules-startingPrice", "v0.5.8-rc1", "v0.6.0"}
Conns ==
    [pc : ConnPCs, reads : 0..MaxAddressReads, from : Nat, tld : {OwnTld, DefaultTld},
     tldFrom : Nat, probe : Probes, profile : Profiles, shape : {"unknown", "legacy", "v07"}]

\* What follows is said of a connection, the generations and the start as values, so
\* that it can be said of those after a step too.
Since(gens, from) == {gens[i] : i \in from..Len(gens)}
LatestOf(gens) == gens[Len(gens)]
ProfileIn(conf, g) == IF ~g.priced THEN "poprules-startingPrice"
                      ELSE IF g.issues /\ conf.controller THEN "v0.6.0" ELSE "v0.5.8-rc1"

TldHolds(tld, from, gens, conf) ==
    tld # OwnTld => ~conf.registry \/ \E g \in Since(gens, from) : ~g.named

\* What the answers that are in say. Nobody is unpriced again: a price that was read is
\* still there; and if nothing was issued when that was read, then either prices came
\* first, or they come before anything is.
ProbeHolds(p, from, gens, conf) ==
    /\ p.pricing = "yes" => LatestOf(gens).priced
    /\ p.starting = "yes" => \E g \in Since(gens, from) : ~g.priced
    /\ p.issued = "yes" => /\ conf.controller
                           /\ \E g \in Since(gens, from) : g.priced /\ g.issues
    /\ p.issued = "no" => \/ \E g \in Since(gens, from) : g.priced /\ ~g.issues
                          \/ ~LatestOf(gens).priced
    /\ p.issued = "null" => ~conf.controller

ConnHolds(r, gens, conf) ==
    /\ r \in Conns
    /\ r.from \in 0..Len(gens) /\ r.tldFrom \in 0..Len(gens)
    /\ r.pc \in Begun => r.from >= 1
    /\ r.pc \in {"address", "tld", "tldNode", "closed"} => r.probe = NoProbe
    /\ r.pc = "probe" => ProbeHolds(r.probe, r.from, gens, conf)
    /\ r.pc \in {"probe", "mapping", "ready", "legacy"} =>
           r.tldFrom >= 1 /\ TldHolds(r.tld, r.tldFrom, gens, conf)
    /\ r.pc \in {"mapping", "ready", "legacy"} =>
           \E g \in Since(gens, r.from) : ProfileIn(conf, g) = r.profile
    /\ r.shape # "unknown" =>
           r.pc = "ready" /\ \E g \in Since(gens, r.from) : g.shape = r.shape

MemoHolds(memo, gens, conf) ==
    \A m \in memo : m.from \in 1..Len(gens) /\ m.tld \in {OwnTld, DefaultTld}
                    /\ TldHolds(m.tld, m.from, gens, conf)

\* The inductive invariant.
ConnectInv ==
    /\ config \in ConnectStart
    /\ generations \in Seq(Generation) /\ Len(generations) \in 1..(MaxUpgrades + 1)
    /\ verifiedTlds \subseteq [tld : {OwnTld, DefaultTld}, from : Nat]
    /\ MemoHolds(verifiedTlds, generations, config)
    /\ conn \in [Connections -> Conns]
    /\ \A c \in Connections : ConnHolds(conn[c], generations, config)

\* The properties follow from it.
LEMMA ConnectInvImplies == ConnectInv => ConnectTypeOK /\ ConclusionsHold
<1> SUFFICES ASSUME ConnectInv PROVE ConnectTypeOK /\ ConclusionsHold
  OBVIOUS
<1>1. ConnectTypeOK
  <2>1. verifiedTlds \subseteq [tld : {OwnTld, DefaultTld}, from : 1..Latest]
    BY DEF ConnectInv, MemoHolds, Latest
  <2>2. \A c \in Connections :
         /\ conn[c] \in Conns
         /\ {conn[c].from, conn[c].tldFrom} \subseteq 0..Latest
    BY DEF ConnectInv, ConnHolds, Latest
  <2> QED BY <2>1, <2>2 DEF ConnectInv, ConnectTypeOK, Latest, Conns, ConnPCs
<1>2. ASSUME NEW c \in Connections, conn[c].pc = "ready"
      PROVE  LET since(from) == {generations[i] : i \in from..Latest}
             IN  /\ \E g \in since(conn[c].from) : ProfileOf(g) = conn[c].profile
                 /\ conn[c].shape # "unknown" =>
                        \E g \in since(conn[c].from) : g.shape = conn[c].shape
                 /\ conn[c].tld # OwnTld =>
                        ~config.registry \/ \E g \in since(conn[c].tldFrom) : ~g.named
  <2>1. ConnHolds(conn[c], generations, config)
    BY DEF ConnectInv
  <2> QED BY <1>2, <2>1 DEF ConnHolds, TldHolds, Since, Latest, ProfileOf, ProfileIn
<1> QED BY <1>1, <1>2 DEF ConclusionsHold

\* Every start satisfies it: nothing is read yet.
LEMMA ConnectInitHolds == ConnectInit => ConnectInv
<1> SUFFICES ASSUME NEW start \in ConnectStarts, ConnectBegin(start) PROVE ConnectInv
  BY DEF ConnectInit
<1> USE ConnectAssumption
<1>1. config \in ConnectStart /\ start.generation \in Generation
  BY DEF ConnectBegin, ConnectStart
<1>2. generations \in Seq(Generation) /\ Len(generations) = 1
  BY <1>1 DEF ConnectBegin
<1>3. Closed \in Conns
  BY DEF Closed, Conns, ConnPCs, NoProbe, Probes, Reading, Profiles
<1>4. ConnHolds(Closed, generations, config)
  BY <1>2, <1>3 DEF ConnHolds, Closed, Begun
<1> QED BY <1>1, <1>2, <1>3, <1>4 DEF ConnectBegin, ConnectInv, MemoHolds

-----------------------------------------------------------------------------
\* With another generation, what was since a time still is, and the new one is too.
LEMMA SinceGrows ==
  ASSUME NEW gens \in Seq(Generation), NEW g \in Generation, NEW from \in 1..Len(gens)
  PROVE  /\ Since(gens, from) \subseteq Since(Append(gens, g), from)
         /\ g \in Since(Append(gens, g), from)
         /\ LatestOf(Append(gens, g)) = g
         /\ Len(Append(gens, g)) = Len(gens) + 1 /\ Len(gens) \in Nat
<1>1. /\ Len(Append(gens, g)) = Len(gens) + 1 /\ Len(gens) \in Nat
      /\ Append(gens, g)[Len(gens) + 1] = g
      /\ \A i \in 1..Len(gens) : Append(gens, g)[i] = gens[i]
  OBVIOUS
<1> QED BY <1>1 DEF Since, LatestOf

\* An upgrade changes one thing of a generation, for good.
Upgraded(h, g) ==
    /\ g \in Generation
    /\ h.priced => g.priced
    /\ g.priced /\ ~h.priced => ~g.issues

\* What a connection's answers say outlasts an upgrade.
LEMMA ConnHoldsLonger ==
  ASSUME NEW gens \in Seq(Generation), Len(gens) >= 1, NEW conf, NEW r,
         NEW g, Upgraded(LatestOf(gens), g), ConnHolds(r, gens, conf)
  PROVE  ConnHolds(r, Append(gens, g), conf)
<1> DEFINE more == Append(gens, g)
<1>1. g \in Generation /\ Len(gens) \in Nat /\ r \in Conns
  BY DEF Upgraded, ConnHolds
<1>2. /\ \A from \in 1..Len(gens) : Since(gens, from) \subseteq Since(more, from)
      /\ \A from \in 1..Len(gens) : g \in Since(more, from)
      /\ LatestOf(more) = g /\ Len(more) = Len(gens) + 1
  BY <1>1, SinceGrows
<1>3. r.from \in 0..Len(gens) /\ r.tldFrom \in 0..Len(gens)
  BY DEF ConnHolds
<1> HIDE DEF more
<1>4. r.pc \in {"probe", "mapping", "ready", "legacy"} =>
           r.tldFrom >= 1 /\ TldHolds(r.tld, r.tldFrom, more, conf)
  BY <1>1, <1>2, <1>3 DEF ConnHolds, TldHolds
<1>5. /\ r.pc \in {"mapping", "ready", "legacy"} =>
           \E h \in Since(more, r.from) : ProfileIn(conf, h) = r.profile
      /\ r.shape # "unknown" =>
           r.pc = "ready" /\ \E h \in Since(more, r.from) : h.shape = r.shape
  BY <1>1, <1>2, <1>3 DEF ConnHolds, Begun
<1>6. ASSUME r.pc = "probe" PROVE ProbeHolds(r.probe, r.from, more, conf)
  <2>1. r.from \in 1..Len(gens) /\ ProbeHolds(r.probe, r.from, gens, conf)
    BY <1>1, <1>3, <1>6 DEF ConnHolds, Begun
  <2>2. /\ Since(gens, r.from) \subseteq Since(more, r.from)
        /\ g \in Since(more, r.from) /\ LatestOf(more) = g
    BY <1>2, <2>1
  <2>3. LatestOf(gens) \in Since(gens, r.from)
    BY <1>1, <2>1 DEF LatestOf, Since
  <2>4. r.probe.issued = "no" => \/ \E h \in Since(more, r.from) : h.priced /\ ~h.issues
                                 \/ ~LatestOf(more).priced
    BY <2>1, <2>2, <2>3 DEF ProbeHolds, Upgraded
  <2> QED BY <2>1, <2>2, <2>4 DEF ProbeHolds, Upgraded
<1>7. r.from \in 0..Len(more) /\ r.tldFrom \in 0..Len(more)
  BY <1>1, <1>2, <1>3
<1>8. /\ r.pc \in Begun => r.from >= 1
      /\ r.pc \in {"address", "tld", "tldNode", "closed"} => r.probe = NoProbe
  BY DEF ConnHolds
<1> HIDE DEF ConnHolds
<1> QED BY <1>1, <1>4, <1>5, <1>6, <1>7, <1>8 DEF ConnHolds, more

\* So an upgrade keeps the invariant.
LEMMA UpgradeKeeps == ConnectInv /\ Upgrade => ConnectInv'
<1> SUFFICES ASSUME ConnectInv, Upgrade PROVE ConnectInv'
  OBVIOUS
<1> USE ConnectAssumption
<1>1. /\ generations \in Seq(Generation) /\ Len(generations) \in 1..(MaxUpgrades + 1)
      /\ Live = LatestOf(generations) /\ Live \in Generation /\ Latest = Len(generations)
  BY DEF ConnectInv, Live, Latest, LatestOf
<1>2. PICK g \in {[Live EXCEPT !.priced = TRUE], [Live EXCEPT !.named = TRUE],
                 [Live EXCEPT !.issues = Live.priced], [Live EXCEPT !.shape = "v07"]} :
          generations' = Append(generations, g)
  BY DEF Upgrade
<1>3. Latest <= MaxUpgrades /\ UNCHANGED <<config, verifiedTlds, conn>>
  BY DEF Upgrade
<1>4. Upgraded(Live, g)
  <2>1. /\ Live \in [deployed : BOOLEAN, priced : BOOLEAN, issues : BOOLEAN, named : BOOLEAN,
                     shape : {"legacy", "v07"}]
        /\ Live.issues => Live.priced
    BY <1>1 DEF Generation
  <2>2. CASE g = [Live EXCEPT !.priced = TRUE]
    BY <2>1, <2>2 DEF Upgraded, Generation
  <2>3. CASE g = [Live EXCEPT !.named = TRUE]
    BY <2>1, <2>3 DEF Upgraded, Generation
  <2>4. CASE g = [Live EXCEPT !.issues = Live.priced]
    BY <2>1, <2>4 DEF Upgraded, Generation
  <2>5. CASE g = [Live EXCEPT !.shape = "v07"]
    BY <2>1, <2>5 DEF Upgraded, Generation
  <2> QED BY <1>2, <2>2, <2>3, <2>4, <2>5
<1>5. /\ generations' \in Seq(Generation) /\ Len(generations') \in 1..(MaxUpgrades + 1)
      /\ Len(generations') = Len(generations) + 1
  BY <1>1, <1>2, <1>3, <1>4 DEF Upgraded
<1>6. \A c \in Connections : ConnHolds(conn[c], generations', config)
  BY <1>1, <1>2, <1>4, ConnHoldsLonger DEF ConnectInv
<1>7. MemoHolds(verifiedTlds, generations', config)
  <2>1. ASSUME NEW m \in verifiedTlds
        PROVE  m.from \in 1..Len(generations') /\ TldHolds(m.tld, m.from, generations', config)
    <3>1. m.from \in 1..Len(generations) /\ TldHolds(m.tld, m.from, generations, config)
      BY <2>1 DEF ConnectInv, MemoHolds
    <3>2. Since(generations, m.from) \subseteq Since(generations', m.from)
      BY <1>1, <1>2, <1>4, <3>1, SinceGrows DEF Upgraded
    <3> QED BY <1>5, <3>1, <3>2 DEF TldHolds
  <2> QED BY <2>1 DEF ConnectInv, MemoHolds
<1> QED BY <1>3, <1>5, <1>6, <1>7 DEF ConnectInv

-----------------------------------------------------------------------------
\* A connection that moves on, and the memo with it.
LEMMA ConnMoves ==
  ASSUME ConnectInv, NEW c \in Connections, NEW to, ConnectMoves(c, to), KeepsContracts,
         ConnHolds(to, generations, config),
         verifiedTlds' \subseteq [tld : {OwnTld, DefaultTld}, from : Nat],
         MemoHolds(verifiedTlds', generations, config)
  PROVE  ConnectInv'
<1>1. to \in Conns
  BY DEF ConnHolds
<1>2. conn' \in [Connections -> Conns]
  BY <1>1 DEF ConnectInv, ConnectMoves
<1>3. \A d \in Connections : ConnHolds(conn'[d], generations, config)
  BY DEF ConnectInv, ConnectMoves
<1> QED BY <1>2, <1>3 DEF ConnectInv, KeepsContracts

\* A step of a connection keeps it: each answer is about the generation of its moment.
LEMMA ConnectStepKeeps ==
  ASSUME ConnectInv, NEW c \in Connections, ConnectStep(c)
  PROVE  ConnectInv'
<1> USE ConnectAssumption
<1> DEFINE r == conn[c]
<1>a. /\ r \in Conns /\ ConnHolds(r, generations, config) /\ config \in ConnectStart
      /\ generations \in Seq(Generation) /\ Len(generations) \in Nat /\ Len(generations) >= 1
      /\ Live = LatestOf(generations) /\ Live \in Generation /\ Latest = Len(generations)
      /\ verifiedTlds \subseteq [tld : {OwnTld, DefaultTld}, from : Nat]
      /\ MemoHolds(verifiedTlds, generations, config)
  BY DEF ConnectInv, Live, Latest, LatestOf
<1>b. \A from \in 1..Len(generations) : Live \in Since(generations, from)
  BY <1>a DEF Since, LatestOf
\* A move that leaves the memo alone, and a failure.
<1>c. ASSUME NEW to, ConnectMoves(c, to), KeepsContracts, UNCHANGED verifiedTlds,
             ConnHolds(to, generations, config)
      PROVE  ConnectInv'
  BY <1>a, <1>c, ConnMoves
<1>d. ConnHolds([Closed EXCEPT !.pc = "failed"], generations, config)
  BY <1>a DEF ConnHolds, Closed, Conns, ConnPCs, NoProbe, Probes, Reading, Profiles, Begun
<1>e. ASSUME ConnectFails(c), KeepsContracts, UNCHANGED verifiedTlds PROVE ConnectInv'
  BY <1>c, <1>d, <1>e DEF ConnectFails
<1> HIDE DEF r
<1>r. r = conn[c]
  BY DEF r
<1>1. CASE ReadAddress(c)
  <2>1. PICK from \in 1..Latest, n \in Nat :
          /\ [conn[c] EXCEPT !.reads = @ + 1,
                      !.from = IF conn[c].pc = "closed" THEN Latest ELSE @]
               = [r EXCEPT !.reads = n, !.from = from]
          /\ n = r.reads + 1
    <3>1. r.reads + 1 \in Nat /\ (IF r.pc = "closed" THEN Latest ELSE r.from) \in 1..Latest
      BY <1>1, <1>a, <1>r DEF ReadAddress, ConnHolds, Conns, Begun
    <3> QED BY <1>r, <3>1
  <2> DEFINE begun == [r EXCEPT !.reads = n, !.from = from]
  <2>2. /\ begun.reads = n /\ r.pc \in {"closed", "address"}
    BY <1>1, <1>a, <1>r DEF ReadAddress, Conns
  <2>3. \/ ConnectMoves(c, [begun EXCEPT !.pc = "tld", !.reads = 0])
        \/ n < MaxAddressReads /\ ConnectMoves(c, [begun EXCEPT !.pc = "address"])
        \/ ConnectFails(c)
    BY <1>1, <2>1, <2>2 DEF ReadAddress
  <2>4. r.probe = NoProbe /\ r.shape = "unknown"
    BY <1>a, <2>2 DEF ConnHolds, Conns
  <2>5. ConnHolds([r EXCEPT !.reads = 0, !.from = from, !.pc = "tld"], generations, config)
    <3> DEFINE to == [r EXCEPT !.reads = 0, !.from = from, !.pc = "tld"]
    <3>1. from \in Nat /\ from \in 0..Len(generations) /\ from >= 1
          /\ 0 \in 0..MaxAddressReads
      BY <1>a
    <3>2. to \in Conns
      BY <1>a, <3>1 DEF Conns, ConnPCs
    <3>3. /\ to.pc = "tld" /\ to.from = from /\ to.tldFrom = r.tldFrom
          /\ to.probe = NoProbe /\ to.shape = "unknown"
      BY <1>a, <2>4 DEF Conns
    <3>4. r.tldFrom \in 0..Len(generations)
      BY <1>a DEF ConnHolds
    <3> HIDE DEF to
    <3>5. ConnHolds(to, generations, config)
      BY <3>1, <3>2, <3>3, <3>4 DEF ConnHolds, Begun
    <3> QED BY <3>5 DEF to
  <2>6. [begun EXCEPT !.pc = "tld", !.reads = 0] = [r EXCEPT !.reads = 0, !.from = from, !.pc = "tld"]
    BY <1>a DEF Conns
  <2>7. n < MaxAddressReads =>
          ConnHolds([begun EXCEPT !.pc = "address"], generations, config)
    <3> SUFFICES ASSUME n < MaxAddressReads
                 PROVE  ConnHolds([begun EXCEPT !.pc = "address"], generations, config)
      OBVIOUS
    <3> DEFINE to == [begun EXCEPT !.pc = "address"]
    <3>1. from \in Nat /\ from \in 0..Len(generations) /\ from >= 1
          /\ n \in 0..MaxAddressReads
      BY <1>a
    <3>2. to \in Conns
      BY <1>a, <3>1 DEF Conns, ConnPCs
    <3>3. /\ to.pc = "address" /\ to.from = from /\ to.tldFrom = r.tldFrom
          /\ to.probe = NoProbe /\ to.shape = "unknown"
      BY <1>a, <2>4 DEF Conns
    <3>4. r.tldFrom \in 0..Len(generations)
      BY <1>a DEF ConnHolds
    <3> HIDE DEF to
    <3>5. ConnHolds(to, generations, config)
      BY <3>1, <3>2, <3>3, <3>4 DEF ConnHolds, Begun
    <3> QED BY <3>5 DEF to
  <2>8. KeepsContracts /\ UNCHANGED verifiedTlds
    BY <1>1 DEF ReadAddress
  <2> HIDE DEF begun
  <2> QED BY <1>c, <1>e, <2>3, <2>5, <2>6, <2>7, <2>8
<1>2. CASE ReadTld(c)
  <2>1. PICK tld \in {OwnTld, DefaultTld} :
          \/ ConnectMoves(c, [r EXCEPT !.pc = "tldNode", !.tld = tld])
          \/ ConnectFails(c)
    BY <1>2, <1>a, <1>r DEF ReadTld, ConnectStart
  <2>2. r.pc = "tld" /\ KeepsContracts /\ UNCHANGED verifiedTlds
    BY <1>2, <1>r DEF ReadTld
  <2>3. ConnHolds([r EXCEPT !.pc = "tldNode", !.tld = tld], generations, config)
    BY <1>a, <2>2 DEF ConnHolds, Conns, ConnPCs, Begun
  <2> QED BY <1>c, <1>e, <2>1, <2>2, <2>3
\* The check of the TLD, whoever made it.
<1>f. ASSUME NEW from \in 1..Len(generations), r.pc = "tldNode",
             TldHolds(r.tld, from, generations, config)
      PROVE  ConnHolds([r EXCEPT !.pc = "probe", !.tldFrom = from], generations, config)
  <2>1. r.probe = NoProbe /\ r.shape = "unknown" /\ r.from \in 1..Len(generations)
    BY <1>a, <1>f DEF ConnHolds, Conns, Begun
  <2>2. ProbeHolds(NoProbe, r.from, generations, config)
    BY DEF ProbeHolds, NoProbe, Unread
  <2> DEFINE to == [r EXCEPT !.pc = "probe", !.tldFrom = from]
  <2>3. to \in Conns
    <3>1. from \in Nat
      BY <1>a
    <3>2. r \in Conns
      BY <1>a
    <3> QED BY <3>1, <3>2 DEF Conns, ConnPCs
  <2>4. /\ to.pc = "probe" /\ to.from = r.from /\ to.tldFrom = from /\ to.tld = r.tld
        /\ to.probe = NoProbe /\ to.shape = "unknown"
    BY <1>a, <2>1 DEF Conns
  <2>5. from \in 0..Len(generations) /\ from >= 1 /\ r.from \in 0..Len(generations)
        /\ r.from >= 1
    BY <1>a, <2>1
  <2> HIDE DEF to
  <2>6. ConnHolds(to, generations, config)
    BY <1>f, <2>2, <2>3, <2>4, <2>5 DEF ConnHolds, Begun
  <2> QED BY <2>6 DEF to
<1>3. CASE VerifyTld(c)
  <2>1. r.pc = "tldNode" /\ KeepsContracts /\ r.tld \in {OwnTld, DefaultTld}
        /\ r.from \in 1..Len(generations)
    <3>1. r.pc = "tldNode" /\ KeepsContracts
      BY <1>3, <1>r DEF VerifyTld
    <3>2. r.tld \in {OwnTld, DefaultTld} /\ r.from \in Nat
      BY <1>a DEF Conns
    <3> QED BY <1>a, <3>1, <3>2 DEF ConnHolds, Begun
  <2>2. CASE \E m \in Memo(c) :
               /\ ConnectMoves(c, [conn[c] EXCEPT !.pc = "probe", !.tldFrom = m.from])
               /\ UNCHANGED verifiedTlds
    <3>1. PICK m \in verifiedTlds :
            /\ m.tld = r.tld /\ UNCHANGED verifiedTlds
            /\ ConnectMoves(c, [r EXCEPT !.pc = "probe", !.tldFrom = m.from])
      BY <2>2, <1>r DEF Memo
    <3>2. m.from \in 1..Len(generations) /\ TldHolds(r.tld, m.from, generations, config)
      BY <1>a, <3>1 DEF MemoHolds
    <3> QED BY <1>c, <1>f, <2>1, <3>1, <3>2
  <2>3. CASE ConnectFails(c) /\ UNCHANGED verifiedTlds
    BY <1>e, <2>1, <2>3
  <2>4. ASSUME NEW answer \in RegistryAnswers, answer # "throws",
               ~(answer = "yes" /\ r.tld # OwnTld),
               ConnectMoves(c, [r EXCEPT !.pc = "probe", !.tldFrom = r.from]),
               verifiedTlds' = verifiedTlds \union
                  {m \in {[tld |-> r.tld, from |-> r.from]} : config.registry}
        PROVE  ConnectInv'
    <3>1. TldHolds(r.tld, r.from, generations, config)
      BY <1>a, <1>b, <2>1, <2>4 DEF TldHolds, RegistryAnswers, Answers
    <3>2. ConnHolds([r EXCEPT !.pc = "probe", !.tldFrom = r.from], generations, config)
      BY <1>f, <2>1, <3>1
    <3>3. /\ verifiedTlds' \subseteq [tld : {OwnTld, DefaultTld}, from : Nat]
          /\ MemoHolds(verifiedTlds', generations, config)
      BY <1>a, <2>1, <2>4, <3>1 DEF MemoHolds
    <3> QED BY <2>1, <2>4, <3>2, <3>3, ConnMoves
  <2> QED BY <1>3, <1>r, <2>2, <2>3, <2>4 DEF VerifyTld
<1>4. CASE Probe(c)
  <2>1. r.pc = "probe" /\ KeepsContracts /\ UNCHANGED verifiedTlds
    BY <1>4, <1>r DEF Probe
  <2>2. PICK read \in {"code", "pricing", "starting", "issued"},
             answer \in {"yes", "no", "null", "throws"} :
          /\ answer \in
               CASE read = "code" -> {IF Live.deployed THEN "yes" ELSE "no", "null"}
                 [] read = "pricing" -> Answers(Live.deployed /\ Live.priced)
                 [] read = "starting" -> Answers(Live.deployed /\ ~Live.priced)
                 [] read = "issued" -> IF config.controller THEN Answers(Live.issues)
                                                            ELSE {"null"}
          /\ IF answer = "throws" THEN ConnectFails(c)
             ELSE ConnectMoves(c, [r EXCEPT !.probe[read] = answer])
    BY SMTT(60), <1>4, <1>r DEF Probe, NoProbe
  <2>3. CASE answer = "throws"
    BY <1>e, <2>1, <2>2, <2>3
  <2>4. CASE answer # "throws"
    <3>1. /\ r.from \in 1..Len(generations) /\ r.probe \in Probes
          /\ ProbeHolds(r.probe, r.from, generations, config)
      BY <1>a, <2>1 DEF ConnHolds, Conns, Begun
    <3>2. Live \in Since(generations, r.from) /\ Live = LatestOf(generations)
          /\ (Live.issues => Live.priced)
      BY <1>a, <1>b, <3>1 DEF Generation
    <3>3. ASSUME NEW p \in Probes, ProbeHolds(p, r.from, generations, config)
          PROVE  ConnHolds([r EXCEPT !.probe = p], generations, config)
      BY <1>a, <2>1, <3>3 DEF ConnHolds, Conns, ConnPCs, Begun
    <3>4. CASE read = "code"
      <4> DEFINE p == [r.probe EXCEPT !.code = answer]
      <4>1. p \in Probes /\ ProbeHolds(p, r.from, generations, config)
        BY <2>2, <2>4, <3>1 DEF Probes, ProbeHolds, Reading
      <4>2. ConnectMoves(c, [r EXCEPT !.probe = p])
        BY <2>2, <2>4, <3>4
      <4> HIDE DEF p
      <4> QED BY <1>c, <2>1, <3>3, <4>1, <4>2
    <3>5. CASE read = "pricing"
      <4> DEFINE p == [r.probe EXCEPT !.pricing = answer]
      <4>1. p \in Probes /\ ProbeHolds(p, r.from, generations, config)
        BY <2>2, <2>4, <3>1, <3>2, <3>5 DEF Probes, ProbeHolds, Reading, Answers
      <4>2. ConnectMoves(c, [r EXCEPT !.probe = p])
        BY <2>2, <2>4, <3>5
      <4> HIDE DEF p
      <4> QED BY <1>c, <2>1, <3>3, <4>1, <4>2
    <3>6. CASE read = "starting"
      <4> DEFINE p == [r.probe EXCEPT !.starting = answer]
      <4>1. p \in Probes /\ ProbeHolds(p, r.from, generations, config)
        BY <2>2, <2>4, <3>1, <3>2, <3>6 DEF Probes, ProbeHolds, Reading, Answers
      <4>2. ConnectMoves(c, [r EXCEPT !.probe = p])
        BY <2>2, <2>4, <3>6
      <4> HIDE DEF p
      <4> QED BY <1>c, <2>1, <3>3, <4>1, <4>2
    <3>7. CASE read = "issued"
      <4> DEFINE p == [r.probe EXCEPT !.issued = answer]
      <4>1. p \in Probes /\ ProbeHolds(p, r.from, generations, config)
        BY <2>2, <2>4, <3>1, <3>2, <3>7 DEF Probes, ProbeHolds, Reading, Answers
      <4>2. ConnectMoves(c, [r EXCEPT !.probe = p])
        BY <2>2, <2>4, <3>7
      <4> HIDE DEF p
      <4> QED BY <1>c, <2>1, <3>3, <4>1, <4>2
    <3> QED BY <3>4, <3>5, <3>6, <3>7
  <2> QED BY <2>3, <2>4
<1>5. CASE Classify(c)
  <2> DEFINE profile == classifyProtocolVersion(r.probe)
  <2>1. /\ r.pc = "probe" /\ KeepsContracts /\ UNCHANGED verifiedTlds
        /\ r.probe.pricing # Unread /\ r.probe.issued # Unread
    BY <1>5, <1>r DEF Classify, NoProbe
  <2>2. /\ r.from \in 1..Len(generations) /\ r.probe \in Probes
        /\ ProbeHolds(r.probe, r.from, generations, config)
        /\ Live \in Since(generations, r.from) /\ Live = LatestOf(generations)
    BY <1>a, <1>b, <2>1 DEF ConnHolds, Conns, Begun
  <2>3. CASE ConnectFails(c)
    BY <1>e, <2>1, <2>3
  <2>4. CASE ~ConnectFails(c)
    <3>1. /\ profile # "unknown"
          /\ ConnectMoves(c, [r EXCEPT !.pc = "mapping", !.profile = profile,
                                       !.probe = NoProbe, !.shape = "unknown"])
      BY <1>5, <1>r, <2>4 DEF Classify
    <3>2. profile \in Profiles
      BY <2>2 DEF classifyProtocolVersion, Profiles
    <3>3. \E g \in Since(generations, r.from) : ProfileIn(config, g) = profile
      <4>1. CASE r.probe.pricing = "yes" /\ r.probe.issued = "yes"
        <5>1. profile \in {"v0.6.0", "unknown"}
          BY <4>1 DEF classifyProtocolVersion
        <5> QED BY <2>2, <3>1, <4>1, <5>1 DEF ProbeHolds, ProfileIn
      <4>2. CASE r.probe.pricing = "yes" /\ r.probe.issued # "yes"
        <5>1. profile \in {"v0.5.8-rc1", "unknown"}
          BY <4>2 DEF classifyProtocolVersion
        <5>2. r.probe.issued \in {"no", "null"}
          BY <2>1, <2>2, <4>2 DEF Probes, Reading
        <5> QED BY <2>2, <3>1, <4>2, <5>1, <5>2 DEF ProbeHolds, ProfileIn
      <4>3. CASE r.probe.pricing # "yes"
        <5>1. profile \in {"poprules-startingPrice", "unknown"} /\ r.probe.starting = "yes"
          BY <3>1, <4>3 DEF classifyProtocolVersion
        <5> QED BY <2>2, <3>1, <5>1 DEF ProbeHolds, ProfileIn
      <4> QED BY <4>1, <4>2, <4>3
    <3> HIDE DEF profile
    <3>4. NoProbe \in Probes
      BY DEF NoProbe, Probes, Reading
    <3>5. ConnHolds([r EXCEPT !.pc = "mapping", !.profile = profile,
                              !.probe = NoProbe, !.shape = "unknown"], generations, config)
      BY <1>a, <2>1, <3>2, <3>3, <3>4 DEF ConnHolds, Conns, ConnPCs, Begun
    <3> QED BY <1>c, <2>1, <3>1, <3>5
  <2> QED BY <2>3, <2>4
<1>6. CASE ConnectDone(c)
  <2>1. /\ r.pc = "mapping" /\ KeepsContracts /\ UNCHANGED verifiedTlds
        /\ ConnectFails(c) \/ ConnectMoves(c, [r EXCEPT !.pc = "ready"])
    BY <1>6, <1>r DEF ConnectDone
  <2>2. ConnHolds([r EXCEPT !.pc = "ready"], generations, config)
    BY <1>a, <2>1 DEF ConnHolds, Conns, ConnPCs, Begun
  <2> QED BY <1>c, <1>e, <2>1, <2>2
<1>7. CASE NewerLeg(c)
  <2>1. r.pc = "ready" /\ r.shape = "unknown" /\ KeepsContracts /\ UNCHANGED verifiedTlds
        /\ r.from \in 1..Len(generations)
    BY <1>7, <1>a, <1>r DEF NewerLeg, ConnHolds, Begun
  <2>2. \/ Live.shape = "v07" /\ ConnectMoves(c, [r EXCEPT !.shape = "v07"])
        \/ ConnectMoves(c, [r EXCEPT !.pc = "legacy"])
        \/ UNCHANGED conn
    BY <1>7, <1>r DEF NewerLeg, Leg
  <2>3. Live.shape = "v07" => ConnHolds([r EXCEPT !.shape = "v07"], generations, config)
    BY <1>a, <1>b, <2>1 DEF ConnHolds, Conns, ConnPCs, Begun
  <2>4. ConnHolds([r EXCEPT !.pc = "legacy"], generations, config)
    BY <1>a, <2>1 DEF ConnHolds, Conns, ConnPCs, Begun
  <2>5. CASE UNCHANGED conn
    BY <2>1, <2>5 DEF ConnectInv, KeepsContracts
  <2> QED BY <1>c, <2>1, <2>2, <2>3, <2>4, <2>5
<1>8. CASE OlderLeg(c)
  <2>1. r.pc = "legacy" /\ KeepsContracts /\ UNCHANGED verifiedTlds
        /\ r.from \in 1..Len(generations)
    BY <1>8, <1>a, <1>r DEF OlderLeg, ConnHolds, Begun
  <2>2. PICK shape \in {"unknown", "legacy"} :
          /\ shape = "legacy" => Live.shape = "legacy"
          /\ ConnectMoves(c, [r EXCEPT !.pc = "ready", !.shape = shape])
    BY <1>8, <1>r DEF OlderLeg, Leg
  <2>3. ConnHolds([r EXCEPT !.pc = "ready", !.shape = shape], generations, config)
    BY <1>a, <1>b, <2>1, <2>2 DEF ConnHolds, Conns, ConnPCs, Begun
  <2> QED BY <1>c, <2>1, <2>2, <2>3
<1> QED BY <1>1, <1>2, <1>3, <1>4, <1>5, <1>6, <1>7, <1>8 DEF ConnectStep

\* So every step keeps it.
LEMMA ConnectNextKeeps == ConnectInv /\ [ConnectNext]_ConnectVars => ConnectInv'
<1>1. ConnectInv /\ UNCHANGED ConnectVars => ConnectInv'
  BY DEF ConnectInv, ConnectVars
<1> QED BY <1>1, UpgradeKeeps, ConnectStepKeeps DEF ConnectNext

\* ConclusionsHold for any connections, starts and upgrades: the profile, the TLD and the
\* tuple's shape a ready connection works with were each true of the contracts at one
\* time since it began to ask (connect, detectProtocolVersion and the shape probe).
THEOREM ConclusionsWereTrue == ConnectSpec => [](ConnectTypeOK /\ ConclusionsHold)
BY ConnectInitHolds, ConnectNextKeeps, ConnectInvImplies, PTL DEF ConnectSpec

(***************************************************************************)
(* SessionAllowance. A command that skips the read of the chain relies on a *)
(* marker, which some process wrote after it had found the allowance there; *)
(* what was granted is not taken back before its grace ends.               *)
(***************************************************************************)

AllowancePCs == {"idle", "preflight", "present", "absent", "slot", "slotted", "pooled",
                 "pairing", "allocating", "confirming", "logout"}
Processes ==
    [cmd : {"none", "login", "logout", "deploy"}, pc : AllowancePCs,
     account : {NoSession} \union SssAccounts, read : Nat]

\* The account's allowance was there on a day, and as granted stays it was.
WasPresent(given, a, d) == a \in SssAccounts /\ d <= given[a] + Grace

\* A process that goes on to use an account has one; one that found the allowance
\* present did so on the day it remembers.
ProcessInv ==
    \A c \in Commands :
        /\ command[c] \in Processes
        /\ command[c].pc \in {"preflight", "present", "slot", "slotted", "pooled",
                              "allocating", "confirming"} => Account(c) \in SssAccounts
        /\ command[c].pc = "present" =>
               command[c].read <= day /\ WasPresent(granted, Account(c), command[c].read)

\* A marker lasts to the end of the day it was written on, and the allowance was there
\* on the day that was read.
MarkerInv ==
    \A m \in marker :
        /\ m \in [account : SssAccounts, until : Nat, wrote : Nat, read : Nat]
        /\ m.until = m.wrote + 1 /\ m.read <= m.wrote /\ m.wrote <= day
        /\ WasPresent(granted, m.account, m.read)

\* The inductive invariant.
AllowanceInv ==
    /\ AllowanceTypeOK /\ command \in [Commands -> Processes]
    /\ (marker = {} \/ \E m \in marker : marker = {m})
    /\ \A a \in SssAccounts : granted[a] <= day
    /\ ProcessInv /\ MarkerInv

\* Every start satisfies it: nothing runs, and there is no marker.
LEMMA AllowanceInitHolds == AllowanceInit => AllowanceInv
<1> SUFFICES ASSUME AllowanceInit PROVE AllowanceInv
  OBVIOUS
<1>1. Idle \in Processes /\ Idle.pc = "idle" /\ Idle.account = NoSession
  BY DEF Idle, Processes, AllowancePCs
<1>2. AllowanceTypeOK
  BY <1>1, FS_EmptySet, AllowanceAssumption DEF AllowanceInit, AllowanceTypeOK, Account
<1>3. command \in [Commands -> Processes] /\ \A a \in SssAccounts : granted[a] <= day
  BY <1>1 DEF AllowanceInit
<1>4. ProcessInv /\ MarkerInv
  BY <1>1 DEF AllowanceInit, ProcessInv, MarkerInv
<1> QED BY <1>2, <1>3, <1>4 DEF AllowanceInv, AllowanceInit

\* What was granted is not taken back, so what was present on a day stays so.
LEMMA PresenceLasts ==
  ASSUME AllowanceInv, day' \in 0..LastDay, day <= day',
         \/ UNCHANGED granted
         \/ \E a \in SssAccounts : granted' = [granted EXCEPT ![a] = day]
  PROVE  /\ granted' \in [SssAccounts -> 0..LastDay]
         /\ \A a \in SssAccounts : granted'[a] <= day'
         /\ \A a, d : d \in Nat /\ WasPresent(granted, a, d) => WasPresent(granted', a, d)
<1> USE AllowanceAssumption
<1>1. /\ granted \in [SssAccounts -> 0..LastDay] /\ day \in 0..LastDay
      /\ \A a \in SssAccounts : granted[a] <= day
  BY DEF AllowanceInv, AllowanceTypeOK
<1>2. /\ granted' \in [SssAccounts -> 0..LastDay]
      /\ \A a \in SssAccounts : granted[a] <= granted'[a] /\ granted'[a] <= day'
  BY <1>1
<1>3. \A a \in SssAccounts : granted[a] \in Nat /\ granted'[a] \in Nat
  BY <1>1, <1>2
<1> QED BY <1>2, <1>3 DEF WasPresent

\* A step that leaves the marker as it is, or clears it, and moves one process.
LEMMA OneProcessMoves ==
  ASSUME AllowanceInv, NEW c \in Commands, NEW p \in Processes,
         command' = [command EXCEPT ![c] = p],
         p.pc \in {"preflight", "present", "slot", "slotted", "pooled",
                   "allocating", "confirming"} => p.account \in SssAccounts,
         p.pc = "present" => p.read <= day /\ WasPresent(granted', p.account, p.read),
         UNCHANGED day, commands' \in 0..MaxCommands,
         \/ UNCHANGED granted
         \/ \E a \in SssAccounts : granted' = [granted EXCEPT ![a] = day],
         session' \in {NoSession} \union SssAccounts,
         slotKeys' \union slotAuth' \subseteq SssAccounts,
         \/ UNCHANGED marker
         \/ marker' = {}
         \/ \E m : /\ marker' = {m}
                   /\ m \in [account : SssAccounts, until : Nat, wrote : Nat, read : Nat]
                   /\ m.until = m.wrote + 1 /\ m.read <= m.wrote /\ m.wrote <= day
                   /\ WasPresent(granted, m.account, m.read)
  PROVE  AllowanceInv'
<1> USE AllowanceAssumption
<1>1. /\ granted' \in [SssAccounts -> 0..LastDay]
      /\ \A a \in SssAccounts : granted'[a] <= day'
      /\ \A a, d : d \in Nat /\ WasPresent(granted, a, d) => WasPresent(granted', a, d)
      /\ day \in 0..LastDay
  <2>1. day \in 0..LastDay /\ day' \in 0..LastDay /\ day <= day'
    BY DEF AllowanceInv, AllowanceTypeOK
  <2> QED BY <2>1, PresenceLasts
<1>2. /\ command' \in [Commands -> Processes]
      /\ \A d \in Commands : command'[d] = IF d = c THEN p ELSE command[d]
  BY DEF AllowanceInv
<1>3. ProcessInv'
  <2> SUFFICES ASSUME NEW d \in Commands
               PROVE  /\ command'[d] \in Processes
                      /\ command'[d].pc \in {"preflight", "present", "slot", "slotted",
                              "pooled", "allocating", "confirming"}
                           => command'[d].account \in SssAccounts
                      /\ command'[d].pc = "present" =>
                           command'[d].read <= day'
                           /\ WasPresent(granted', command'[d].account, command'[d].read)
    BY DEF ProcessInv, Account
  <2>1. CASE d = c
    BY <1>2, <2>1
  <2>2. CASE d # c
    <3>1. command'[d] = command[d] /\ command[d] \in Processes /\ command[d].read \in Nat
      BY <1>2, <2>2 DEF AllowanceInv, ProcessInv, Processes
    <3> QED BY <1>1, <3>1 DEF AllowanceInv, ProcessInv, Account
  <2> QED BY <2>1, <2>2
<1>4. /\ MarkerInv'
      /\ marker' = {} \/ \E m \in marker' : marker' = {m}
  <2>1. CASE UNCHANGED marker \/ marker' = {}
    <3>1. \A m \in marker : m.read \in Nat
      BY DEF AllowanceInv, MarkerInv
    <3> QED BY <1>1, <2>1, <3>1 DEF AllowanceInv, MarkerInv
  <2>2. CASE ~(UNCHANGED marker \/ marker' = {})
    <3>1. PICK m : /\ marker' = {m}
                   /\ m \in [account : SssAccounts, until : Nat, wrote : Nat, read : Nat]
                   /\ m.until = m.wrote + 1 /\ m.read <= m.wrote /\ m.wrote <= day
                   /\ WasPresent(granted, m.account, m.read)
      BY <2>2
    <3>2. m.read \in Nat /\ day' = day
      BY <3>1
    <3>3. WasPresent(granted', m.account, m.read)
      BY <1>1, <3>1, <3>2
    <3> QED BY <3>1, <3>2, <3>3 DEF MarkerInv
  <2> QED BY <2>1, <2>2
<1>5. AllowanceTypeOK'
  <2>1. Cardinality(marker') <= 1
    <3>1. CASE marker' = {}
      BY <3>1, FS_EmptySet
    <3>2. ASSUME NEW m, marker' = {m} PROVE Cardinality(marker') <= 1
      <4>1. Cardinality({m}) = 1
        BY FS_Singleton
      <4> QED BY <3>2, <4>1
    <3> QED BY <1>4, <3>1, <3>2
  <2>2. \A m \in marker' : m.account \in SssAccounts
    BY <1>4 DEF MarkerInv
  <2>3. \A d \in Commands : Account(d)' \in {NoSession} \union SssAccounts
    BY <1>2 DEF Account, Processes
  <2> QED BY <1>1, <2>1, <2>2, <2>3 DEF AllowanceTypeOK
<1> QED BY <1>1, <1>2, <1>3, <1>4, <1>5 DEF AllowanceInv

\* Days pass, and slots are authorised, without the processes.
LEMMA TimeKeepsAllowance == AllowanceInv /\ (NextDay \/ SlotAuthorized) => AllowanceInv'
<1> SUFFICES ASSUME AllowanceInv, NextDay \/ SlotAuthorized PROVE AllowanceInv'
  OBVIOUS
<1> USE AllowanceAssumption
<1>1. /\ day \in 0..LastDay /\ day' \in 0..LastDay /\ day <= day' /\ UNCHANGED granted
      /\ UNCHANGED <<session, marker, slotKeys, command, commands>>
      /\ slotAuth' \subseteq slotAuth \union slotKeys
  BY DEF AllowanceInv, AllowanceTypeOK, NextDay, SlotAuthorized, AllowanceFiles
<1>2. /\ granted' \in [SssAccounts -> 0..LastDay]
      /\ \A a \in SssAccounts : granted'[a] <= day'
      /\ \A a, d : d \in Nat /\ WasPresent(granted, a, d) => WasPresent(granted', a, d)
  BY <1>1, PresenceLasts
<1>3. AllowanceTypeOK'
  BY <1>1, <1>2 DEF AllowanceInv, AllowanceTypeOK, Account
<1>4. ProcessInv'
  <2>1. \A c \in Commands : command[c].read \in Nat
    BY DEF AllowanceInv, ProcessInv, Processes
  <2> QED BY <1>1, <1>2, <2>1 DEF AllowanceInv, ProcessInv, Account
<1>5. MarkerInv'
  <2>1. \A m \in marker : m.read \in Nat /\ m.wrote \in Nat
    BY DEF AllowanceInv, MarkerInv
  <2> QED BY <1>1, <1>2, <2>1 DEF AllowanceInv, MarkerInv
<1> QED BY <1>1, <1>2, <1>3, <1>4, <1>5 DEF AllowanceInv

\* Every step of a command does.
LEMMA CommandKeepsAllowance ==
  ASSUME AllowanceInv, NEW c \in Commands, AllowanceStep(c)
  PROVE  AllowanceInv'
<1> USE AllowanceAssumption
<1> DEFINE r == command[c]
<1>a. /\ r \in Processes /\ command \in [Commands -> Processes]
      /\ r.pc \in {"preflight", "present", "slot", "slotted", "pooled",
                   "allocating", "confirming"} => r.account \in SssAccounts
      /\ r.pc = "present" => r.read <= day /\ WasPresent(granted, r.account, r.read)
      /\ day \in 0..LastDay /\ day \in Nat /\ commands \in 0..MaxCommands
      /\ session \in {NoSession} \union SssAccounts
      /\ slotKeys \subseteq SssAccounts /\ slotAuth \subseteq SssAccounts
      /\ granted \in [SssAccounts -> 0..LastDay] /\ Account(c) = r.account
  BY DEF AllowanceInv, AllowanceTypeOK, ProcessInv, Account
<1>b. /\ Idle \in Processes /\ Idle.pc = "idle" /\ Idle.account = NoSession
  BY DEF Idle, Processes, AllowancePCs
<1>c. ASSUME NEW pc \in AllowancePCs
      PROVE  /\ [r EXCEPT !.pc = pc] \in Processes
             /\ [r EXCEPT !.pc = pc].pc = pc /\ [r EXCEPT !.pc = pc].account = r.account
             /\ [r EXCEPT !.pc = pc].read = r.read
  BY <1>a DEF Processes
<1> HIDE DEF r
<1>r. r = command[c]
  BY DEF r
\* The process moves to another step, and keeps its account.
<1>d. ASSUME NEW pc \in AllowancePCs \ {"present"}, Moves(c, pc),
             pc \in {"preflight", "slot", "slotted", "pooled", "allocating", "confirming"} =>
                 r.account \in SssAccounts,
             UNCHANGED <<day, commands, slotAuth>>,
             \/ UNCHANGED granted
             \/ \E a \in SssAccounts : granted' = [granted EXCEPT ![a] = day],
             session' \in {NoSession} \union SssAccounts, slotKeys' \subseteq SssAccounts,
             \/ UNCHANGED marker
             \/ marker' = {}
             \/ \E m : /\ marker' = {m}
                       /\ m \in [account : SssAccounts, until : Nat, wrote : Nat, read : Nat]
                       /\ m.until = m.wrote + 1 /\ m.read <= m.wrote /\ m.wrote <= day
                       /\ WasPresent(granted, m.account, m.read)
      PROVE  AllowanceInv'
  <2> DEFINE p == [r EXCEPT !.pc = pc]
  <2>1. p \in Processes /\ p.pc = pc /\ p.account = r.account
    BY <1>c, <1>d
  <2>2. command' = [command EXCEPT ![c] = p]
    BY <1>d, <1>r DEF Moves
  <2> HIDE DEF p
  <2>3. commands' \in 0..MaxCommands /\ slotKeys' \union slotAuth' \subseteq SssAccounts
    BY <1>a, <1>d
  <2> QED BY <1>d, <2>1, <2>2, <2>3, OneProcessMoves
\* It ends.
<1>e. ASSUME Finishes(c), UNCHANGED <<day, commands, slotAuth, session, slotKeys>>,
             UNCHANGED marker \/ marker' = {},
             \/ UNCHANGED granted
             \/ \E a \in SssAccounts : granted' = [granted EXCEPT ![a] = day]
      PROVE  AllowanceInv'
  <2>1. commands' \in 0..MaxCommands /\ slotKeys' \union slotAuth' \subseteq SssAccounts
        /\ session' \in {NoSession} \union SssAccounts
    BY <1>a, <1>e
  <2> QED BY <1>b, <1>e, <2>1, OneProcessMoves DEF Finishes
<1>1. ASSUME NEW cmd \in {"login", "logout", "deploy"}, Launch(c, cmd) PROVE AllowanceInv'
  <2> DEFINE p == IF cmd = "deploy" /\ session = NoSession THEN Idle
                  ELSE [Idle EXCEPT !.cmd = cmd, !.account = session,
                          !.pc = IF cmd = "logout" THEN "logout"
                                 ELSE IF session # NoSession THEN "preflight" ELSE "pairing"]
  <2>1. p \in Processes
    BY <1>a, <1>b DEF Processes, AllowancePCs
  <2>2. p.pc \in {"idle", "logout", "preflight", "pairing"}
        /\ (p.pc = "preflight" => p.account \in SssAccounts)
    BY <1>a DEF Idle
  <2>3. /\ command' = [command EXCEPT ![c] = p]
        /\ commands' \in 0..MaxCommands
        /\ UNCHANGED <<day, granted, session, marker, slotKeys, slotAuth>>
    BY <1>1, <1>a DEF Launch, AllowanceFiles
  <2> HIDE DEF p
  <2> QED BY <1>a, <2>1, <2>2, <2>3, OneProcessMoves
<1>2. CASE MarkerHit(c)
  BY <1>2, <1>a, <1>d, <1>r DEF MarkerHit, KeepsAllowances, AllowanceFiles, AllowancePCs
<1>3. CASE ReadAllowance(c)
  <2>1. r.pc = "preflight" /\ UNCHANGED <<day, granted, session, marker, slotKeys, slotAuth, commands>>
    BY <1>3, <1>r DEF ReadAllowance, KeepsAllowances, AllowanceFiles
  <2>2. CASE Present(Account(c)) /\ command' = [command EXCEPT ![c].pc = "present", ![c].read = day]
    <3> DEFINE p == [r EXCEPT !.pc = "present", !.read = day]
    <3>1. p \in Processes /\ p.pc = "present" /\ p.account = r.account /\ p.read = day
      BY <1>a DEF Processes, AllowancePCs
    <3>2. command' = [command EXCEPT ![c] = p]
      BY <1>a, <1>r, <2>2
    <3>3. WasPresent(granted', p.account, p.read)
      BY <1>a, <2>1, <2>2, <3>1 DEF WasPresent, Present
    <3> HIDE DEF p
    <3>4. p.read <= day /\ p.account \in SssAccounts
      BY <1>a, <2>1, <3>1
    <3>5. commands' \in 0..MaxCommands /\ slotKeys' \union slotAuth' \subseteq SssAccounts
          /\ session' \in {NoSession} \union SssAccounts
      BY <1>a, <2>1
    <3> QED BY <2>1, <3>1, <3>2, <3>3, <3>4, <3>5, OneProcessMoves
  <2>3. CASE Moves(c, "absent") \/ Moves(c, "slot")
    BY <1>a, <1>d, <2>1, <2>3 DEF AllowancePCs
  <2> QED BY <1>3, <2>2, <2>3 DEF ReadAllowance
<1>4. CASE WriteMarker(c)
  <2> DEFINE m == [account |-> r.account, until |-> day + 1, wrote |-> day, read |-> r.read]
  <2>1. /\ r.pc = "present" /\ Moves(c, "slot") /\ r.read \in Nat
        /\ UNCHANGED <<day, granted, session, slotKeys, slotAuth, commands>>
        /\ marker' = {m} \/ UNCHANGED marker
    BY <1>4, <1>a, <1>r DEF WriteMarker, KeepsAllowances, Processes
  <2>2. /\ m \in [account : SssAccounts, until : Nat, wrote : Nat, read : Nat]
        /\ m.until = m.wrote + 1 /\ m.read <= m.wrote /\ m.wrote <= day
        /\ WasPresent(granted, m.account, m.read)
    BY <1>a, <2>1
  <2> HIDE DEF m
  <2> QED BY <1>a, <1>d, <2>1, <2>2 DEF AllowancePCs
<1>5. CASE ClearMarker(c)
  BY <1>5, <1>e DEF ClearMarker, KeepsAllowances
<1>6. CASE ResolveSlot(c)
  <2>1. r.pc = "slot" /\ UNCHANGED <<day, granted, slotAuth, commands, session, marker>>
    BY <1>6, <1>r DEF ResolveSlot, KeepsAllowances
  <2>2. \/ Finishes(c) /\ UNCHANGED slotKeys
        \/ /\ Moves(c, "slotted") \/ Moves(c, "pooled")
           /\ slotKeys' \in {slotKeys, slotKeys \union {r.account}}
    BY <1>6, <1>a DEF ResolveSlot
  <2>3. CASE Finishes(c) /\ UNCHANGED slotKeys
    BY <1>e, <2>1, <2>3
  <2>4. CASE /\ Moves(c, "slotted") \/ Moves(c, "pooled")
             /\ slotKeys' \in {slotKeys, slotKeys \union {r.account}}
    BY <1>a, <1>d, <2>1, <2>4 DEF AllowancePCs
  <2> QED BY <2>2, <2>3, <2>4
<1>7. CASE DeployEnds(c)
  BY <1>7, <1>e DEF DeployEnds, KeepsAllowances, AllowanceFiles
<1>8. CASE Pair(c)
  <2>1. UNCHANGED <<day, granted, slotAuth, commands, marker, slotKeys>>
    BY <1>8 DEF Pair, KeepsAllowances
  <2>2. CASE Finishes(c) /\ UNCHANGED session
    BY <1>e, <2>1, <2>2
  <2>3. ASSUME NEW a \in SssAccounts, session' = a,
               command' = [command EXCEPT ![c].pc = "allocating", ![c].account = a]
        PROVE  AllowanceInv'
    <3> DEFINE p == [r EXCEPT !.pc = "allocating", !.account = a]
    <3>1. p \in Processes /\ p.pc = "allocating" /\ p.account = a
      BY <1>a DEF Processes, AllowancePCs
    <3>2. command' = [command EXCEPT ![c] = p]
      BY <1>a, <1>r, <2>3
    <3> HIDE DEF p
    <3> QED BY <1>a, <2>1, <2>3, <3>1, <3>2, OneProcessMoves
  <2> QED BY <1>8, <2>2, <2>3 DEF Pair
<1>9. CASE Allocate(c)
  <2>1. /\ r.pc = "allocating" /\ UNCHANGED <<day, session, marker, slotAuth, commands>>
        /\ r.account \in SssAccounts
    BY <1>9, <1>a, <1>r DEF Allocate
  <2>2. \/ UNCHANGED granted
        \/ \E a \in SssAccounts : granted' = [granted EXCEPT ![a] = day]
    BY <1>9, <1>a, <2>1 DEF Allocate
  <2>3. CASE slotKeys' = slotKeys \union {r.account} /\ Moves(c, "confirming")
    BY <1>a, <1>d, <2>1, <2>2, <2>3 DEF AllowancePCs
  <2>4. CASE Finishes(c) /\ UNCHANGED slotKeys
    BY <1>e, <2>1, <2>2, <2>4
  <2> QED BY <1>9, <1>a, <2>3, <2>4 DEF Allocate
<1>10. CASE ClearSession(c)
  <2>1. /\ Moves(c, "absent") /\ session' = NoSession /\ slotKeys' = {} /\ UNCHANGED marker
        /\ UNCHANGED <<day, granted, slotAuth, commands>>
    BY <1>10 DEF ClearSession, KeepsAllowances
  <2> QED BY <1>d, <2>1 DEF AllowancePCs
<1>11. ASSUME NEW cancelled \in BOOLEAN, ConfirmSlot(c, cancelled) PROVE AllowanceInv'
  BY <1>11, <1>e DEF ConfirmSlot, KeepsAllowances, AllowanceFiles
<1> QED BY <1>1, <1>2, <1>3, <1>4, <1>5, <1>6, <1>7, <1>8, <1>9, <1>10, <1>11
        DEF AllowanceStep

\* So every step keeps it.
LEMMA AllowanceNextKeeps == AllowanceInv /\ [AllowanceNext]_AllowanceVars => AllowanceInv'
<1> SUFFICES ASSUME AllowanceInv, [AllowanceNext]_AllowanceVars PROVE AllowanceInv'
  OBVIOUS
<1>1. CASE UNCHANGED AllowanceVars
  BY <1>1 DEF AllowanceInv, AllowanceVars, AllowanceFiles, AllowanceTypeOK, ProcessInv,
              MarkerInv, WasPresent, Account
<1> QED BY <1>1, TimeKeepsAllowance, CommandKeepsAllowance DEF AllowanceNext

\* A marker of today that was not written after midnight vouches for today.
LEMMA MarkerVouches ==
  ASSUME AllowanceInv, NEW c \in Commands, MarkerValid(c),
         ~\E m \in marker : m.read < m.wrote
  PROVE  Present(Account(c))
<1>1. PICK m \in marker : m.account = Account(c) /\ day < m.until
  BY DEF MarkerValid
<1>2. /\ m.until = m.wrote + 1 /\ m.read <= m.wrote /\ m.wrote <= day
      /\ WasPresent(granted, m.account, m.read)
      /\ m.wrote \in Nat /\ m.read \in Nat /\ day \in Nat
  BY <1>1, AllowanceAssumption DEF AllowanceInv, MarkerInv, AllowanceTypeOK
<1>3. m.read = m.wrote /\ m.wrote = day
  BY <1>1, <1>2
<1> QED BY <1>1, <1>2, <1>3 DEF WasPresent, Present

\* MarkerHitIsPresent for any accounts, processes and days: a deploy that leaves out the
\* read of the chain because of the cached marker (preflight, SSS_CACHE) works with an
\* account whose allowance is there, unless midnight fell between read and marker.
THEOREM SkippedReadWasPresent == AllowanceSpec => [](AllowanceTypeOK) /\ MarkerHitIsPresent
<1>1. AllowanceSpec => []AllowanceInv
  BY AllowanceInitHolds, AllowanceNextKeeps, PTL DEF AllowanceSpec
<1>2. AllowanceInv => AllowanceTypeOK
  BY DEF AllowanceInv
<1>3. AllowanceInv /\ [AllowanceNext]_AllowanceVars =>
        [\A c \in Commands :
           (command[c].pc = "preflight" /\ MarkerValid(c) /\ command'[c].pc = "slot")
             => Present(Account(c)) \/ \E m \in marker : m.read < m.wrote]_AllowanceVars
  BY MarkerVouches
<1> QED BY <1>1, <1>2, <1>3, PTL DEF AllowanceSpec, MarkerHitIsPresent

(***************************************************************************)
(* RecordWrite. A value is done on weak evidence: the nonce advanced, or a *)
(* read shows the value. What makes it sound is that without a             *)
(* reorganisation only the next nonce is ever pending, whoever signed it.  *)
(***************************************************************************)

WritePCs == {"precheck", "prepare", "sign", "watch", "readback", "done", "failed"}
Hows == {None, "skipped", "hash", "advanced", "best"}
Calls ==
    [run : 1..MaxRuns, kind : WriteKinds, target : Values, conn : Backends, pc : WritePCs,
     attempt : 1..MaxTxAttempts, slot : 0..MaxContention, rearms : 0..MaxRearms,
     base : Nat, n : Nat, inBest : BOOLEAN, read : BOOLEAN, reads : 0..MaxReads,
     from : Nat, how : Hows]
Entries == [by : 0..Sibling, val : Values \union {None}]
PoolTxs == [run : 1..MaxRuns, n : Nat, val : Values]

\* The record after the first k transactions of a chain, as in RecordAt.
WroteIn(chain, k) == {i \in 1..k : chain[i].val # None}
LastOne(wrote) == CHOOSE i \in wrote : \A j \in wrote : j <= i
RecordIn(chain, k) == chain[LastOne(WroteIn(chain, k))].val

\* Every variable has its type; the record had a value from the start, which every
\* backend has seen.
WriteTyped ==
    /\ recordChain \in Seq(Entries) /\ recordFinal \in 1..Len(recordChain)
    /\ recordChain[1].val # None
    /\ recordPool \subseteq PoolTxs /\ IsFiniteSet(recordPool)
    /\ backendView \in [Backends -> 1..Len(recordChain)]
    /\ call \in Calls
    /\ writeReorgs \in 0..MaxWriteReorgs /\ writeRegime \in WriteRegimes

\* Nobody writes for a later run, what the current run writes is its target, and what
\* the record held before is final.
AuthorInv ==
    /\ \A t \in recordPool :
           t.run <= call.run /\ (t.run = call.run => t.val = call.target)
    /\ \A i \in 1..Len(recordChain) :
           /\ recordChain[i].by # Sibling => recordChain[i].by <= call.run
           /\ (recordChain[i].by = call.run /\ recordChain[i].val # None)
                 => recordChain[i].val = call.target
           /\ recordFinal < i => recordChain[i].by # 0

\* Without a reorganisation only the next nonce is ever pending, and nothing of a run
\* was included after what is pending of an earlier one.
OrderInv ==
    writeReorgs = 0 =>
        /\ \A t \in recordPool :
               /\ t.n = Len(recordChain)
               /\ \A i \in 1..Len(recordChain) :
                      recordChain[i].by # Sibling => recordChain[i].by <= t.run
        /\ NoLateOverwrite

\* What a call that read the record knows: the version it read was not its target, it
\* signs behind that version, and when it resolves its target was there after it.
ReadHolds(c, chain, view) ==
    c.read =>
        /\ c.pc # "precheck"
        /\ c.from \in 1..Len(chain) /\ RecordIn(chain, c.from) # c.target
        /\ c.pc \in {"prepare", "sign", "watch"} => c.from <= view[c.conn]
        /\ c.pc = "watch" => c.from <= c.n
        /\ c.pc \in {"readback", "done"} =>
               \E k \in 1..Len(chain) : c.from < k /\ RecordIn(chain, k) = c.target

\* What a call that saw a hash saw is final.
HashHolds(c, chain, upTo) ==
    c.how = "hash" => \E k \in 1..upTo : chain[k] = [by |-> c.run, val |-> c.target]

\* The inductive invariant.
WriteInv ==
    /\ WriteTyped /\ AuthorInv /\ OrderInv
    /\ writeReorgs = 0 => ReadHolds(call, recordChain, backendView)
    /\ HashHolds(call, recordChain, recordFinal)

\* The properties follow from it.
LEMMA WriteInvImplies == WriteInv => WriteTypeOK /\ SuccessWasOnChain /\ NoLateOverwrite
<1> SUFFICES ASSUME WriteInv PROVE WriteTypeOK /\ SuccessWasOnChain /\ NoLateOverwrite
  OBVIOUS
<1>1. WriteTypeOK
  BY SMTT(60) DEF WriteInv, WriteTyped, WriteTypeOK, Calls, Entries, PoolTxs, WritePCs, Hows
<1>2. NoLateOverwrite
  BY DEF WriteInv, OrderInv, NoLateOverwrite
<1>3. ASSUME call.pc = "done", call.read, writeReorgs = 0
      PROVE  \E k \in (call.from + 1)..Len(recordChain) : RecordAt(k) = call.target
  <2>1. PICK k \in 1..Len(recordChain) :
          call.from < k /\ RecordIn(recordChain, k) = call.target
    BY <1>3 DEF WriteInv, ReadHolds
  <2>2. call.from \in Nat /\ Len(recordChain) \in Nat
    BY DEF WriteInv, WriteTyped, Calls
  <2>3. k \in (call.from + 1)..Len(recordChain)
    BY <2>1, <2>2
  <2>4. RecordAt(k) = RecordIn(recordChain, k)
    BY DEF RecordAt, RecordIn, LastOne, WroteIn
  <2> QED BY <2>1, <2>3, <2>4
<1>4. call.how = "hash" =>
        \E k \in 1..recordFinal : recordChain[k] = [by |-> call.run, val |-> call.target]
  BY DEF WriteInv, HashHolds
<1> QED BY <1>1, <1>2, <1>3, <1>4 DEF SuccessWasOnChain

-----------------------------------------------------------------------------
\* The last write among the first k transactions.
LEMMA LastWrite ==
  ASSUME NEW chain \in Seq(Entries), NEW k \in 1..Len(chain), chain[1].val # None
  PROVE  /\ LastOne(WroteIn(chain, k)) \in WroteIn(chain, k)
         /\ \A j \in WroteIn(chain, k) : j <= LastOne(WroteIn(chain, k))
<1>1. WroteIn(chain, k) # {} /\ WroteIn(chain, k) \subseteq 0..k /\ k \in Nat
  <2>1. k \in Nat /\ k >= 1
    OBVIOUS
  <2>2. 1 \in WroteIn(chain, k)
    BY <2>1 DEF WroteIn
  <2>3. WroteIn(chain, k) \subseteq 0..k
    BY <2>1 DEF WroteIn
  <2> QED BY <2>1, <2>2, <2>3
<1>2. \E m \in WroteIn(chain, k) : \A j \in WroteIn(chain, k) : j <= m
  BY <1>1, LargestOf
<1> QED BY <1>2 DEF LastOne

\* A transaction that writes is the last write where it stands.
LEMMA WriteShows ==
  ASSUME NEW chain \in Seq(Entries), NEW k \in 1..Len(chain), chain[1].val # None,
         chain[k].val # None
  PROVE  RecordIn(chain, k) = chain[k].val
<1>1. k \in WroteIn(chain, k)
  BY DEF WroteIn
<1>2. LastOne(WroteIn(chain, k)) \in WroteIn(chain, k)
      /\ k <= LastOne(WroteIn(chain, k))
  BY <1>1, LastWrite
<1>3. LastOne(WroteIn(chain, k)) = k
  BY <1>2 DEF WroteIn
<1> QED BY <1>3 DEF RecordIn

\* A version stays what it was when the chain grows.
LEMMA VersionStays ==
  ASSUME NEW chain \in Seq(Entries), NEW more, chain[1].val # None,
         \A i \in 1..Len(chain) : more[i] = chain[i], NEW k \in 1..Len(chain)
  PROVE  RecordIn(more, k) = RecordIn(chain, k)
<1>1. WroteIn(more, k) = WroteIn(chain, k)
  BY DEF WroteIn
<1>2. LastOne(WroteIn(chain, k)) \in 1..Len(chain)
  BY LastWrite DEF WroteIn
<1> QED BY <1>1, <1>2 DEF RecordIn

\* An image of a finite set is no larger.
LEMMA ImageBound ==
  ASSUME NEW S, IsFiniteSet(S), NEW f, DOMAIN f = S, f = [x \in S |-> f[x]]
  PROVE  /\ IsFiniteSet({f[x] : x \in S})
         /\ Cardinality({f[x] : x \in S}) <= Cardinality(S)
<1> DEFINE T == {f[x] : x \in S}
<1>1. f \in Surjection(S, T)
  BY DEF Surjection
<1> HIDE DEF T
<1>2. IsFiniteSet(T) /\ Cardinality(T) <= Cardinality(S)
  BY <1>1, FS_Surjection
<1> QED BY <1>2 DEF T

\* The pool's queue ends: it holds finitely many nonces.
LEMMA QueueEnds ==
  ASSUME IsFiniteSet(recordPool), recordPool \subseteq PoolTxs, NEW n \in Nat
  PROVE  QueueFrom(n) \in Nat
<1> DEFINE c == Cardinality(recordPool)
           f == [t \in recordPool |-> t.n]
           used == {f[t] : t \in recordPool}
           free == (n..(n + c)) \ used
<1>1. c \in Nat
  BY FS_CardinalityType
<1>2. IsFiniteSet(used) /\ Cardinality(used) <= c
  BY ImageBound
<1>3. \A i : i \in used <=> \E t \in recordPool : t.n = i
  OBVIOUS
<1> HIDE DEF c, used
<1>4. free # {}
  <2>1. SUFFICES ASSUME n..(n + c) \subseteq used PROVE FALSE
    OBVIOUS
  <2>2. Cardinality(n..(n + c)) = c + 1
    <3>1. n \in Int /\ n + c \in Int /\ ~(n > n + c) /\ (n + c) - n + 1 = c + 1
      BY <1>1
    <3> QED BY <3>1, FS_Interval
  <2>3. Cardinality(n..(n + c)) <= Cardinality(used)
    BY <1>2, <2>1, FS_Subset
  <2>4. Cardinality(used) \in Nat
    BY <1>2, FS_CardinalityType
  <2> QED BY <1>1, <1>2, <2>2, <2>3, <2>4
<1>5. free \subseteq Nat
  BY <1>1
<1>6. PICK m \in free : \A i \in free : m <= i
  <2> HIDE DEF free
  <2> QED BY <1>4, <1>5, SmallestOf
<1>7. /\ m \in n..(n + c)
      /\ \A i \in n..(m - 1) : \E t \in recordPool : t.n = i
      /\ ~\E t \in recordPool : t.n = m
  <2>1. ASSUME NEW i \in n..(m - 1) PROVE i \in used
    <3>1. i \in n..(n + c) /\ ~(m <= i)
      BY <1>1, <1>6
    <3> QED BY <1>6, <3>1
  <2> QED BY <1>3, <1>6, <2>1
<1>8. \E q \in n..(n + c) :
        /\ \A i \in n..(q - 1) : \E t \in recordPool : t.n = i
        /\ ~\E t \in recordPool : t.n = q
  BY <1>7
<1>9. QueueFrom(n) \in n..(n + c)
  BY <1>8 DEF QueueFrom, c
<1> QED BY <1>1, <1>9

\* Every start satisfies it: the record holds its last old value, and nothing is sent.
LEMMA WriteInitHolds == WriteInit => WriteInv
<1> SUFFICES ASSUME NEW regime \in WriteRegimes, NEW kind \in WriteKinds, NEW target \in Values,
                    NEW backend \in Backends, NEW views \in [Backends -> DOMAIN OldValues],
                    WriteStart(regime, kind, target, backend, views)
             PROVE  WriteInv
  BY DEF WriteInit
<1> USE WriteAssumption
<1>1. /\ recordChain \in Seq(Entries) /\ Len(recordChain) = Len(OldValues)
      /\ Len(OldValues) \in Nat /\ Len(OldValues) >= 1 /\ DOMAIN OldValues = 1..Len(OldValues)
      /\ \A i \in 1..Len(OldValues) : recordChain[i].by = 0 /\ recordChain[i].val = OldValues[i]
  <2>1. \A i \in DOMAIN OldValues : [by |-> 0, val |-> OldValues[i]] \in Entries
    BY DEF Entries, Values, Sibling
  <2>2. Len(OldValues) \in Nat /\ Len(OldValues) >= 1 /\ DOMAIN OldValues = 1..Len(OldValues)
    OBVIOUS
  <2>3. recordChain \in [1..Len(OldValues) -> Entries]
    BY <2>1, <2>2 DEF WriteStart
  <2> QED BY <2>2, <2>3 DEF WriteStart
<1>2. \A i \in 1..Len(OldValues) : OldValues[i] # None
  BY <1>1 DEF Values
<1>3. /\ call \in Calls /\ call.run = 1 /\ call.pc = "precheck" /\ ~call.read /\ call.how = None
      /\ call.target = target
  <2>1. /\ 0 \in 0..MaxContention /\ 0 \in 0..MaxRearms /\ 0 \in 0..MaxReads
        /\ 1 \in 1..MaxTxAttempts /\ 1 \in 1..MaxRuns /\ NoNonce \in Nat
    BY DEF NoNonce
  <2> QED BY <2>1 DEF WriteStart, NewCall, Calls, WritePCs, Hows
<1>4. WriteTyped
  <2>1. IsFiniteSet(recordPool)
    BY FS_EmptySet DEF WriteStart
  <2>2. 1 \in 1..Len(OldValues) /\ 0 \in 0..MaxWriteReorgs
    BY <1>1
  <2> QED BY <1>1, <1>2, <1>3, <2>1, <2>2 DEF WriteStart, WriteTyped
<1>5. AuthorInv
  BY <1>1, <1>3 DEF WriteStart, AuthorInv
<1>6. OrderInv
  <2>1. \A i \in DOMAIN recordChain : recordChain[i].by = 0
    BY <1>1 DEF WriteStart
  <2> QED BY <2>1 DEF WriteStart, OrderInv, NoLateOverwrite
<1>7. ReadHolds(call, recordChain, backendView) /\ HashHolds(call, recordChain, recordFinal)
  BY <1>3 DEF ReadHolds, HashHolds, None
<1> QED BY <1>4, <1>5, <1>6, <1>7 DEF WriteInv

-----------------------------------------------------------------------------
\* When the chain grows, what a call knows of it stays.
LEMMA KnowledgeStays ==
  ASSUME NEW chain \in Seq(Entries), chain[1].val # None, NEW more \in Seq(Entries),
         Len(chain) <= Len(more), \A i \in 1..Len(chain) : more[i] = chain[i],
         NEW view \in [Backends -> 1..Len(chain)], NEW wider \in [Backends -> 1..Len(more)],
         \A b \in Backends : view[b] <= wider[b],
         NEW c \in Calls, ReadHolds(c, chain, view)
  PROVE  ReadHolds(c, more, wider)
<1>1. \A k \in 1..Len(chain) : k \in 1..Len(more) /\ RecordIn(more, k) = RecordIn(chain, k)
  BY VersionStays
<1>2. c.from \in Nat /\ view[c.conn] \in Nat /\ wider[c.conn] \in Nat
      /\ view[c.conn] <= wider[c.conn]
  <2>1. c.from \in Nat /\ c.conn \in Backends
    BY DEF Calls
  <2> QED BY <2>1
<1> QED BY <1>1, <1>2 DEF ReadHolds

\* A transaction is appended: one of the pool, which leaves it, or a sibling's.
LEMMA InclusionKeeps ==
  ASSUME WriteInv, NEW entry \in Entries, Included(entry),
         \/ entry.by = Sibling
         \/ \E t \in recordPool : /\ t.n = Len(recordChain) /\ entry.by = t.run
                                  /\ entry.val \in {t.val, None}
  PROVE  WriteInv'
<1> USE WriteAssumption DEF WriteInv
<1>1. /\ recordChain \in Seq(Entries) /\ Len(recordChain) \in Nat
      /\ recordFinal \in 1..Len(recordChain) /\ Len(recordChain) >= 1
      /\ recordChain' = Append(recordChain, entry)
      /\ recordPool' = {t \in recordPool : t.n > Len(recordChain)}
      /\ UNCHANGED <<backendView, call, writeReorgs, writeRegime>>
      /\ call \in Calls /\ call.run \in 1..MaxRuns
  <2>1. /\ recordChain \in Seq(Entries) /\ recordFinal \in 1..Len(recordChain) /\ call \in Calls
    BY DEF WriteTyped
  <2>2. Len(recordChain) \in Nat /\ Len(recordChain) >= 1
    BY <2>1
  <2>3. call.run \in 1..MaxRuns
    BY <2>1 DEF Calls
  <2> QED BY <2>1, <2>2, <2>3 DEF Included
<1>2. /\ recordChain' \in Seq(Entries) /\ Len(recordChain') = Len(recordChain) + 1
      /\ \A i \in 1..Len(recordChain) : recordChain'[i] = recordChain[i]
      /\ recordChain'[Len(recordChain) + 1] = entry
  BY <1>1
<1>3. recordFinal' \in 1..Len(recordChain') /\ recordFinal <= recordFinal'
  BY <1>1, <1>2 DEF Included
<1>4. WriteTyped'
  <2>1. IsFiniteSet(recordPool')
    BY <1>1, FS_Subset DEF WriteTyped
  <2>2. backendView' \in [Backends -> 1..Len(recordChain')]
    BY <1>1, <1>2 DEF WriteTyped
  <2>3. recordChain'[1].val # None
    BY <1>1, <1>2 DEF WriteTyped
  <2> QED BY <1>1, <1>2, <1>3, <2>1, <2>2, <2>3 DEF WriteTyped
<1>5. \A i \in 1..Len(recordChain') : i \in 1..Len(recordChain) \/ i = Len(recordChain) + 1
  BY <1>1, <1>2
<1>6. /\ entry.by # Sibling => entry.by <= call.run /\ entry.by # 0
      /\ entry.by = call.run /\ entry.val # None => entry.val = call.target
      /\ Sibling # 0 /\ Sibling # call.run
  BY SMTT(60), <1>1 DEF AuthorInv, WriteTyped, PoolTxs, Sibling
<1>7. AuthorInv'
  <2>1. ASSUME NEW i \in 1..Len(recordChain')
        PROVE  /\ recordChain'[i].by # Sibling => recordChain'[i].by <= call.run
               /\ (recordChain'[i].by = call.run /\ recordChain'[i].val # None)
                     => recordChain'[i].val = call.target
               /\ recordFinal' < i => recordChain'[i].by # 0
    <3>1. CASE i \in 1..Len(recordChain)
      <4>1. recordFinal' < i => recordFinal < i
        BY <1>1, <1>2, <1>3, <3>1
      <4> QED BY <1>2, <3>1, <4>1 DEF AuthorInv
    <3>2. CASE i = Len(recordChain) + 1
      BY <1>2, <1>6, <3>2
    <3> QED BY <1>5, <3>1, <3>2
  <2>2. \A t \in recordPool' : t.run <= call.run /\ (t.run = call.run => t.val = call.target)
    BY <1>1 DEF AuthorInv
  <2>3. UNCHANGED call
    BY <1>1
  <2> QED BY <2>1, <2>2, <2>3 DEF AuthorInv
<1>8. OrderInv'
  <2>1. SUFFICES ASSUME writeReorgs = 0
                 PROVE  recordPool' = {} /\ NoLateOverwrite'
    BY <1>1 DEF OrderInv
  <2>2. recordPool' = {}
    BY <1>1, <2>1 DEF OrderInv
  <2>3. DOMAIN recordChain = 1..Len(recordChain) /\ DOMAIN recordChain' = 1..Len(recordChain')
    BY <1>1, <1>2
  <2>4. ASSUME NEW i \in DOMAIN recordChain', NEW j \in DOMAIN recordChain', i < j,
               recordChain'[j].by # Sibling, recordChain'[i].by # Sibling
        PROVE  recordChain'[i].by <= recordChain'[j].by
    <3>1. i \in 1..Len(recordChain) /\ recordChain'[i] = recordChain[i]
      BY <1>1, <1>2, <2>3, <2>4
    <3>2. CASE j \in 1..Len(recordChain)
      BY <1>2, <2>1, <2>3, <2>4, <3>1, <3>2 DEF OrderInv, NoLateOverwrite
    <3>3. CASE j = Len(recordChain) + 1
      BY <1>2, <2>1, <2>4, <3>1, <3>3 DEF OrderInv
    <3> QED BY <1>5, <2>3, <3>2, <3>3
  <2> QED BY <2>2, <2>4 DEF NoLateOverwrite
<1>9. writeReorgs = 0 => ReadHolds(call, recordChain', backendView)
  <2>1. \A b \in Backends : backendView[b] <= backendView[b]
    BY DEF WriteTyped
  <2>2. backendView \in [Backends -> 1..Len(recordChain)]
        /\ backendView \in [Backends -> 1..Len(recordChain')]
    BY <1>1, <1>4 DEF WriteTyped
  <2>3. Len(recordChain) <= Len(recordChain') /\ recordChain[1].val # None
    BY <1>1, <1>2 DEF WriteTyped
  <2> QED BY <1>1, <1>2, <2>1, <2>2, <2>3, KnowledgeStays
<1>10. HashHolds(call, recordChain', recordFinal')
  BY SMTT(60), <1>1, <1>2, <1>3 DEF HashHolds
<1> QED BY <1>1, <1>4, <1>7, <1>8, <1>9, <1>10

\* What a reorganisation undoes comes back to the pool, if it was the deployer's.
LEMMA ReorgKeeps == WriteInv /\ ReorgTxs => WriteInv'
<1> SUFFICES ASSUME WriteInv, ReorgTxs PROVE WriteInv'
  OBVIOUS
<1> USE WriteAssumption DEF WriteInv
<1> DEFINE back == {j \in (recordFinal + 1)..Len(recordChain) :
                       recordChain[j].by # Sibling /\ recordChain[j].val # None}
           again == [i \in back |->
                       [run |-> recordChain[i].by, n |-> i - 1, val |-> recordChain[i].val]]
<1>1. /\ recordChain \in Seq(Entries) /\ Len(recordChain) \in Nat
      /\ recordFinal \in 1..Len(recordChain) /\ recordFinal \in Nat
      /\ recordChain' = SubSeq(recordChain, 1, recordFinal)
      /\ recordPool' = recordPool \union {again[i] : i \in back}
      /\ writeReorgs' = writeReorgs + 1 /\ writeReorgs' \in 0..MaxWriteReorgs
      /\ writeReorgs' # 0
      /\ UNCHANGED <<recordFinal, call, writeRegime>>
      /\ call \in Calls /\ call.run \in 1..MaxRuns
  <2>1. /\ recordChain \in Seq(Entries) /\ recordFinal \in 1..Len(recordChain) /\ call \in Calls
        /\ writeReorgs \in 0..MaxWriteReorgs
    BY DEF WriteTyped
  <2>2. Len(recordChain) \in Nat /\ recordFinal \in Nat
    BY <2>1
  <2>3. call.run \in 1..MaxRuns
    BY <2>1 DEF Calls
  <2>4. /\ recordChain' = SubSeq(recordChain, 1, recordFinal)
        /\ recordPool' = recordPool \union {again[i] : i \in back}
        /\ writeReorgs' = writeReorgs + 1 /\ writeReorgs < MaxWriteReorgs
        /\ UNCHANGED <<recordFinal, call, writeRegime>>
    BY DEF ReorgTxs
  <2>5. writeReorgs' \in 0..MaxWriteReorgs /\ writeReorgs' # 0
    BY <2>1, <2>4
  <2> HIDE DEF again, back
  <2> QED BY <2>1, <2>2, <2>3, <2>4, <2>5
<1>2. /\ recordChain' \in Seq(Entries) /\ Len(recordChain') = recordFinal
      /\ \A i \in 1..recordFinal : recordChain'[i] = recordChain[i]
  <2>1. \A i \in 1..recordFinal : recordChain[i] \in Entries
    BY <1>1
  <2>2. 1 \in Int /\ recordFinal \in Int /\ 1 <= recordFinal /\ recordFinal - 1 + 1 = recordFinal
    BY <1>1
  <2> QED BY SMTT(60), <1>1, <2>1, <2>2, SubSeqProperties
<1>3. \A i \in back : /\ again[i] \in PoolTxs /\ again[i].run <= call.run
                      /\ again[i].run = call.run => again[i].val = call.target
  <2> SUFFICES ASSUME NEW i \in back
               PROVE  /\ again[i] \in PoolTxs /\ again[i].run <= call.run
                      /\ again[i].run = call.run => again[i].val = call.target
    OBVIOUS
  <2>1. /\ i \in 1..Len(recordChain) /\ recordFinal < i /\ i - 1 \in Nat
        /\ recordChain[i] \in Entries
    BY SMTT(60), <1>1
  <2>2. /\ recordChain[i].by \in 1..MaxRuns /\ recordChain[i].val \in Values
        /\ recordChain[i].by <= call.run
        /\ recordChain[i].by = call.run => recordChain[i].val = call.target
    <3>1. recordChain[i].val \in Values /\ recordChain[i].by \in 0..Sibling
      BY <2>1 DEF Entries
    <3>2. /\ recordChain[i].by # Sibling /\ recordChain[i].by # 0
          /\ recordChain[i].by <= call.run
          /\ recordChain[i].by = call.run => recordChain[i].val = call.target
      BY <2>1 DEF AuthorInv
    <3> QED BY <3>1, <3>2, WriteAssumption DEF Sibling
  <2> QED BY <2>1, <2>2 DEF PoolTxs
<1>4. IsFiniteSet(recordPool')
  <2>1. IsFiniteSet(back)
    <3>1. IsFiniteSet((recordFinal + 1)..Len(recordChain))
      BY <1>1, FS_Interval
    <3> QED BY ZenonT(60), <3>1, FS_Subset
  <2>2. IsFiniteSet({again[i] : i \in back})
    <3>1. DOMAIN again = back /\ again = [i \in back |-> again[i]]
      OBVIOUS
    <3> HIDE DEF again, back
    <3> QED BY <2>1, <3>1, ImageBound
  <2> QED BY <1>1, <2>2, FS_Union DEF WriteTyped
<1> HIDE DEF again, back
<1>5. WriteTyped'
  <2>1. backendView' \in [Backends -> 1..recordFinal]
    BY SMTT(60), <1>1 DEF ReorgTxs, WriteTyped
  <2>2. recordPool' \subseteq PoolTxs
    BY <1>1, <1>3 DEF WriteTyped
  <2>3. recordChain'[1].val # None
    BY <1>1, <1>2 DEF WriteTyped
  <2>4. recordFinal \in 1..recordFinal
    BY <1>1
  <2> QED BY <1>1, <1>2, <1>4, <2>1, <2>2, <2>3, <2>4 DEF WriteTyped
<1>6. AuthorInv'
  <2>1. \A i \in 1..Len(recordChain') : i \in 1..Len(recordChain) /\ ~(recordFinal < i)
    BY SMTT(60), <1>1, <1>2
  <2>2. \A t \in recordPool' : t.run <= call.run /\ (t.run = call.run => t.val = call.target)
    BY <1>1, <1>3 DEF AuthorInv
  <2> QED BY <1>1, <1>2, <2>1, <2>2 DEF AuthorInv
<1>7. HashHolds(call, recordChain', recordFinal')
  BY <1>1, <1>2 DEF HashHolds
<1> QED BY <1>1, <1>5, <1>6, <1>7 DEF OrderInv

\* So the environment keeps the invariant.
LEMMA EnvironmentKeepsWrite == WriteInv /\ WriteEnvironment => WriteInv'
<1> SUFFICES ASSUME WriteInv, WriteEnvironment PROVE WriteInv'
  OBVIOUS
<1> USE WriteAssumption DEF WriteInv
<1>1. CASE IncludeTx
  <2>1. PICK t \in recordPool, ok \in BOOLEAN :
          /\ t.n = Len(recordChain)
          /\ Included([by |-> t.run, val |-> IF ok THEN t.val ELSE None])
    BY <1>1 DEF IncludeTx
  <2> DEFINE entry == [by |-> t.run, val |-> IF ok THEN t.val ELSE None]
  <2>2. entry \in Entries /\ entry.by = t.run /\ entry.val \in {t.val, None}
    BY SMTT(60) DEF WriteTyped, PoolTxs, Entries, Sibling
  <2>3. Included(entry)
    BY <2>1
  <2> HIDE DEF entry
  <2> QED BY <2>1, <2>2, <2>3, InclusionKeeps
<1>2. CASE SiblingTx
  <2>1. PICK val \in {None, NewValue} : Included([by |-> Sibling, val |-> val])
    BY <1>2 DEF SiblingTx
  <2> DEFINE entry == [by |-> Sibling, val |-> val]
  <2>2. entry \in Entries /\ entry.by = Sibling
    BY DEF Entries, Sibling, Values
  <2> HIDE DEF entry
  <2> QED BY <2>1, <2>2, InclusionKeeps DEF entry
<1>3. CASE FinaliseTx
  <2>1. /\ recordFinal < Len(recordChain) /\ recordFinal' = Len(recordChain)
        /\ UNCHANGED <<recordChain, recordPool, backendView, call, writeReorgs, writeRegime>>
        /\ Len(recordChain) \in Nat /\ recordFinal \in 1..Len(recordChain)
    BY <1>3 DEF FinaliseTx, WriteTyped
  <2>2. WriteTyped'
    BY <2>1 DEF WriteTyped
  <2>3. AuthorInv'
    BY <2>1 DEF AuthorInv
  <2>4. OrderInv'
    BY <2>1 DEF OrderInv, NoLateOverwrite
  <2>5. HashHolds(call, recordChain, recordFinal')
    BY <2>1 DEF HashHolds
  <2> QED BY <2>1, <2>2, <2>3, <2>4, <2>5
<1>4. CASE CatchUp
  <2>1. PICK b \in Backends :
          /\ backendView[b] < Len(recordChain)
          /\ backendView' = [backendView EXCEPT ![b] = @ + 1]
          /\ UNCHANGED <<recordChain, recordFinal, recordPool, call, writeReorgs, writeRegime>>
    BY <1>4 DEF CatchUp
  <2>2. /\ backendView' \in [Backends -> 1..Len(recordChain)]
        /\ \A d \in Backends : backendView[d] <= backendView'[d]
    BY SMTT(60), <2>1 DEF WriteTyped
  <2>3. WriteTyped'
    BY <2>1, <2>2 DEF WriteTyped
  <2>4. AuthorInv' /\ OrderInv'
    BY <2>1 DEF AuthorInv, OrderInv, NoLateOverwrite
  <2>5. writeReorgs = 0 => ReadHolds(call, recordChain, backendView')
    <3>1. /\ recordChain \in Seq(Entries) /\ recordChain[1].val # None /\ call \in Calls
          /\ backendView \in [Backends -> 1..Len(recordChain)] /\ Len(recordChain) \in Nat
          /\ Len(recordChain) <= Len(recordChain)
      BY DEF WriteTyped
    <3> QED BY <2>2, <3>1, KnowledgeStays
  <2> QED BY <2>1, <2>3, <2>4, <2>5
<1> QED BY <1>1, <1>2, <1>3, <1>4, ReorgKeeps DEF WriteEnvironment

-----------------------------------------------------------------------------
\* A step of the run that leaves the chain alone.
LEMMA CallMoves ==
  ASSUME WriteInv, KeepChain, NEW to \in Calls, call' = to, to.run = call.run,
         to.target = call.target,
         writeReorgs = 0 => ReadHolds(to, recordChain, backendView),
         HashHolds(to, recordChain, recordFinal)
  PROVE  WriteInv'
<1>1. UNCHANGED <<recordChain, recordFinal, recordPool, backendView, writeReorgs, writeRegime>>
  BY DEF KeepChain
<1>2. WriteTyped'
  BY <1>1 DEF WriteInv, WriteTyped
<1>3. AuthorInv'
  BY <1>1 DEF WriteInv, AuthorInv
<1>4. OrderInv'
  BY <1>1 DEF WriteInv, OrderInv, NoLateOverwrite
<1> QED BY <1>1, <1>2, <1>3, <1>4 DEF WriteInv

\* A call that goes on to prepare, sign or watch, and learns nothing.
LEMMA CallGoesOn ==
  ASSUME WriteInv, KeepChain, NEW to \in Calls, call' = to, to.run = call.run,
         to.target = call.target, to.conn = call.conn, to.read = call.read,
         to.from = call.from, to.how = call.how,
         call.pc \in {"prepare", "sign", "watch"},
         \/ to.pc \in {"prepare", "sign"}
         \/ to.pc = "watch" /\ call.pc = "watch" /\ to.n = call.n
  PROVE  WriteInv'
<1>1. writeReorgs = 0 => ReadHolds(to, recordChain, backendView)
  BY DEF WriteInv, ReadHolds
<1>2. HashHolds(to, recordChain, recordFinal)
  BY DEF WriteInv, HashHolds
<1> QED BY <1>1, <1>2, CallMoves

\* A call that fails forgets what it read.
LEMMA CallFails == WriteInv /\ KeepChain /\ call' = Failed => WriteInv'
<1> SUFFICES ASSUME WriteInv, KeepChain, call' = Failed PROVE WriteInv'
  OBVIOUS
<1>1. call \in Calls
  BY DEF WriteInv, WriteTyped
<1>2. /\ 0 \in 0..MaxContention /\ 0 \in 0..MaxRearms /\ 0 \in 0..MaxReads
      /\ 1 \in 1..MaxTxAttempts /\ NoNonce \in Nat
  BY WriteAssumption DEF NoNonce
<1>3. Failed \in Calls
  BY ZenonT(60), <1>1, <1>2 DEF Failed, Ended, NewCall, Calls, WritePCs, Hows
<1>4. /\ Failed.run = call.run /\ Failed.target = call.target /\ Failed.read = FALSE
      /\ Failed.how = None
  BY <1>1 DEF Failed, Ended, NewCall, Calls
<1>5. /\ ReadHolds(Failed, recordChain, backendView)
      /\ HashHolds(Failed, recordChain, recordFinal)
  BY <1>4 DEF ReadHolds, HashHolds, None
<1> HIDE DEF Failed
<1> QED BY <1>3, <1>4, <1>5, CallMoves

\* A call that resolves, with what it goes by.
LEMMA CallResolves ==
  ASSUME WriteInv, KeepChain, NEW pc \in {"readback", "done"}, NEW how \in Hows,
         call' = [Ended(pc) EXCEPT !.how = how],
         (writeReorgs = 0 /\ call.read) =>
             /\ call.from \in 1..Len(recordChain)
             /\ RecordIn(recordChain, call.from) # call.target
             /\ \E k \in 1..Len(recordChain) :
                    call.from < k /\ RecordIn(recordChain, k) = call.target,
         how = "hash" => \E k \in 1..recordFinal :
                             recordChain[k] = [by |-> call.run, val |-> call.target]
  PROVE  WriteInv'
<1> DEFINE to == [Ended(pc) EXCEPT !.how = how]
<1>1. call \in Calls
  BY DEF WriteInv, WriteTyped
<1>2. /\ 0 \in 0..MaxContention /\ 0 \in 0..MaxRearms /\ 0 \in 0..MaxReads
      /\ 1 \in 1..MaxTxAttempts /\ NoNonce \in Nat
  BY WriteAssumption DEF NoNonce
<1>3. to \in Calls
  BY <1>1, <1>2 DEF Ended, NewCall, Calls, WritePCs
<1>4. /\ to.run = call.run /\ to.target = call.target /\ to.read = call.read
      /\ to.from = call.from /\ to.how = how /\ to.pc = pc
  BY <1>1 DEF Ended, NewCall, Calls
<1> HIDE DEF to
<1>5. writeReorgs = 0 => ReadHolds(to, recordChain, backendView)
  BY <1>4 DEF ReadHolds
<1>6. HashHolds(to, recordChain, recordFinal)
  BY <1>4 DEF HashHolds
<1> QED BY <1>3, <1>4, <1>5, <1>6, CallMoves DEF to

\* Where the target is read on the call's connection, it came after what was read first.
LEMMA TargetIsNewer ==
  ASSUME WriteInv, ReadsTarget, call.read, writeReorgs = 0,
         call.pc \in {"prepare", "sign", "watch"}
  PROVE  /\ call.from \in 1..Len(recordChain)
         /\ RecordIn(recordChain, call.from) # call.target
         /\ \E k \in 1..Len(recordChain) :
                call.from < k /\ RecordIn(recordChain, k) = call.target
<1>1. /\ call.from \in 1..Len(recordChain) /\ call.from <= backendView[call.conn]
      /\ RecordIn(recordChain, call.from) # call.target
  BY DEF WriteInv, ReadHolds
<1>2. backendView[call.conn] \in 1..Len(recordChain)
  BY DEF WriteInv, WriteTyped, Calls
<1>3. RecordIn(recordChain, backendView[call.conn]) = call.target
  BY DEF ReadsTarget, Reads, RecordAt, RecordIn, LastOne, WroteIn
<1>4. call.from # backendView[call.conn]
  BY <1>1, <1>3
<1>5. call.from < backendView[call.conn]
  BY <1>1, <1>2, <1>4
<1> QED BY <1>1, <1>2, <1>3, <1>5

\* The signature, with a nonce that is not past the chain: what it adds to the pool is
\* next.
LEMMA SignKeeps == WriteInv /\ Sign => WriteInv'
<1> SUFFICES ASSUME WriteInv, Sign PROVE WriteInv'
  OBVIOUS
<1> DEFINE tx == [run |-> call.run, n |-> SigningNonce, val |-> call.target]
           to == [call EXCEPT !.pc = "watch", !.n = SigningNonce, !.inBest = FALSE]
<1>1. /\ call.pc = "sign" /\ call' = to
      /\ UNCHANGED <<recordChain, recordFinal, backendView, writeReorgs, writeRegime>>
      /\ \/ recordPool' = recordPool
         \/ SigningNonce >= Len(recordChain) /\ recordPool' = recordPool \union {tx}
  <2>1. SigningNonce \in Nat /\ Len(recordChain) \in Nat
    BY DEF WriteInv, WriteTyped, SigningNonce, Calls
  <2> QED BY <2>1 DEF Sign
<1>2. /\ call \in Calls /\ SigningNonce \in 1..Len(recordChain) /\ SigningNonce \in Nat
      /\ SigningNonce = backendView[call.conn]
      /\ recordChain \in Seq(Entries) /\ Len(recordChain) \in Nat
  BY DEF WriteInv, WriteTyped, SigningNonce, Calls
<1>3. tx \in PoolTxs /\ tx.run = call.run /\ tx.n = SigningNonce /\ tx.val = call.target
  BY <1>2 DEF PoolTxs, Calls
<1>4. /\ to \in Calls /\ to.run = call.run /\ to.target = call.target /\ to.pc = "watch"
      /\ to.n = SigningNonce /\ to.read = call.read /\ to.from = call.from
      /\ to.conn = call.conn /\ to.how = call.how
  BY <1>2 DEF Calls, WritePCs
<1> HIDE DEF tx, to
<1>5. recordPool' = recordPool \/ recordPool' = recordPool \union {tx}
  BY <1>1
<1>6. WriteTyped'
  <2>1. IsFiniteSet(recordPool')
    BY <1>5, FS_AddElement DEF WriteInv, WriteTyped
  <2> QED BY <1>1, <1>3, <1>4, <1>5, <2>1 DEF WriteInv, WriteTyped
<1>7. AuthorInv'
  <2>1. call.run <= call.run
    BY <1>2 DEF Calls
  <2> QED BY <1>1, <1>3, <1>4, <1>5, <2>1 DEF WriteInv, AuthorInv
<1>8. OrderInv'
  <2>1. recordPool' # recordPool => tx.n = Len(recordChain)
    BY <1>1, <1>2, <1>3
  <2>2. \A i \in 1..Len(recordChain) :
          recordChain[i].by # Sibling => recordChain[i].by <= call.run
    BY DEF WriteInv, AuthorInv
  <2> QED BY <1>1, <1>3, <1>5, <2>1, <2>2 DEF WriteInv, OrderInv, NoLateOverwrite
<1>9. writeReorgs = 0 => ReadHolds(to, recordChain, backendView)
  BY <1>1, <1>2, <1>4 DEF WriteInv, ReadHolds
<1>10. HashHolds(to, recordChain, recordFinal)
  BY <1>4 DEF WriteInv, HashHolds
<1> QED BY <1>1, <1>6, <1>7, <1>8, <1>9, <1>10 DEF WriteInv

\* The steps of a run before its submission.
LEMMA SubmissionKeeps ==
  ASSUME WriteInv, \/ PreCheck \/ Prepare \/ PrepareBatch \/ SubmitFails \/ PollGivesUp
                   \/ PhoneSilent \/ WatchBest \/ OperationTimeout
  PROVE  WriteInv'
<1> USE WriteAssumption
<1>a. /\ call \in Calls /\ 1 \in 1..MaxTxAttempts /\ 0 \in 0..MaxContention /\ NoNonce \in Nat
      /\ \A b \in Backends : backendView[b] \in Nat /\ backendView[b] \in 1..Len(recordChain)
      /\ call.conn \in Backends
  <2>1. call \in Calls /\ backendView \in [Backends -> 1..Len(recordChain)]
    BY DEF WriteInv, WriteTyped
  <2>2. call.conn \in Backends
    BY <2>1 DEF Calls
  <2>3. 1 \in 1..MaxTxAttempts /\ 0 \in 0..MaxContention /\ NoNonce \in Nat
    BY DEF NoNonce
  <2> QED BY <2>1, <2>2, <2>3
<1>b. \A n \in IndexReads : n \in Nat
  BY <1>a, QueueEnds DEF IndexReads, WriteInv, WriteTyped
<1>1. CASE PreCheck
  <2>1. call.pc = "precheck" /\ KeepChain
    BY <1>1 DEF PreCheck
  <2>2. writeReorgs = 0 => ~call.read
    BY <2>1 DEF WriteInv, ReadHolds
  <2>3. CASE call' = [call EXCEPT !.pc = "done", !.how = "skipped"]
    <3> DEFINE to == [call EXCEPT !.pc = "done", !.how = "skipped"]
    <3>1. /\ to \in Calls /\ to.run = call.run /\ to.target = call.target
          /\ to.read = call.read /\ to.how = "skipped"
      BY <1>a DEF Calls, WritePCs, Hows
    <3> HIDE DEF to
    <3>2. writeReorgs = 0 => ReadHolds(to, recordChain, backendView)
      BY <2>2, <3>1 DEF ReadHolds
    <3>3. HashHolds(to, recordChain, recordFinal)
      BY <3>1 DEF HashHolds
    <3> QED BY <2>1, <2>3, <3>1, <3>2, <3>3, CallMoves DEF to
  <2>4. CASE /\ ~ReadsTarget
             /\ call' = [call EXCEPT !.pc = "prepare", !.read = TRUE,
                                     !.from = backendView[call.conn]]
    <3> DEFINE to == [call EXCEPT !.pc = "prepare", !.read = TRUE,
                                  !.from = backendView[call.conn]]
    <3>1. /\ to \in Calls /\ to.run = call.run /\ to.target = call.target
          /\ to.from = backendView[call.conn] /\ to.how = call.how /\ to.pc = "prepare"
          /\ to.conn = call.conn
      BY <1>a DEF Calls, WritePCs
    <3> HIDE DEF to
    <3>2. RecordIn(recordChain, backendView[call.conn]) # call.target
      BY <2>4 DEF ReadsTarget, Reads, RecordAt, RecordIn, LastOne, WroteIn
    <3>3. ReadHolds(to, recordChain, backendView)
      BY <1>a, <3>1, <3>2 DEF ReadHolds
    <3>4. HashHolds(to, recordChain, recordFinal)
      BY <3>1 DEF WriteInv, HashHolds
    <3> QED BY <2>1, <2>4, <3>1, <3>3, <3>4, CallMoves DEF to
  <2>5. CASE call' = [call EXCEPT !.pc = "prepare"]
    <3> DEFINE to == [call EXCEPT !.pc = "prepare"]
    <3>1. /\ to \in Calls /\ to.run = call.run /\ to.target = call.target
          /\ to.read = call.read /\ to.how = call.how
      BY <1>a DEF Calls, WritePCs
    <3> HIDE DEF to
    <3>2. writeReorgs = 0 => ReadHolds(to, recordChain, backendView)
      BY <2>2, <3>1 DEF ReadHolds
    <3>3. HashHolds(to, recordChain, recordFinal)
      BY <3>1 DEF WriteInv, HashHolds
    <3> QED BY <2>1, <2>5, <3>1, <3>2, <3>3, CallMoves DEF to
  <2> QED BY <1>1, <2>3, <2>4, <2>5 DEF PreCheck
<1>2. CASE Prepare \/ PrepareBatch
  <2>1. /\ call.pc = "prepare" /\ KeepChain
        /\ \/ call' = Failed
           \/ \E base \in {NoNonce, call.base} \union IndexReads :
                call' = [call EXCEPT !.pc = "sign", !.base = base]
    <3>1. [call EXCEPT !.pc = "sign"] = [call EXCEPT !.pc = "sign", !.base = call.base]
      BY <1>a DEF Calls
    <3> QED BY <1>2, <3>1 DEF Prepare, PrepareBatch
  <2>2. CASE call' = Failed
    BY <2>1, <2>2, CallFails
  <2>3. ASSUME NEW base \in {NoNonce, call.base} \union IndexReads,
               call' = [call EXCEPT !.pc = "sign", !.base = base]
        PROVE  WriteInv'
    <3> DEFINE to == [call EXCEPT !.pc = "sign", !.base = base]
    <3>1. base \in Nat
      BY <1>a, <1>b DEF Calls
    <3>2. /\ to \in Calls /\ to.run = call.run /\ to.target = call.target
          /\ to.conn = call.conn /\ to.read = call.read /\ to.from = call.from
          /\ to.how = call.how /\ to.pc = "sign"
      BY <1>a, <3>1 DEF Calls, WritePCs
    <3> HIDE DEF to
    <3> QED BY <2>1, <2>3, <3>2, CallGoesOn DEF to
  <2> QED BY <2>1, <2>2, <2>3
<1>3. CASE SubmitFails \/ PollGivesUp \/ OperationTimeout
  <2>1. /\ call.pc \in {"sign", "watch"} /\ KeepChain
        /\ call' = Failed \/ (MayRetry /\ call' = NextAttempt)
    BY <1>3 DEF SubmitFails, PollGivesUp, OperationTimeout
  <2>2. CASE call' = Failed
    BY <2>1, <2>2, CallFails
  <2>3. CASE MayRetry /\ call' = NextAttempt
    <3>1. call.attempt + 1 \in 1..MaxTxAttempts
      <4>1. call.attempt \in 1..MaxTxAttempts /\ call.attempt < MaxTxAttempts
        BY <1>a, <2>3 DEF MayRetry, Calls
      <4> QED BY <4>1
    <3>2. /\ NextAttempt \in Calls /\ NextAttempt.run = call.run
          /\ NextAttempt.target = call.target /\ NextAttempt.conn = call.conn
          /\ NextAttempt.read = call.read /\ NextAttempt.from = call.from
          /\ NextAttempt.how = call.how /\ NextAttempt.pc = "sign"
      BY <1>a, <3>1 DEF NextAttempt, Calls, WritePCs
    <3> QED BY <2>1, <2>3, <3>2, CallGoesOn
  <2> QED BY <2>1, <2>2, <2>3
<1>4. CASE PhoneSilent
  <2> DEFINE to == [call EXCEPT !.pc = "prepare", !.attempt = 1, !.slot = 0,
                                !.base = NoNonce, !.rearms = @ + 1]
  <2>1. /\ call.pc = "sign" /\ KeepChain
        /\ call' = Failed \/ (call.rearms < MaxRearms /\ call' = to)
    BY <1>4 DEF PhoneSilent
  <2>2. CASE call' = Failed
    BY <2>1, <2>2, CallFails
  <2>3. CASE call.rearms < MaxRearms /\ call' = to
    <3>1. call.rearms + 1 \in 0..MaxRearms
      <4>1. call.rearms \in 0..MaxRearms
        BY <1>a DEF Calls
      <4> QED BY <2>3, <4>1
    <3>2. /\ to \in Calls /\ to.run = call.run /\ to.target = call.target
          /\ to.conn = call.conn /\ to.read = call.read /\ to.from = call.from
          /\ to.how = call.how /\ to.pc = "prepare"
      BY <1>a, <3>1 DEF Calls, WritePCs
    <3> HIDE DEF to
    <3> QED BY <2>1, <2>3, <3>2, CallGoesOn
  <2> HIDE DEF to
  <2> QED BY <2>1, <2>2, <2>3
<1>5. CASE WatchBest
  <2> DEFINE to == [call EXCEPT !.inBest = Mine]
  <2>1. call.pc = "watch" /\ KeepChain /\ call' = to
    BY <1>5 DEF WatchBest
  <2>2. Mine \in BOOLEAN
    BY DEF Mine
  <2>3. /\ to \in Calls /\ to.run = call.run /\ to.target = call.target
        /\ to.conn = call.conn /\ to.read = call.read /\ to.from = call.from
        /\ to.how = call.how /\ to.pc = "watch" /\ to.n = call.n
    BY <1>a, <2>1, <2>2 DEF Calls
  <2> HIDE DEF to
  <2> QED BY <2>1, <2>3, CallGoesOn
<1> QED BY <1>1, <1>2, <1>3, <1>4, <1>5

\* The submission resolves, or a new slot is acquired; and the record is read back.
LEMMA ResolutionKeeps ==
  ASSUME WriteInv, \/ WatchFinal \/ PollAdvanced \/ PollBest
                   \/ ReadBackMatches \/ ReadBackRotates \/ ReadBackFails
  PROVE  WriteInv'
<1> USE WriteAssumption
<1>a. /\ call \in Calls /\ recordChain \in Seq(Entries) /\ Len(recordChain) \in Nat
      /\ recordFinal \in 1..Len(recordChain) /\ recordChain[1].val # None
      /\ \A b \in Backends : backendView[b] \in Nat
  BY DEF WriteInv, WriteTyped
<1>b. \A n \in IndexReads : n \in Nat
  BY <1>a, QueueEnds DEF IndexReads, WriteInv, WriteTyped
\* What a resolved call is.
<1>c. ASSUME NEW how \in {"hash", "advanced", "best"}, call' = Resolved(how)
      PROVE  \E pc \in {"readback", "done"} : call' = [Ended(pc) EXCEPT !.how = how]
  BY <1>c DEF Resolved
<1>1. CASE WatchFinal
  <2>1. /\ call.pc = "watch" /\ Mine /\ call.n < recordFinal /\ KeepChain
        /\ call' = IF recordChain[call.n + 1].val = None THEN Failed ELSE Resolved("hash")
    BY <1>1 DEF WatchFinal
  <2>2. CASE recordChain[call.n + 1].val = None
    BY <2>1, <2>2, CallFails
  <2>3. CASE recordChain[call.n + 1].val # None
    <3> DEFINE k == call.n + 1
    <3>1. k \in 1..Len(recordChain) /\ k \in 1..recordFinal /\ call.n < k /\ call.n \in Nat
      <4>1. call.n \in Nat
        BY <1>a DEF Calls
      <4> QED BY SMTT(60), <1>a, <2>1, <4>1
    <3>2. /\ recordChain[k].by = call.run /\ recordChain[k].val = call.target
          /\ recordChain[k] \in Entries
      BY SMTT(60), <1>a, <2>1, <2>3, <3>1 DEF Mine, WriteInv, AuthorInv
    <3>3. recordChain[k] = [by |-> call.run, val |-> call.target]
      BY <3>2 DEF Entries
    <3>4. RecordIn(recordChain, k) = call.target
      BY <1>a, <2>3, <3>1, <3>2, WriteShows
    <3>5. (writeReorgs = 0 /\ call.read) =>
              /\ call.from \in 1..Len(recordChain)
              /\ RecordIn(recordChain, call.from) # call.target
              /\ call.from <= call.n /\ call.from \in Nat
      BY <1>a, <2>1 DEF WriteInv, ReadHolds, Calls
    <3>6. (writeReorgs = 0 /\ call.read) => call.from < k
      BY <3>1, <3>5
    <3> HIDE DEF k
    <3>7. call' = Resolved("hash")
      BY <2>1, <2>3 DEF k
    <3>8. PICK pc \in {"readback", "done"} : call' = [Ended(pc) EXCEPT !.how = "hash"]
      BY <1>c, <3>7
    <3>9. "hash" \in Hows
      BY DEF Hows
    <3> QED BY <2>1, <3>1, <3>3, <3>4, <3>5, <3>6, <3>8, <3>9, CallResolves
  <2> QED BY <2>2, <2>3
\* The poller found the target.
<1>d. ASSUME NEW how \in {"advanced", "best"}, call.pc = "watch", ReadsTarget, KeepChain,
             call' = Resolved(how)
      PROVE  WriteInv'
  <2>1. PICK pc \in {"readback", "done"} : call' = [Ended(pc) EXCEPT !.how = how]
    BY <1>c, <1>d
  <2>2. how \in Hows /\ how # "hash"
    BY DEF Hows
  <2>3. (writeReorgs = 0 /\ call.read) =>
            /\ call.from \in 1..Len(recordChain)
            /\ RecordIn(recordChain, call.from) # call.target
            /\ \E k \in 1..Len(recordChain) :
                   call.from < k /\ RecordIn(recordChain, k) = call.target
    BY <1>d, TargetIsNewer
  <2> QED BY <1>d, <2>1, <2>2, <2>3, CallResolves
<1>2. CASE PollAdvanced
  <2>1. call.pc = "watch" /\ KeepChain
    BY <1>2 DEF PollAdvanced
  <2>2. CASE ReadsTarget /\ call' = Resolved("advanced")
    BY <1>d, <2>1, <2>2
  <2>3. CASE call.slot < MaxContention /\ Reacquire
    <3>1. PICK base \in {call.base} \union IndexReads :
            call' = [call EXCEPT !.pc = "sign", !.n = NoNonce, !.slot = @ + 1, !.base = base]
      BY <2>3 DEF Reacquire
    <3> DEFINE to == [call EXCEPT !.pc = "sign", !.n = NoNonce, !.slot = @ + 1, !.base = base]
    <3>2. base \in Nat /\ NoNonce \in Nat
      BY SMTT(60), <1>a, <1>b DEF Calls, NoNonce
    <3>3. call.slot + 1 \in 0..MaxContention
      <4>1. call.slot \in 0..MaxContention
        BY <1>a DEF Calls
      <4> QED BY <2>3, <4>1
    <3>4. /\ to \in Calls /\ to.run = call.run /\ to.target = call.target
          /\ to.conn = call.conn /\ to.read = call.read /\ to.from = call.from
          /\ to.how = call.how /\ to.pc = "sign"
      BY <1>a, <3>2, <3>3 DEF Calls, WritePCs
    <3> HIDE DEF to
    <3> QED BY <2>1, <3>1, <3>4, CallGoesOn DEF to
  <2>4. CASE call' = Failed
    BY <2>1, <2>4, CallFails
  <2> QED BY <1>2, <2>2, <2>3, <2>4 DEF PollAdvanced
<1>3. CASE PollBest
  BY <1>3, <1>d DEF PollBest
<1>4. CASE ReadBackMatches
  <2>1. call.pc = "readback" /\ KeepChain /\ call' = Ended("done")
    BY <1>4 DEF ReadBackMatches
  <2>2. call.how \in Hows /\ Ended("done") = [Ended("done") EXCEPT !.how = call.how]
    BY <1>a DEF Ended, NewCall, Calls
  <2>3. (writeReorgs = 0 /\ call.read) =>
            /\ call.from \in 1..Len(recordChain)
            /\ RecordIn(recordChain, call.from) # call.target
            /\ \E k \in 1..Len(recordChain) :
                   call.from < k /\ RecordIn(recordChain, k) = call.target
    BY <2>1 DEF WriteInv, ReadHolds
  <2>4. call.how = "hash" => \E k \in 1..recordFinal :
            recordChain[k] = [by |-> call.run, val |-> call.target]
    BY DEF WriteInv, HashHolds
  <2> QED BY <2>1, <2>2, <2>3, <2>4, CallResolves
<1>5. CASE ReadBackRotates
  <2>1. PICK b \in Backends : call' = [call EXCEPT !.reads = @ + 1, !.conn = b]
    BY <1>5 DEF ReadBackRotates
  <2> DEFINE to == [call EXCEPT !.reads = @ + 1, !.conn = b]
  <2>2. call.pc = "readback" /\ KeepChain /\ call.reads + 1 < MaxReads
    BY <1>5 DEF ReadBackRotates
  <2>3. call.reads + 1 \in 0..MaxReads
    <3>1. call.reads \in 0..MaxReads
      BY <1>a DEF Calls
    <3> QED BY <2>2, <3>1
  <2>4. /\ to \in Calls /\ to.run = call.run /\ to.target = call.target
        /\ to.read = call.read /\ to.from = call.from /\ to.how = call.how
        /\ to.pc = call.pc
    BY <1>a, <2>3 DEF Calls
  <2> HIDE DEF to
  <2>5. writeReorgs = 0 => ReadHolds(to, recordChain, backendView)
    BY <2>2, <2>4 DEF WriteInv, ReadHolds
  <2>6. HashHolds(to, recordChain, recordFinal)
    BY <2>4 DEF WriteInv, HashHolds
  <2> QED BY <2>1, <2>2, <2>4, <2>5, <2>6, CallMoves DEF to
<1>6. CASE ReadBackFails
  BY <1>6, CallFails DEF ReadBackFails
<1> QED BY <1>1, <1>2, <1>3, <1>4, <1>5, <1>6

\* Another run: nothing was written for it yet.
LEMMA RunAgainKeeps == WriteInv /\ RunAgain => WriteInv'
<1> SUFFICES ASSUME WriteInv, RunAgain PROVE WriteInv'
  OBVIOUS
<1> USE WriteAssumption
<1>1. PICK target \in Values, backend \in Backends :
        call' = NewCall(call.run + 1, call.kind, target, backend)
  BY DEF RunAgain
<1>2. /\ call.run < MaxRuns /\ call \in Calls
      /\ UNCHANGED <<recordChain, recordFinal, recordPool, backendView, writeReorgs,
                     writeRegime>>
  BY DEF RunAgain, KeepChain, WriteInv, WriteTyped
<1>3. call.run + 1 \in 1..MaxRuns /\ call.run \in 1..MaxRuns
  <2>1. call.run \in 1..MaxRuns
    BY <1>2 DEF Calls
  <2> QED BY <1>2, <2>1
<1>4. /\ 0 \in 0..MaxContention /\ 0 \in 0..MaxRearms /\ 0 \in 0..MaxReads
      /\ 1 \in 1..MaxTxAttempts /\ NoNonce \in Nat /\ call.kind \in WriteKinds
  BY <1>2 DEF NoNonce, Calls
<1> DEFINE to == NewCall(call.run + 1, call.kind, target, backend)
<1>5. /\ to \in Calls /\ to.run = call.run + 1 /\ to.read = FALSE /\ to.how = None
  BY <1>3, <1>4 DEF NewCall, Calls, WritePCs, Hows
<1> HIDE DEF to
<1>6. call' = to
  BY <1>1 DEF to
<1>7. WriteTyped'
  BY <1>2, <1>5, <1>6 DEF WriteInv, WriteTyped
<1>8. AuthorInv'
  <2>1. ASSUME NEW t \in recordPool PROVE t.run <= to.run /\ t.run # to.run
    <3>1. t.run <= call.run /\ t.run \in Nat
      BY DEF WriteInv, WriteTyped, AuthorInv, PoolTxs
    <3> QED BY <1>3, <1>5, <3>1
  <2>2. ASSUME NEW i \in 1..Len(recordChain)
        PROVE  /\ recordChain[i].by # Sibling => recordChain[i].by <= to.run
               /\ recordChain[i].by # to.run
               /\ recordFinal < i => recordChain[i].by # 0
    <3>1. /\ recordChain[i].by # Sibling => recordChain[i].by <= call.run
          /\ recordFinal < i => recordChain[i].by # 0
          /\ recordChain[i].by \in Nat
      <4>1. recordChain[i] \in Entries
        BY DEF WriteInv, WriteTyped
      <4>2. recordChain[i].by \in Nat
        BY <4>1 DEF Entries, Sibling
      <4> QED BY <4>2 DEF WriteInv, AuthorInv
    <3> QED BY SMTT(60), <1>3, <1>5, <3>1 DEF Sibling
  <2> QED BY <1>2, <1>6, <2>1, <2>2 DEF AuthorInv
<1>9. OrderInv'
  BY <1>2 DEF WriteInv, OrderInv, NoLateOverwrite
<1>10. ReadHolds(to, recordChain, backendView) /\ HashHolds(to, recordChain, recordFinal)
  BY <1>5 DEF ReadHolds, HashHolds, None
<1> QED BY <1>2, <1>6, <1>7, <1>8, <1>9, <1>10 DEF WriteInv

\* So every step keeps it.
LEMMA WriteNextKeeps == WriteInv /\ [WriteNext]_WriteVars => WriteInv'
<1> SUFFICES ASSUME WriteInv, [WriteNext]_WriteVars PROVE WriteInv'
  OBVIOUS
<1>1. CASE UNCHANGED WriteVars
  BY <1>1 DEF WriteInv, WriteVars, WriteTyped, AuthorInv, OrderInv, NoLateOverwrite
<1> QED BY <1>1, EnvironmentKeepsWrite, SignKeeps, SubmissionKeeps, ResolutionKeeps,
           RunAgainKeeps DEF WriteNext, WriteStep

\* The invariant holds in every behaviour.
LEMMA WriteInvariant == WriteSpec => []WriteInv
BY WriteInitHolds, WriteNextKeeps, PTL DEF WriteSpec

\* SuccessWasOnChain for any backends, budgets, siblings and runs: a write that is reported
\* done after a read of another value was on the chain after that read, although a nonce
\* that advanced and a lagging read both count as evidence; a final one stays.
THEOREM SuccessIsOnChain == WriteSpec => [](WriteTypeOK /\ SuccessWasOnChain)
BY WriteInvariant, WriteInvImplies, PTL

\* NoLateOverwrite likewise: a transaction a run gave up on is never included behind a
\* later run's, because both were signed with the same nonce.
THEOREM LateWritesLose == WriteSpec => []NoLateOverwrite
BY WriteInvariant, WriteInvImplies, PTL

(***************************************************************************)
(* The nine parts together, as MCServices composes them.                   *)
(***************************************************************************)

(* The parts begin as their modules do.                                    *)
LEMMA PartsBegin ==
  ASSUME ServicesInit
  PROVE  /\ WriteInit /\ FlowInit /\ FundingInit /\ StorageInit /\ AllowanceInit
         /\ PersonInit /\ PublishInit /\ ManifestInit /\ ConnectInit
<1>1. \A p \in Parts : Begins(p)
  BY DEF ServicesInit
<1>2. Begins("write") /\ Begins("flow") /\ Begins("funding") /\ Begins("storage")
      /\ Begins("allowance") /\ Begins("person") /\ Begins("publish")
      /\ Begins("manifest") /\ Begins("connect")
  BY <1>1 DEF Parts
<1> QED
  BY <1>2 DEF Begins

(* A step of the composition is a step of each part, or leaves it as it is. *)
LEMMA PartsStep ==
  ASSUME [ServicesNext]_ServicesVars
  PROVE  /\ [WriteNext]_WriteVars /\ [FlowNext]_FlowVars /\ [FundingNext]_FundingVars
         /\ [StorageNext]_StorageVars /\ [AllowanceNext]_AllowanceVars
         /\ [PersonhoodNext]_PersonVars /\ [PublishNext]_PublishVars
         /\ [ManifestNext]_ManifestVars /\ [ConnectNext]_ConnectVars
BY DEF ServicesNext, ServicesVars

(* In the composition every part behaves as its module says, for every     *)
(* value of the constants: what is proved of a module above and in the     *)
(* modules extended here holds of the behaviours the run explores.         *)
THEOREM PartsBehave ==
  ServicesSpec => /\ WriteSpec /\ FlowSpec /\ FundingSpec /\ StorageSpec
                  /\ AllowanceSpec /\ PersonhoodSpec /\ PublishSpec
                  /\ ManifestSpec /\ ConnectSpec
<1>1. ServicesInit => /\ WriteInit /\ FlowInit /\ FundingInit /\ StorageInit
                      /\ AllowanceInit /\ PersonInit /\ PublishInit /\ ManifestInit
                      /\ ConnectInit
  BY PartsBegin
<1>2. [ServicesNext]_ServicesVars =>
         /\ [WriteNext]_WriteVars /\ [FlowNext]_FlowVars /\ [FundingNext]_FundingVars
         /\ [StorageNext]_StorageVars /\ [AllowanceNext]_AllowanceVars
         /\ [PersonhoodNext]_PersonVars /\ [PublishNext]_PublishVars
         /\ [ManifestNext]_ManifestVars /\ [ConnectNext]_ConnectVars
  BY PartsStep
<1> QED
  BY <1>1, <1>2, PTL
     DEF ServicesSpec, WriteSpec, FlowSpec, FundingSpec, StorageSpec, AllowanceSpec,
         PersonhoodSpec, PublishSpec, ManifestSpec, ConnectSpec

(* Every variable of every part keeps its type, whichever part runs.       *)
THEOREM ServiceTypesHold == ServicesSpec => []ServiceTypes
<1>1. PublishTyped => PublishTypeOK
  BY DEF PublishTyped, PubTyped, PublishTypeOK, Runs, Subnames
<1>2. /\ WriteTypeOK /\ FlowTypeOK /\ FundingTypeOK /\ StorageTypeOK
      /\ AllowanceTypeOK /\ PersonTypeOK /\ PublishTypeOK /\ ManifestTypeOK
      /\ ConnectTypeOK
      => ServiceTypes
  BY DEF ServiceTypes
<1> QED
  BY <1>1, <1>2, PartsBehave, SuccessIsOnChain, FlowTypeCorrect, GrantsAreFunded,
     SignerDoesNotDrift, SkippedReadWasPresent, ClaimsCoverTheFee,
     PublishTypeCorrect, ManifestTypeCorrect, ConclusionsWereTrue, PTL
==================================================================================
