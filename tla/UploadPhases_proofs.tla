-------------------------- MODULE UploadPhases_proofs --------------------------
(***************************************************************************)
(* For every set of chunks, number of deploys, rounds and reorgs, and      *)
(* every regime of faults: a deploy that succeeds has seen, or failed to   *)
(* read, every item it publishes; what it reports as finalised is final    *)
(* unless the finalised head could not be read; and the manifests only     *)
(* ever vouch for chunks that were stored.  Where every probe is answered  *)
(* and no block is lost, all it publishes is on the chain.  No deploy goes *)
(* round for ever in its gate.                                             *)
(***************************************************************************)
EXTENDS UploadPhases, FiniteSetTheorems, WellFoundedInduction, TLAPS

USE ConstantsAssumption

(* What probes return: an answer for each item asked about, and a "yes" at *)
(* the finalised head only for a final item.                               *)
LEMMA BestProbeFacts ==
  ASSUME NEW S, NEW r \in BestProbe(S)
  PROVE  /\ \A a : Answered(r, a) \subseteq S
         /\ S \subseteq Answered(r, "yes") \cup Answered(r, "no")
                          \cup Answered(r, "null")
BY DEF BestProbe, Answered

\* What the final probe of a set answers, and when a yes is the truth.
LEMMA FinalProbeFacts ==
  ASSUME NEW S, NEW r \in FinalProbe(S)
  PROVE  /\ \A a : Answered(r, a) \subseteq S
         /\ S \subseteq Answered(r, "yes") \cup Answered(r, "no")
                          \cup Answered(r, "null")
         /\ "fallback" \notin faults =>
              \A i \in Answered(r, "yes") : chain[i] = "final"
<1>1. CASE r \in BestProbe(S) /\ "fallback" \in faults
  BY <1>1, BestProbeFacts
<1>2. CASE /\ r \in [S -> {"yes", "no", "null"}]
           /\ \A i \in S : r[i] \in Answers(i, chain[i] = "final")
  <2>1. ASSUME NEW i \in S, r[i] = "yes" PROVE chain[i] = "final"
    BY <1>2, <2>1 DEF Answers
  <2> QED
    BY <1>2, <2>1 DEF Answered
<1> QED
  BY <1>1, <1>2 DEF FinalProbe

(* Storing and re-storing items leaves the chain well typed, and what is   *)
(* final final.                                                            *)
LEMMA StoreFacts ==
  ASSUME TypeOK, NEW S \in SUBSET Items, Store(S)
  PROVE  /\ chain' \in [Items -> Places] /\ ever' \subseteq Stable
         /\ ever \subseteq ever' /\ S \cap Stable \subseteq ever'
         /\ \A i \in Items : chain[i] = "final" => chain'[i] = "final"
BY DEF Store, TypeOK, Places, OnBest

--------------------------------------------------------------------------------
(* The steps of a deploy keep the types. *)
LEMMA WorkType ==
  ASSUME TypeOK, Work
  PROVE  TypeOK'
<1> USE DEF TypeOK, siteVars, gateVars, chainVars, PCs, Ended
<1>0. Content \subseteq Items /\ (site' = site => Content' = Content)
  BY DEF Content, Items
<1>1. CASE PhaseA
  <2>1. site \ trusted \in SUBSET Items
    BY <1>0 DEF Content
  <2>2. CASE StoreThrows(site \ trusted)
    BY <1>0, <1>1, <2>1, <2>2, StoreFacts DEF PhaseA, StoreThrows
  <2>3. CASE Stores(site \ trusted)
    BY <1>0, <1>1, <2>1, <2>3, StoreFacts DEF PhaseA, Stores, StoreThrows
  <2> QED
    BY <1>0, <1>1, <2>2, <2>3 DEF PhaseA
<1>2. CASE ProbeB
  <2>1. PICK r \in BestProbe(Volatile) :
           /\ known' = site \cup Answered(r, "yes")
           /\ seen' = seen \cup Answered(r, "yes")
    BY <1>2 DEF ProbeB
  <2>2. Answered(r, "yes") \subseteq Volatile
    BY BestProbeFacts
  <2> QED
    BY <1>0, <1>2, <2>1, <2>2 DEF ProbeB, Items
<1>3. CASE PhaseB
  <2>1. Content \ known \in SUBSET Items
    BY <1>0
  <2>2. CASE StoreThrows(Content \ known)
    BY <1>0, <1>3, <2>1, <2>2, StoreFacts DEF PhaseB, StoreThrows
  <2>3. CASE Stores(Content \ known)
    BY <1>0, <1>3, <2>1, <2>3, StoreFacts DEF PhaseB, Stores, StoreThrows
  <2> QED
    BY <1>0, <1>3, <2>2, <2>3 DEF PhaseB
<1>4. CASE Gate
  <2>1. PICK r \in FinalProbe(Content) :
          /\ missing' = Answered(r, "no")
          /\ unread' = Answered(r, "null")
          /\ seen' = seen \cup Answered(r, "yes")
    BY <1>4 DEF Gate
  <2>2. \A a : Answered(r, a) \subseteq Content
    BY FinalProbeFacts
  <2> QED
    BY <1>0, <1>4, <2>1, <2>2 DEF Gate
<1>5. CASE PollMissing
  <2>1. PICK r \in FinalProbe(missing) :
          /\ missing' = missing \ Answered(r, "yes")
          /\ seen' = seen \cup Answered(r, "yes")
    BY <1>5 DEF PollMissing
  <2>2. Answered(r, "yes") \subseteq missing
    BY FinalProbeFacts
  <2> QED
    BY <1>0, <1>5, <2>1, <2>2 DEF PollMissing
<1>6. CASE PollLagging
  BY <1>0, <1>6 DEF PollLagging
<1>7. CASE Gap
  <2>1. PICK r \in BestProbe(missing) :
          /\ missing' = missing \ Answered(r, "yes")
          /\ lagging' = Answered(r, "yes")
          /\ seen' = seen \cup Answered(r, "yes")
          /\ NextRound(missing', lagging', 1)
    BY <1>7 DEF Gap
  <2>2. Answered(r, "yes") \subseteq missing
    BY BestProbeFacts
  <2> QED
    BY <1>0, <1>7, <2>1, <2>2 DEF Gap, NextRound
<1>8. CASE Reupload
  <2>1. PICK i \in todo :
          Store({i}) /\ seen' = seen \cup {i} /\ todo' = todo \ {i}
    BY <1>8 DEF Reupload
  <2>2. {i} \in SUBSET Items
    BY <1>0
  <2> QED
    BY <1>0, <1>8, <2>1, <2>2, StoreFacts DEF Reupload
<1>9. CASE ReuploadFails
  BY <1>0, <1>9 DEF ReuploadFails, Places
<1>10. CASE PollEnds \/ ReuploadReconnects
  BY <1>0, <1>10 DEF PollEnds, ReuploadReconnects, NextRound
<1>11. CASE RootCheck
  <2>1. pc' \in Ended
    BY <1>11 DEF RootCheck
  <2> QED
    BY <1>0, <1>11, <2>1 DEF RootCheck
<1> QED
  BY <1>0, <1>1, <1>2, <1>3, <1>4, <1>5, <1>6, <1>7, <1>8, <1>9, <1>10, <1>11
     DEF Work, WaitEnds, ReuploadReconnectFails, LagWaitEnds

(* The type invariant of a sequence of deploys. *)
THEOREM TypeCorrect == Spec => []TypeOK
<1>1. Init => TypeOK
  BY DEF Init, TypeOK, PCs, Places, Items
<1>2. ASSUME TypeOK, [Next]_vars PROVE TypeOK'
  <2>1. CASE UNCHANGED vars
    BY <1>2, <2>1 DEF vars, chainVars, siteVars, gateVars, TypeOK, Content
  <2>2. CASE Start
    <3>1. chain' \in [Items -> Places]
      BY <1>2, <2>2 DEF Start, Aged, TypeOK, Places
    <3>2. trusted' \subseteq Stable
      BY <1>2, <2>2 DEF Start, TypeOK
    <3> QED
      BY <1>2, <2>2, <3>1, <3>2 DEF Start, TypeOK, PCs
  <2>3. CASE Work
    BY <1>2, <2>3, WorkType
  <2>4. CASE Environment
    BY <1>2, <2>4
       DEF Environment, Include, Finalise, Reorg, WsHalt, WhileRunning,
           siteVars, gateVars, TypeOK, Places, Content
  <2> QED
    BY <1>2, <2>1, <2>2, <2>3, <2>4 DEF Next
<1> QED
  BY <1>1, <1>2, PTL DEF Spec
--------------------------------------------------------------------------------
(***************************************************************************)
(* The inductive invariant.  From the gate on, every item of the content   *)
(* is accounted for: seen, unread, or still missing, and those that are    *)
(* neither unread nor missing nor lagging are final; once the gate is      *)
(* passed, nothing is missing.  Before it, trust is backed by the chain:   *)
(* the manifest's chunks were stored, and after phase A so were the site's.*)
(***************************************************************************)
Passed == {"lagwait", "rootcheck", "ok"}
Gated == {"wait", "gap", "reupload", "poll"} \cup Passed

Accounted ==
  pc \in Gated =>
    /\ Content \subseteq seen \cup unread \cup missing
    /\ "fallback" \notin faults =>
         \A i \in Content \ (unread \cup lagging \cup missing) :
           chain[i] = "final"

NothingMissing == pc \in Passed => missing = {}

NoneLagsYet ==
  pc \in {"phaseA", "probeB", "phaseB", "gate", "wait", "gap"} => lagging = {}

Backed ==
  /\ manifest \subseteq ever /\ trusted \subseteq ever
  /\ pc \notin {"idle", "phaseA", "failed"} => site \subseteq ever

PhasesInv == Accounted /\ NothingMissing /\ NoneLagsYet /\ Backed

(* The uploads hand the gate nothing but what was stored. *)
LEMMA UploadInv ==
  ASSUME TypeOK, PhasesInv, PhaseA \/ ProbeB \/ PhaseB
  PROVE  PhasesInv'
<1> USE DEF PhasesInv, Accounted, NothingMissing, NoneLagsYet, Backed,
            Gated, Passed, siteVars, gateVars
<1>0. Content \subseteq Items
  BY DEF Content, Items, TypeOK
<1>1. CASE PhaseA
  <2>1. site \ trusted \in SUBSET Items
    BY <1>0 DEF Content
  <2>2. CASE StoreThrows(site \ trusted)
    BY <1>1, <2>1, <2>2, StoreFacts DEF PhaseA, StoreThrows
  <2>3. CASE Stores(site \ trusted) /\ pc' = "probeB"
    <3>1. site \subseteq ever'
      BY <2>1, <2>3, StoreFacts DEF Stores, TypeOK
    <3>2. ever \subseteq ever'
      BY <2>1, <2>3, StoreFacts DEF Stores
    <3> QED
      BY <1>1, <2>3, <3>1, <3>2 DEF PhaseA
  <2>4. CASE site \subseteq trusted /\ UNCHANGED ever /\ pc' = "probeB"
    BY <1>1, <2>4 DEF PhaseA
  <2> QED
    BY <1>1, <2>2, <2>3, <2>4 DEF PhaseA
<1>2. CASE ProbeB
  BY <1>2 DEF ProbeB, chainVars
<1>3. CASE PhaseB
  <2>1. Content \ known \in SUBSET Items
    BY <1>0
  <2>2. CASE StoreThrows(Content \ known)
    BY <1>3, <2>1, <2>2, StoreFacts DEF PhaseB, StoreThrows
  <2>3. CASE Stores(Content \ known) /\ pc' = "gate"
    BY <1>3, <2>1, <2>3, StoreFacts DEF PhaseB, Stores
  <2> QED
    BY <1>3, <2>2, <2>3 DEF PhaseB
<1> QED
  BY <1>1, <1>2, <1>3

(* The gate keeps account of every item it measures. *)
LEMMA GateInv ==
  ASSUME TypeOK, PhasesInv, Work, ~(PhaseA \/ ProbeB \/ PhaseB)
  PROVE  PhasesInv'
<1> USE DEF PhasesInv, Accounted, NothingMissing, NoneLagsYet, Backed,
            Gated, Passed,
            siteVars, gateVars, chainVars, Content
<1>1. CASE Gate
  <2>1. PICK r \in FinalProbe(Content) :
          /\ missing' = Answered(r, "no")
          /\ unread' = Answered(r, "null")
          /\ seen' = seen \cup Answered(r, "yes")
    BY <1>1 DEF Gate
  <2>2. Content \subseteq Answered(r, "yes") \cup missing' \cup unread'
    BY <2>1, FinalProbeFacts
  <2>3. "fallback" \notin faults =>
          \A i \in Answered(r, "yes") : chain[i] = "final"
    BY FinalProbeFacts
  <2> QED
    BY <1>1, <2>1, <2>2, <2>3 DEF Gate
<1>2. CASE PollMissing
  <2>1. PICK r \in FinalProbe(missing) :
          /\ missing' = missing \ Answered(r, "yes")
          /\ seen' = seen \cup Answered(r, "yes")
    BY <1>2 DEF PollMissing
  <2>2. "fallback" \notin faults =>
          \A i \in Answered(r, "yes") : chain[i] = "final"
    BY FinalProbeFacts
  <2> QED
    BY <1>2, <2>1, <2>2 DEF PollMissing
<1>3. CASE PollLagging
  <2>1. PICK r \in FinalProbe(lagging) : lagging' = lagging \ Answered(r, "yes")
    BY <1>3 DEF PollLagging
  <2>2. "fallback" \notin faults =>
          \A i \in Answered(r, "yes") : chain[i] = "final"
    BY FinalProbeFacts
  <2> QED
    BY <1>3, <2>1, <2>2 DEF PollLagging
<1>4. CASE Gap
  <2>1. PICK r \in BestProbe(missing) :
          /\ missing' = missing \ Answered(r, "yes")
          /\ lagging' = Answered(r, "yes")
          /\ seen' = seen \cup Answered(r, "yes")
          /\ NextRound(missing', lagging', 1)
    BY <1>4 DEF Gap
  <2>2. /\ pc = "gap" /\ pc' \in {"reupload", "failed", "lagwait", "rootcheck"}
        /\ pc' \in {"lagwait", "rootcheck"} => missing' = {}
        /\ missing \cup seen \subseteq missing' \cup seen'
        /\ missing \subseteq missing' \cup lagging'
        /\ UNCHANGED <<chain, ever, faults, manifest, site, trusted, known,
                       unread>>
    BY <1>4, <2>1 DEF Gap, NextRound
  <2> QED
    BY <2>2
<1>5. CASE Reupload
  <2>1. PICK i \in todo :
          Store({i}) /\ seen' = seen \cup {i} /\ todo' = todo \ {i}
    BY <1>5 DEF Reupload
  <2>2. {i} \in SUBSET Items
    BY DEF TypeOK, Items
  <2>3. /\ ever \subseteq ever'
        /\ \A j \in Items : chain[j] = "final" => chain'[j] = "final"
    BY <2>1, <2>2, StoreFacts
  <2>4. Content \subseteq Items
    BY DEF Items, TypeOK
  <2> QED
    BY <1>5, <2>1, <2>3, <2>4 DEF Reupload
<1>6. CASE ReuploadFails \/ ReuploadReconnectFails
  BY <1>6 DEF ReuploadFails, ReuploadReconnectFails
<1>7. CASE ReuploadReconnects \/ PollEnds
  BY <1>7 DEF ReuploadReconnects, PollEnds, NextRound
<1>8. CASE WaitEnds \/ LagWaitEnds
  BY <1>8 DEF WaitEnds, LagWaitEnds
<1>9. CASE RootCheck
  <2>1. pc' \in {"ok", "failed"} /\ (manifest' = manifest \/ manifest' = site)
    BY <1>9 DEF RootCheck
  <2> QED
    BY <1>9, <2>1 DEF RootCheck
<1> QED
  BY <1>1, <1>2, <1>3, <1>4, <1>5, <1>6, <1>7, <1>8, <1>9 DEF Work

(* Blocks, forks and halts do not undo what is final. *)
LEMMA EnvironmentInv ==
  ASSUME TypeOK, PhasesInv, Environment
  PROVE  PhasesInv'
<1>1. /\ UNCHANGED <<faults, siteVars, pc, known, gateVars, seen>>
      /\ ever \subseteq ever'
  BY DEF Environment, Include, Finalise, Reorg, WsHalt, WhileRunning
<1>2. \A i \in Items : chain[i] = "final" => chain'[i] = "final"
  BY DEF Environment, Include, Finalise, Reorg, WsHalt, TypeOK
<1>3. Content' = Content /\ Content \subseteq Items
  BY <1>1 DEF Content, siteVars, TypeOK, Items
<1> QED
  BY <1>1, <1>2, <1>3
     DEF PhasesInv, Accounted, NothingMissing, NoneLagsYet, Backed,
         siteVars, gateVars

(* The invariant of the phases holds throughout. *)
THEOREM PhasesInvariant == Spec => []PhasesInv
<1> USE DEF PhasesInv, Accounted, NothingMissing, NoneLagsYet, Backed,
            Gated, Passed
<1>1. Init => PhasesInv
  BY DEF Init
<1>2. ASSUME TypeOK, PhasesInv, [Next]_vars PROVE PhasesInv'
  <2>1. CASE UNCHANGED vars
    BY <1>2, <2>1 DEF vars, chainVars, siteVars, gateVars, Content
  <2>2. CASE Start
    BY <1>2, <2>2 DEF Start
  <2> QED
    BY <1>2, <2>1, <2>2, UploadInv, GateInv, EnvironmentInv DEF Next, Work
<1> QED
  BY <1>1, <1>2, TypeCorrect, PTL DEF Spec

(* A deploy that succeeds has seen every item it publishes on the chain,   *)
(* except for those whose finalised probe gave no answer.                  *)
THEOREM SeenUnlessUnreadHolds == Spec => []SeenUnlessUnread
<1>1. PhasesInv => SeenUnlessUnread
  BY DEF PhasesInv, Accounted, NothingMissing, Gated, Passed, SeenUnlessUnread
<1> QED
  BY <1>1, PhasesInvariant, PTL

(* What a deploy reports as finalised is final, unless the finalised head  *)
(* could not be read and the best chain was read in its place.             *)
THEOREM SealedUnlessFallbackHolds == Spec => []SealedUnlessFallback
<1>1. PhasesInv => SealedUnlessFallback
  BY DEF PhasesInv, Accounted, NothingMissing, Gated, Passed,
         SealedUnlessFallback, FinalisedMeansSealed
<1> QED
  BY <1>1, PhasesInvariant, PTL

(* Every chunk a manifest vouches for was stored by some deploy. *)
THEOREM ManifestWasStoredHolds == Spec => []ManifestWasStored
<1>1. PhasesInv => ManifestWasStored
  BY DEF PhasesInv, Backed, ManifestWasStored
<1> QED
  BY <1>1, PhasesInvariant, PTL
--------------------------------------------------------------------------------
(***************************************************************************)
(* What "a trusted but evicted chunk gets caught and re-uploaded there"    *)
(* (deploy.ts:2720) takes: that every probe is answered, so no null and no *)
(* halted client, and that the best chain loses no block.                  *)
(***************************************************************************)
ReadsAnswered == faults \cap {"null", "halt", "reorg"} = {}

SeenStays ==
  ReadsAnswered =>
    client = "live" /\ unread = {} /\ \A i \in seen : OnBest(i)

PublishedOnChain == pc = "ok" => \A i \in Content : OnBest(i)

\* An answered probe leaves nothing unread, and finds only what is there.
LEMMA AnsweredProbe ==
  ASSUME ReadsAnswered, client = "live", NEW S,
         NEW r \in BestProbe(S) \cup FinalProbe(S)
  PROVE  /\ Answered(r, "null") = {}
         /\ \A i \in Answered(r, "yes") : i \in S /\ OnBest(i)
<1> USE DEF Answered, Answers, ReadsAnswered
<1>1. ASSUME NEW i \in S, NEW b \in BestProbe(S)
      PROVE  b[i] # "null" /\ (b[i] = "yes" => OnBest(i))
  BY <1>1 DEF BestProbe, BestAnswers, OnBest
<1>2. CASE r \in BestProbe(S)
  BY <1>1, <1>2 DEF BestProbe
<1>3. CASE /\ r \in [S -> {"yes", "no", "null"}]
           /\ \A i \in S : r[i] \in Answers(i, chain[i] = "final")
  BY <1>3 DEF OnBest
<1> QED
  BY <1>2, <1>3 DEF FinalProbe

\* A step of a deploy keeps what it has seen on the chain.
LEMMA SeenStaysStep ==
  ASSUME TypeOK, SeenStays, [Next]_vars
  PROVE  SeenStays'
<1> SUFFICES ASSUME ReadsAnswered'
             PROVE  /\ client' = "live" /\ unread' = {}
                    /\ \A i \in seen' : OnBest(i)'
  BY DEF SeenStays
<1>0. faults' = faults
  BY DEF Next, vars, chainVars, Start, Work, Environment, PhaseA, ProbeB,
         PhaseB, Gate, PollMissing, PollLagging, WaitEnds, Gap, Reupload,
         ReuploadFails, ReuploadReconnects, ReuploadReconnectFails, PollEnds,
         LagWaitEnds, RootCheck, Include, Finalise, Reorg, WsHalt, WhileRunning
<1>1. ReadsAnswered
  BY <1>0 DEF ReadsAnswered
<1>2. client = "live" /\ unread = {} /\ seen \subseteq Items
      /\ \A i \in seen : OnBest(i)
  BY <1>1 DEF SeenStays, TypeOK
<1> USE DEF siteVars, gateVars, chainVars
<1>3. ASSUME NEW S \in SUBSET Items, Store(S)
      PROVE  \A i \in seen \cup S : OnBest(i)'
  BY <1>2, <1>3 DEF Store, OnBest
<1>4. CASE PhaseA \/ PhaseB
  <2>1. site \ trusted \in SUBSET Items /\ Content \ known \in SUBSET Items
    BY DEF TypeOK, Content, Items
  <2>2. ASSUME NEW S \in SUBSET Items, Stores(S), UNCHANGED unread
        PROVE  /\ client' = "live" /\ unread' = {}
               /\ \A i \in seen' : OnBest(i)'
    BY <1>1, <1>2, <1>3, <2>2 DEF Stores, ReadsAnswered
  <2>3. ASSUME NEW S \in SUBSET Items, StoreThrows(S), UNCHANGED unread
        PROVE  /\ client' = "live" /\ unread' = {}
               /\ \A i \in seen' : OnBest(i)'
    BY <1>2, <1>3, <2>3 DEF StoreThrows
  <2>4. CASE UNCHANGED <<chain, client, unread, seen>>
    BY <1>2, <2>4 DEF OnBest
  <2> QED
    BY <1>4, <2>1, <2>2, <2>3, <2>4 DEF PhaseA, PhaseB
<1>5. CASE ProbeB \/ Gap \/ Gate \/ PollMissing
  <2>1. ASSUME NEW S, NEW r \in BestProbe(S) \cup FinalProbe(S),
               unread' = unread \/ unread' = Answered(r, "null"),
               seen' = seen \cup Answered(r, "yes"),
               chain' = chain, client' = client
        PROVE  /\ client' = "live" /\ unread' = {}
               /\ \A i \in seen' : OnBest(i)'
    BY <1>1, <1>2, <2>1, AnsweredProbe DEF OnBest
  <2> QED
    BY <1>5, <2>1 DEF ProbeB, Gap, Gate, PollMissing
<1>6. CASE Reupload
  <2>1. PICK i \in todo : Store({i}) /\ seen' = seen \cup {i}
    BY <1>6 DEF Reupload
  <2>2. {i} \in SUBSET Items
    BY DEF TypeOK, Content, Items
  <2> QED
    BY <1>2, <1>3, <1>6, <2>1, <2>2 DEF Reupload
<1>7. CASE ReuploadFails
  BY <1>2, <1>7 DEF ReuploadFails, OnBest, TypeOK
<1>8. CASE \/ PollLagging \/ WaitEnds \/ ReuploadReconnects
           \/ ReuploadReconnectFails \/ PollEnds \/ LagWaitEnds \/ RootCheck
  BY <1>2, <1>8
     DEF PollLagging, WaitEnds, ReuploadReconnects, ReuploadReconnectFails,
         PollEnds, LagWaitEnds, RootCheck, OnBest
<1>9. CASE Start
  BY <1>9 DEF Start
<1>10. CASE Environment
  <2>1. client' = client /\ UNCHANGED <<unread, seen>>
    BY <1>1, <1>10
       DEF Environment, Include, Finalise, Reorg, WsHalt, WhileRunning,
           ReadsAnswered
  <2>2. \A i \in Items : OnBest(i) => OnBest(i)'
    BY <1>1, <1>10
       DEF Environment, Include, Finalise, Reorg, WsHalt, ReadsAnswered,
           OnBest, TypeOK
  <2> QED
    BY <1>2, <2>1, <2>2
<1>11. CASE UNCHANGED vars
  BY <1>2, <1>11 DEF vars, OnBest
<1> QED
  BY <1>4, <1>5, <1>6, <1>7, <1>8, <1>9, <1>10, <1>11 DEF Next, Work

(* Where every probe is answered and no block is lost, a deploy that       *)
(* succeeds leaves everything it publishes on the chain, whatever else     *)
(* fails: lagging nodes, an unreadable finalised head, lost re-uploads.    *)
THEOREM PublishesOnlyWhatIsThere == Spec => [](ReadsAnswered => PublishedOnChain)
<1>1. Init => SeenStays
  BY DEF Init, SeenStays
<1>2. TypeOK /\ SeenStays /\ [Next]_vars => SeenStays'
  BY SeenStaysStep
<1>3. SeenStays /\ SeenUnlessUnread => (ReadsAnswered => PublishedOnChain)
  BY DEF SeenStays, SeenUnlessUnread, PublishedOnChain
<1> QED
  BY <1>1, <1>2, <1>3, TypeCorrect, SeenUnlessUnreadHolds, PTL DEF Spec

(* In particular the gate catches every trusted chunk that was evicted:    *)
(* UploadPhases_evicted.cfg shows that the condition cannot be dropped.    *)
THEOREM EvictedIsCaughtIfAnswered ==
  Spec => [](ReadsAnswered => EvictedIsCaught)
<1>1. PublishedOnChain => EvictedIsCaught
  BY DEF PublishedOnChain, EvictedIsCaught, OnBest, Content
<1> QED
  BY <1>1, PublishesOnlyWhatIsThere, PTL

--------------------------------------------------------------------------------
(***************************************************************************)
(* What is left to do, largest unit first: deploys, the phases of one, the *)
(* rounds of its gate, the items to re-upload, those not finalised yet,    *)
(* and those that lag.                                                     *)
(***************************************************************************)
Phase ==
  CASE pc = "phaseA" -> 9
    [] pc = "probeB" -> 8
    [] pc = "phaseB" -> 7
    [] pc = "gate" -> 6
    [] pc = "wait" -> 5
    [] pc = "gap" -> 4
    [] pc \in {"reupload", "poll"} -> 3
    [] pc = "lagwait" -> 2
    [] pc = "rootcheck" -> 1
    [] OTHER -> 0

WorkLeft ==
  <<MaxDeploys - deploys, Phase, MaxRounds + 1 - round, Cardinality(todo),
    Cardinality(missing), Cardinality(lagging)>>

Smaller == LexProductOrdering(OpToRel(<, Nat), Nat, 6)

\* The order has no infinite descent.
LEMMA SmallerWellFounded == IsWellFoundedOn(Smaller, [1 .. 6 -> Nat])
  BY NatLessThanWellFounded, WFLexProductOrdering DEF Smaller

\* Two measures are ordered by the first place they differ in.
LEMMA FirstDifference ==
  ASSUME NEW m \in [1 .. 6 -> Nat], NEW k \in [1 .. 6 -> Nat],
         NEW i \in 1 .. 6, m[i] < k[i],
         \A j \in 1 .. (i - 1) : m[j] = k[j]
  PROVE  <<m, k>> \in Smaller
<1>1. <<m[i], k[i]>> \in OpToRel(<, Nat)
  BY DEF OpToRel
<1> QED
  BY <1>1 DEF Smaller, LexProductOrdering

\* Content is finite, and so is what is left of it.
LEMMA ContentFinite ==
  ASSUME TypeOK, NEW S \in SUBSET Content
  PROVE  IsFiniteSet(S) /\ Cardinality(S) \in Nat
<1>1. IsFiniteSet(site)
  BY FS_Subset DEF TypeOK
<1>2. IsFiniteSet({Root})
  BY FS_Singleton
<1>3. IsFiniteSet(site \cup Volatile)
  BY <1>1, FS_Union
<1>4. IsFiniteSet(Content)
  BY <1>2, <1>3, FS_Union DEF Content
<1> QED
  BY <1>4, FS_Subset, FS_CardinalityType

\* A part taken away makes it smaller.
LEMMA PartTaken ==
  ASSUME TypeOK, NEW S \in SUBSET Content, NEW T \in SUBSET S, T # {}
  PROVE  Cardinality(S \ T) < Cardinality(S)
<1>1. IsFiniteSet(S) /\ Cardinality(S) \in Nat
  BY ContentFinite
<1>2. /\ Cardinality(S \ T) <= Cardinality(S)
      /\ Cardinality(S) = Cardinality(S \ T) => S = S \ T
      /\ IsFiniteSet(S \ T)
  BY <1>1, FS_Subset
<1>3. Cardinality(S \ T) \in Nat
  BY <1>2, FS_CardinalityType
<1> QED
  BY <1>1, <1>2, <1>3

\* The measure is made of natural numbers.
LEMMA WorkLeftType ==
  ASSUME TypeOK
  PROVE  WorkLeft \in [1 .. 6 -> Nat]
<1>1. /\ MaxDeploys - deploys \in Nat /\ MaxRounds + 1 - round \in Nat
      /\ Phase \in Nat
  BY DEF TypeOK, Phase
<1>2. /\ Cardinality(todo) \in Nat /\ Cardinality(missing) \in Nat
      /\ Cardinality(lagging) \in Nat
  BY ContentFinite DEF TypeOK
<1> QED
  BY <1>1, <1>2 DEF WorkLeft

(* A step of a deploy ends a phase or a round, or settles an item.         *)
LEMMA WorkAdvances ==
  ASSUME TypeOK, TypeOK', Start \/ Work,
         WorkLeft \in [1 .. 6 -> Nat], WorkLeft' \in [1 .. 6 -> Nat]
  PROVE  <<WorkLeft', WorkLeft>> \in Smaller
<1> DEFINE
      Deployed == deploys' = deploys + 1
      PhaseEnds == deploys' = deploys /\ Phase' < Phase
      RoundEnds ==
        deploys' = deploys /\ Phase' = Phase /\ round' = round + 1
      Reuploaded ==
        /\ deploys' = deploys /\ Phase' = Phase /\ round' = round
        /\ Cardinality(todo') < Cardinality(todo)
      Finalised ==
        /\ deploys' = deploys /\ Phase' = Phase /\ round' = round
        /\ todo' = todo /\ Cardinality(missing') < Cardinality(missing)
      CaughtUp ==
        /\ deploys' = deploys /\ Phase' = Phase /\ round' = round
        /\ todo' = todo /\ missing' = missing
        /\ Cardinality(lagging') < Cardinality(lagging)
<1> USE DEF siteVars, gateVars, Phase
<1>1. ASSUME Start
      PROVE  Deployed
  BY <1>1 DEF Start
<1>2. ASSUME PhaseA \/ ProbeB \/ PhaseB \/ Gate \/ WaitEnds \/ ReuploadFails
             \/ ReuploadReconnectFails \/ LagWaitEnds \/ RootCheck
      PROVE  PhaseEnds
  BY <1>2 DEF PhaseA, ProbeB, PhaseB, StoreThrows, Gate, WaitEnds,
              ReuploadFails, ReuploadReconnectFails, LagWaitEnds, RootCheck
<1>3. ASSUME Gap
      PROVE  PhaseEnds
  BY <1>3 DEF Gap, NextRound
<1>4. ASSUME ReuploadReconnects \/ PollEnds
      PROVE  PhaseEnds \/ RoundEnds
  BY <1>4 DEF ReuploadReconnects, PollEnds, NextRound
<1>5. ASSUME Reupload
      PROVE  Reuploaded
  <2>1. PICK i \in todo : todo' = todo \ {i}
    BY <1>5 DEF Reupload
  <2>2. Cardinality(todo') < Cardinality(todo)
    BY <2>1, PartTaken DEF TypeOK
  <2> QED
    BY <1>5, <2>2 DEF Reupload
<1>6. ASSUME PollMissing
      PROVE  Finalised
  <2>1. PICK r \in FinalProbe(missing) :
          Answered(r, "yes") # {} /\ missing' = missing \ Answered(r, "yes")
    BY <1>6 DEF PollMissing
  <2>2. Answered(r, "yes") \subseteq missing
    BY FinalProbeFacts
  <2>3. Cardinality(missing') < Cardinality(missing)
    BY <2>1, <2>2, PartTaken DEF TypeOK
  <2> QED
    BY <1>6, <2>3 DEF PollMissing
<1>7. ASSUME PollLagging
      PROVE  CaughtUp
  <2>1. PICK r \in FinalProbe(lagging) :
          Answered(r, "yes") # {} /\ lagging' = lagging \ Answered(r, "yes")
    BY <1>7 DEF PollLagging
  <2>2. Answered(r, "yes") \subseteq lagging
    BY FinalProbeFacts
  <2>3. Cardinality(lagging') < Cardinality(lagging)
    BY <2>1, <2>2, PartTaken DEF TypeOK
  <2> QED
    BY <1>7, <2>3 DEF PollLagging
<1>8. \/ Deployed \/ PhaseEnds \/ RoundEnds \/ Reuploaded \/ Finalised
      \/ CaughtUp
  BY <1>1, <1>2, <1>3, <1>4, <1>5, <1>6, <1>7 DEF Work
<1>9. /\ deploys \in Int /\ deploys' \in Int /\ round \in Int /\ round' \in Int
      /\ MaxDeploys \in Int /\ MaxRounds \in Int
  BY DEF TypeOK
<1> HIDE DEF Phase
<1>10. /\ WorkLeft[1] = MaxDeploys - deploys /\ WorkLeft[2] = Phase
       /\ WorkLeft[3] = MaxRounds + 1 - round
       /\ WorkLeft[4] = Cardinality(todo)
       /\ WorkLeft[5] = Cardinality(missing)
       /\ WorkLeft[6] = Cardinality(lagging)
  BY DEF WorkLeft
<1>11. /\ WorkLeft'[1] = MaxDeploys - deploys' /\ WorkLeft'[2] = Phase'
       /\ WorkLeft'[3] = MaxRounds + 1 - round'
       /\ WorkLeft'[4] = Cardinality(todo')
       /\ WorkLeft'[5] = Cardinality(missing')
       /\ WorkLeft'[6] = Cardinality(lagging')
  BY DEF WorkLeft
<1>12. \E i \in 1 .. 6 :
         /\ WorkLeft'[i] < WorkLeft[i]
         /\ \A j \in 1 .. (i - 1) : WorkLeft'[j] = WorkLeft[j]
  <2>1. CASE Deployed
    BY <1>9, <1>10, <1>11, <2>1
  <2>2. CASE PhaseEnds
    BY <1>9, <1>10, <1>11, <2>2
  <2>3. CASE RoundEnds
    BY <1>9, <1>10, <1>11, <2>3
  <2>4. CASE Reuploaded
    BY <1>9, <1>10, <1>11, <2>4
  <2>5. CASE Finalised
    BY <1>9, <1>10, <1>11, <2>5
  <2>6. CASE CaughtUp
    BY <1>9, <1>10, <1>11, <2>6
  <2> QED
    BY <1>8, <2>1, <2>2, <2>3, <2>4, <2>5, <2>6
<1> QED
  BY <1>12, FirstDifference

DeployAdvances ==
  \/ <<WorkLeft', WorkLeft>> \in Smaller
  \/ Environment /\ WorkLeft' = WorkLeft

(* No deploy goes round for ever in its gate: each of its steps leaves     *)
(* less to do, and no block, fork or halt of the socket gives it more.     *)
THEOREM NoEndlessRounds == Spec => [][DeployAdvances]_vars
<1>1. TypeOK => WorkLeft \in [1 .. 6 -> Nat]
  BY WorkLeftType
<1>2. ASSUME Environment
      PROVE  WorkLeft' = WorkLeft
  BY <1>2 DEF Environment, Include, Finalise, Reorg, WsHalt, WhileRunning,
              siteVars, gateVars, WorkLeft, Phase
<1>3. /\ TypeOK /\ TypeOK'
      /\ WorkLeft \in [1 .. 6 -> Nat] /\ (WorkLeft \in [1 .. 6 -> Nat])'
      /\ [Next]_vars
      => [DeployAdvances]_vars
  BY <1>2, WorkAdvances DEF Next, DeployAdvances
<1> QED
  BY <1>1, <1>3, TypeCorrect, PTL DEF Spec
================================================================================
