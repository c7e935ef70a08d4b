----------------------------- MODULE UploadPhases -----------------------------
(***************************************************************************)
(* storeDirectoryV2 of deploy.ts, over a sequence of deploys of one site:  *)
(* phase A uploads the stable chunks the previous manifest does not vouch  *)
(* for, phase B the rest and the root, then the finality gate measures     *)
(* every chunk at the finalised head, waits, re-uploads what is missing    *)
(* and checks the root once more before the contenthash may point to it.   *)
(*                                                                         *)
(* A call to storeChunkedContent is one step here: it throws, or every     *)
(* chunk it was to store has been seen on chain, as OkMeansStored and      *)
(* OkMeansRooted of ChunkUpload say.  Content is evicted between deploys   *)
(* only (deploy.ts:105), and a finalised item stays final during one.      *)
(***************************************************************************)
EXTENDS Integers, FiniteSets

CONSTANTS
  Stable,      (* chunks of section 1 that some version of the site has    *)
  Volatile,    (* chunks of sections 0 and 2: the manifest, the root       *)
               (* directory, files that change with every build            *)
  Root,        (* the DAG-PB root                                          *)
  MaxRounds,   (* GRANDPA_REUPLOAD_MAX_ROUNDS                              *)
  MaxDeploys,  (* bound: deploys of the site                               *)
  MaxReorgs,   (* bound: blocks lost from the best chain                   *)
  Regimes      (* sets of fault kinds; a behaviour meets one of them       *)

(* null: a probe gives no answer; fallback: reading the finalised head     *)
(* fails other than by a timeout; lag: a probe is answered by a node that  *)
(* is behind; halt: the socket halts; reconnect: a reconnect throws;       *)
(* lost: a re-upload fails; upload: storeChunkedContent throws; nofetch:   *)
(* the previous manifest cannot be fetched; reorg: the best chain loses a  *)
(* block.                                                                  *)
FaultKinds ==
  {"null", "fallback", "lag", "halt", "reconnect", "lost", "upload", "nofetch",
   "reorg"}

ASSUME ConstantsAssumption ==
  /\ IsFiniteSet(Stable) /\ IsFiniteSet(Volatile)
  /\ Stable \cap Volatile = {}
  /\ Root \notin Stable \cup Volatile
  /\ MaxRounds \in Nat /\ MaxDeploys \in Nat /\ MaxReorgs \in Nat
  /\ Regimes \subseteq SUBSET FaultKinds

VARIABLES
  (* the chain *)
  chain,     \* where each item stands
  reorgs,    \* blocks lost so far
  faults,    \* the kinds of fault this behaviour may meet; never changes
  (* between deploys *)
  manifest,  \* the chunks of the manifest the domain's contenthash leads to
  deploys,
  (* one deploy *)
  pc,
  client,    \* the provider's client: live, or halted and then destroyed
  site,      \* the stable chunks of this version
  trusted,   \* trustedCidsA
  known,     \* trustedCidsB
  missing,   \* missingCids
  unread,    \* indeterminate
  lagging,   \* laggingCids
  todo,      \* reuploadList, what is left of it
  round,
  seen,      \* history: items this deploy has seen on chain
  ever       \* history: stable chunks that have been on chain

chainVars == <<chain, ever, reorgs, faults>>
siteVars == <<manifest, deploys, site, trusted>>
gateVars == <<missing, unread, lagging, todo, round>>
vars == <<chainVars, siteVars, pc, client, known, gateVars, seen>>

Items == Stable \cup Volatile \cup {Root}
Content == site \cup Volatile \cup {Root}

Places == {"absent", "pending", "best", "final"}
Ended == {"ok", "failed"}
PCs == Ended \cup {"idle", "phaseA", "probeB", "phaseB", "gate", "wait", "gap",
                   "reupload", "poll", "lagwait", "rootcheck"}

OnBest(i) == chain[i] \in {"best", "final"}
Store(S) ==
  /\ chain' = [i \in Items |-> IF i \in S /\ ~OnBest(i) THEN "best" ELSE chain[i]]
  /\ ever' = ever \cup (S \cap Stable)

Init ==
  /\ ever \in SUBSET Stable
  /\ chain = [i \in Items |-> IF i \in ever THEN "final" ELSE "absent"]
  /\ reorgs = 0 /\ faults \in Regimes
  /\ manifest = {} /\ deploys = 0
  /\ pc = "idle" /\ client = "live"
  /\ site = {} /\ trusted = {} /\ known = {}
  /\ missing = {} /\ unread = {} /\ lagging = {} /\ todo = {} /\ round = 0
  /\ seen = {}

--------------------------------------------------------------------------------
(***************************************************************************)
(* probeChunks.                                                            *)
(***************************************************************************)
Answers(i, present) ==
  IF client # "live" THEN {"null"}
  ELSE {IF present THEN "yes" ELSE "no"}
       \cup (IF "null" \in faults THEN {"null"} ELSE {})

BestAnswers(i) ==
  Answers(i, OnBest(i))
  \cup (IF "lag" \in faults /\ chain[i] = "best" THEN Answers(i, FALSE) ELSE {})

BestProbe(S) == {r \in [S -> {"yes", "no", "null"}] :
                   \A i \in S : r[i] \in BestAnswers(i)}

(* Without a finalised head the storage query goes to the best chain. *)
FinalProbe(S) ==
  {r \in [S -> {"yes", "no", "null"}] :
     \A i \in S : r[i] \in Answers(i, chain[i] = "final")}
  \cup (IF "fallback" \in faults THEN BestProbe(S) ELSE {})

Answered(r, a) == {i \in DOMAIN r : r[i] = a}

--------------------------------------------------------------------------------
(***************************************************************************)
(* The two uploads.                                                        *)
(***************************************************************************)
(* By the time of the next deploy what was pending or on the best chain is *)
(* settled, any of it may have reached the end of its retention, and the   *)
(* new build has new volatile chunks and a new root, unless it is          *)
(* reproducible.                                                           *)
Aged(fresh, evicted) ==
  [i \in Items |->
     IF ~OnBest(i) \/ i \in evicted \/ (fresh /\ i \notin Stable)
     THEN "absent" ELSE "final"]

(* Fault: every stable chunk is trusted, whatever the manifest lists. *)
StartTrustsAll ==
  /\ pc \in Ended \cup {"idle"} /\ deploys < MaxDeploys
  /\ deploys' = deploys + 1
  /\ IF pc = "idle" THEN UNCHANGED chain
     ELSE \E fresh \in BOOLEAN, evicted \in SUBSET Stable :
            chain' = Aged(fresh, evicted)
  /\ \E s \in SUBSET Stable : site' = s /\ trusted' = s
  /\ pc' = "phaseA" /\ client' = "live"
  /\ known' = {} /\ missing' = {} /\ unread' = {} /\ lagging' = {}
  /\ todo' = {} /\ round' = 0 /\ seen' = {}
  /\ UNCHANGED <<ever, reorgs, faults, manifest>>

(* deploy() reconnects and reads the contenthash; storeDirectoryV2 fetches *)
(* the manifest it leads to and trusts the chunks listed there.            *)
Start ==
  /\ pc \in Ended \cup {"idle"} /\ deploys < MaxDeploys
  /\ deploys' = deploys + 1
  /\ IF pc = "idle" THEN UNCHANGED chain
     ELSE \E fresh \in BOOLEAN, evicted \in SUBSET Stable :
            chain' = Aged(fresh, evicted)
  /\ site' \in SUBSET Stable
  /\ trusted' \in {manifest} \cup (IF "nofetch" \in faults THEN {{}} ELSE {})
  /\ pc' = "phaseA" /\ client' = "live"
  /\ known' = {} /\ missing' = {} /\ unread' = {} /\ lagging' = {}
  /\ todo' = {} /\ round' = 0 /\ seen' = {}
  /\ UNCHANGED <<ever, reorgs, faults, manifest>>

(* storeChunkedContent(S, {handOffLiveClient: true}) *)
Stores(S) ==
  /\ Store(S)
  /\ seen' = seen \cup S
  /\ client' \in {"live"} \cup (IF "halt" \in faults THEN {"halted"} ELSE {})

StoreThrows(S) ==
  /\ "upload" \in faults
  /\ \E T \in SUBSET S : Store(T)
  /\ pc' = "failed"
  /\ UNCHANGED <<client, seen>>

PhaseA ==
  /\ pc = "phaseA"
  /\ \/ site \subseteq trusted       \* nothing to upload: no call
        /\ pc' = "probeB"
        /\ UNCHANGED <<chain, ever, client, seen>>
     \/ /\ ~(site \subseteq trusted)
        /\ \/ Stores(site \ trusted) /\ pc' = "probeB"
           \/ StoreThrows(site \ trusted)
  /\ UNCHANGED <<reorgs, faults, siteVars, known, gateVars>>

(* trustedCidsB: all of section 1, and the chunks a probe finds. *)
ProbeB ==
  /\ pc = "probeB"
  /\ \E r \in BestProbe(Volatile) :
       /\ known' = site \cup Answered(r, "yes")
       /\ seen' = seen \cup Answered(r, "yes")
  /\ pc' = "phaseB"
  /\ UNCHANGED <<chainVars, siteVars, client, gateVars>>

PhaseB ==
  /\ pc = "phaseB"
  /\ \/ Stores(Content \ known) /\ pc' = "gate"
     \/ StoreThrows(Content \ known)
  /\ UNCHANGED <<reorgs, faults, siteVars, known, gateVars>>

--------------------------------------------------------------------------------
(***************************************************************************)
(* The finality gate.                                                      *)
(***************************************************************************)
Gate ==
  /\ pc = "gate"
  /\ \E r \in FinalProbe(Content) :
       /\ missing' = Answered(r, "no")
       /\ unread' = Answered(r, "null")
       /\ seen' = seen \cup Answered(r, "yes")
  /\ pc' = IF missing' = {} THEN "rootcheck" ELSE "wait"
  /\ UNCHANGED <<chainVars, siteVars, client, known, lagging, todo, round>>

(* One round of pollUntilFinalized over the missing chunks ... *)
PollMissing ==
  /\ pc \in {"wait", "poll"}
  /\ \E r \in FinalProbe(missing) :
       /\ Answered(r, "yes") # {}
       /\ missing' = missing \ Answered(r, "yes")
       /\ seen' = seen \cup Answered(r, "yes")
  /\ UNCHANGED <<chainVars, siteVars, pc, client, known, unread, lagging, todo,
                 round>>

(* ... and over those that lag. *)
PollLagging ==
  /\ pc = "lagwait"
  /\ \E r \in FinalProbe(lagging) :
       /\ Answered(r, "yes") # {}
       /\ lagging' = lagging \ Answered(r, "yes")
  /\ UNCHANGED <<chainVars, siteVars, pc, client, known, missing, unread, todo,
                 round, seen>>

(* The natural wait ends: all finalised, or time is up. *)
WaitEnds ==
  /\ pc = "wait"
  /\ pc' = IF missing = {} THEN "rootcheck" ELSE "gap"
  /\ UNCHANGED <<chainVars, siteVars, client, known, gateVars, seen>>

(* Fault: one round too many. *)
NextRoundOnceMore(m, l, n) ==
  /\ round' = n
  /\ IF m # {} /\ n <= MaxRounds + 1 THEN pc' = "reupload" /\ todo' = m
     ELSE /\ pc' = IF m # {} THEN "failed" ELSE IF l # {} THEN "lagwait"
                   ELSE "rootcheck"
          /\ todo' = {}

(* The loop head of the re-upload rounds, and what follows the loop.       *)
NextRound(m, l, n) ==
  /\ round' = n
  /\ IF m # {} /\ n <= MaxRounds THEN pc' = "reupload" /\ todo' = m
     ELSE /\ pc' = IF m # {} THEN "failed" ELSE IF l # {} THEN "lagwait"
                   ELSE "rootcheck"
          /\ todo' = {}

(* Fault (#1445): what could not be measured counts as lagging. *)
GapTrustsNull ==
  /\ pc = "gap"
  /\ \E r \in BestProbe(missing) :
       /\ missing' = Answered(r, "no")
       /\ lagging' = missing \ Answered(r, "no")
       /\ seen' = seen \cup Answered(r, "yes")
       /\ NextRound(missing', lagging', 1)
  /\ UNCHANGED <<chainVars, siteVars, client, known, unread>>

(* probeFinalityGap: what is on the best chain lags; what is not, or could *)
(* not be measured twice, is missing.                                      *)
Gap ==
  /\ pc = "gap"
  /\ \E r \in BestProbe(missing) :
       /\ missing' = missing \ Answered(r, "yes")
       /\ lagging' = Answered(r, "yes")
       /\ seen' = seen \cup Answered(r, "yes")
       /\ NextRound(missing', lagging', 1)
  /\ UNCHANGED <<chainVars, siteVars, client, known, unread>>

(* One re-upload: its watch saw it in a block, or a probe after it.        *)
Reupload ==
  /\ pc = "reupload" /\ client = "live"
  /\ \E i \in todo :
       /\ Store({i})
       /\ seen' = seen \cup {i}
       /\ todo' = todo \ {i}
  /\ pc' = IF todo' = {} THEN "poll" ELSE "reupload"
  /\ UNCHANGED <<reorgs, faults, siteVars, client, known, missing, unread,
                 lagging, round>>

(* It is rejected, or its watch runs out; the transaction may still land.  *)
ReuploadFails ==
  /\ pc = "reupload" /\ client = "live" /\ "lost" \in faults
  /\ \E i \in todo : chain' \in
       {chain, [chain EXCEPT ![i] = IF OnBest(i) THEN @ ELSE "pending"]}
  /\ pc' = "failed"
  /\ UNCHANGED <<ever, reorgs, faults, siteVars, client, known, gateVars, seen>>

(* Fault (#946): the reconnect does not count as a round. *)
ReuploadReconnectsFreely ==
  /\ pc = "reupload" /\ client = "halted"
  /\ client' = "live"
  /\ NextRound(missing, lagging, round)
  /\ UNCHANGED <<chainVars, siteVars, known, missing, unread, lagging, seen>>

(* A lost connection: reconnect, and go on with the next round. *)
ReuploadReconnects ==
  /\ pc = "reupload" /\ client = "halted"
  /\ client' = "live"
  /\ NextRound(missing, lagging, round + 1)
  /\ UNCHANGED <<chainVars, siteVars, known, missing, unread, lagging, seen>>

ReuploadReconnectFails ==
  /\ pc = "reupload" /\ client = "halted" /\ "reconnect" \in faults
  /\ pc' = "failed"
  /\ UNCHANGED <<chainVars, siteVars, client, known, gateVars, seen>>

(* Fault: the last round's timeout is not an error. *)
PollEndsAnyway ==
  /\ pc = "poll"
  /\ IF round < MaxRounds THEN NextRound(missing, lagging, round + 1)
     ELSE pc' = "rootcheck" /\ todo' = {} /\ round' = round + 1
  /\ UNCHANGED <<chainVars, siteVars, client, known, missing, unread, lagging,
                 seen>>

(* The poll of a round ends: all finalised, or time is up. *)
PollEnds ==
  /\ pc = "poll"
  /\ NextRound(missing, lagging, round + 1)
  /\ UNCHANGED <<chainVars, siteVars, client, known, missing, unread, lagging,
                 seen>>

LagWaitEnds ==
  /\ pc = "lagwait"
  /\ pc' = "rootcheck"
  /\ UNCHANGED <<chainVars, siteVars, client, known, gateVars, seen>>

(* The last barrier before setContenthash: only a root that is absent at   *)
(* the finalised head and not found on the best chain fails the deploy.    *)
(* DotNS may still fail to publish the new contenthash.                    *)
RootCheck ==
  /\ pc = "rootcheck"
  /\ \E r \in FinalProbe({Root}), b \in BestProbe({Root}) :
       pc' = IF r[Root] = "no" /\ b[Root] # "yes" THEN "failed" ELSE "ok"
  /\ IF pc' = "ok" THEN manifest' \in {manifest, site} ELSE UNCHANGED manifest
  /\ UNCHANGED <<chainVars, deploys, site, trusted, client, known, gateVars,
                 seen>>

--------------------------------------------------------------------------------
(***************************************************************************)
(* The chain and the socket.                                               *)
(***************************************************************************)
(* What happens between two deploys is the business of Aged.               *)
WhileRunning ==
  /\ pc \notin Ended \cup {"idle"}
  /\ UNCHANGED <<faults, siteVars, pc, known, gateVars, seen>>

Include(i) ==
  /\ chain[i] = "pending"
  /\ chain' = [chain EXCEPT ![i] = "best"]
  /\ ever' = ever \cup ({i} \cap Stable)
  /\ WhileRunning /\ UNCHANGED <<reorgs, client>>

Finalise(i) ==
  /\ chain[i] = "best"
  /\ chain' = [chain EXCEPT ![i] = "final"]
  /\ WhileRunning /\ UNCHANGED <<ever, reorgs, client>>

(* A fork: the transaction is back in the pool, or lost. *)
Reorg(i) ==
  /\ "reorg" \in faults /\ chain[i] = "best" /\ reorgs < MaxReorgs
  /\ reorgs' = reorgs + 1
  /\ \E place \in {"pending", "absent"} : chain' = [chain EXCEPT ![i] = place]
  /\ WhileRunning /\ UNCHANGED <<ever, client>>

WsHalt ==
  /\ "halt" \in faults /\ client = "live"
  /\ client' = "halted"
  /\ WhileRunning /\ UNCHANGED <<chain, ever, reorgs>>

Work ==
  \/ PhaseA \/ ProbeB \/ PhaseB \/ Gate \/ PollMissing \/ PollLagging
  \/ WaitEnds \/ Gap \/ Reupload \/ ReuploadFails \/ ReuploadReconnects
  \/ ReuploadReconnectFails \/ PollEnds \/ LagWaitEnds \/ RootCheck

Environment ==
  \/ \E i \in Items : Include(i) \/ Finalise(i) \/ Reorg(i)
  \/ WsHalt

Next == Start \/ Work \/ Environment

(* The waits are bounded by the clock: each of them ends. *)
Fairness == WF_vars(Work)

Spec == Init /\ [][Next]_vars
FairSpec == Spec /\ Fairness
--------------------------------------------------------------------------------
(***************************************************************************)
(* Properties.                                                             *)
(***************************************************************************)
TypeOK ==
  /\ chain \in [Items -> Places] /\ reorgs \in 0 .. MaxReorgs
  /\ faults \in Regimes
  /\ manifest \subseteq Stable /\ deploys \in 0 .. MaxDeploys
  /\ pc \in PCs /\ client \in {"live", "halted"}
  /\ site \subseteq Stable /\ trusted \subseteq Stable
  /\ known \subseteq Stable \cup Volatile
  /\ missing \subseteq Content /\ unread \subseteq Content
  /\ lagging \subseteq Content /\ todo \subseteq Content
  /\ round \in 0 .. MaxRounds + 1
  /\ pc \in {"reupload", "poll"} => round \in 1 .. MaxRounds
  /\ seen \subseteq Items /\ ever \subseteq Stable

(***************************************************************************)
(* A deploy that succeeds has itself seen every item it publishes on the   *)
(* chain, whether it uploaded it, trusted it or re-uploaded it, except for *)
(* those whose finalised probe gave no answer.  In particular a chunk that *)
(* was evicted since the last deploy is uploaded again, or went unread.    *)
(***************************************************************************)
SeenUnlessUnread == pc = "ok" => Content \subseteq seen \cup unread

(***************************************************************************)
(* What the deploy reports as finalised is final: no item it publishes is  *)
(* short of the finalised chain unless it is reported as unverified or as  *)
(* lagging ("Report no answer instead", chunk-probe.ts:193).               *)
(***************************************************************************)
FinalisedMeansSealed ==
  pc = "ok" => \A i \in Content \ (unread \cup lagging) : chain[i] = "final"

(* It holds as long as the finalised head can be read, or times out. *)
SealedUnlessFallback == "fallback" \notin faults => FinalisedMeansSealed

(***************************************************************************)
(* Every chunk a manifest vouches for has been on the chain: trust handed  *)
(* from deploy to deploy goes back to a deploy that stored the chunk.      *)
(***************************************************************************)
ManifestWasStored == manifest \subseteq ever

(***************************************************************************)
(* "a trusted but evicted chunk gets caught and re-uploaded there"         *)
(* (deploy.ts:2720): no deploy succeeds on a chunk it trusted and that is  *)
(* not on the chain.                                                       *)
(***************************************************************************)
EvictedIsCaught ==
  pc = "ok" => \A c \in site \cap trusted : chain[c] # "absent"

(* Every deploy that starts ends, with a contenthash or an error.          *)
Termination == pc = "phaseA" ~> pc \in Ended
================================================================================
