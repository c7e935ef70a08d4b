------------------------ MODULE PreviousManifest_proofs ------------------------
(***************************************************************************)
(* Theorems about PreviousManifest, for any deploys, gateways and ladder:  *)
(* the types, and that whatever manifest is found was stored.              *)
(***************************************************************************)
EXTENDS PreviousManifest, TLAPS

Found == Fetchers \union {NoDeploy}

FetchRecords ==
    [pc : {"prev", "local", "chain", "gateway", "embed", "upload", "cid", "json",
           "point", "done", "failed"},
     prev : Found, got : Found, text : Found,
     source : {"none", "local", "chain", "gateway", "heuristic_fallback"},
     gateway : Nat \ {0}, rung : 1..Ladder]

(* A tier is asked only for the manifest of a deploy there was.            *)
AsksForOne(d) == fetch[d].pc \in {"local", "chain", "gateway"} => fetch[d].prev \in Fetchers

ManifestTyped ==
    /\ machine \in ManifestStarts
    /\ pointer \in Found /\ cidFile \in Found /\ jsonFile \in Found
    /\ tree \in [Fetchers -> Found] /\ archived \in [Fetchers -> Found]
    /\ fetch \in [Fetchers -> FetchRecords]
    /\ \A d \in Fetchers : AsksForOne(d)

(* What a deploy with its own build directory has stored, and leaves.      *)
OwnManifest(d) ==
    /\ archived[d] \in {NoDeploy, d}
    /\ fetch[d].pc \in {"upload", "cid", "json"} => tree[d] = d
    /\ fetch[d].pc \in {"cid", "json"} => archived[d] = d
    /\ fetch[d].pc = "json" => fetch[d].text = d
    /\ fetch[d].got # NoDeploy => Stored(fetch[d].got)

ManifestInv ==
    /\ ManifestTyped
    /\ machine.shared = {} => \A d \in Fetchers : OwnManifest(d)
    /\ machine.shared = {} /\ jsonFile # NoDeploy => Stored(jsonFile)

StepOf(d) ==
    \/ ReadPrevious(d) \/ ReadCache(d) \/ AskChain(d) \/ TryRange(d)
    \/ EmbedManifest(d) \/ StoreTree(d) \/ WriteCid(d) \/ WriteJson(d)
    \/ CacheWriteFails(d) \/ PointDomain(d) \/ FetcherStops(d)

(* A step changes at most the deploy it is of.                             *)
LEMMA OnlyOwnFetch ==
  ASSUME ManifestTyped, NEW d \in Fetchers, StepOf(d), NEW e \in Fetchers \ {d}
  PROVE  fetch'[e] = fetch[e] /\ archived'[e] = archived[e] /\ machine' = machine
<1> USE DEF ManifestTyped, FetchGoes
<1>1. CASE ReadPrevious(d) \/ ReadCache(d) \/ AskChain(d) \/ TryRange(d)
  BY <1>1 DEF ReadPrevious, ReadCache, AskChain, TryRange, NextGateway, FallsBack, Finds
<1>2. CASE EmbedManifest(d) \/ StoreTree(d) \/ WriteCid(d)
  BY <1>2 DEF EmbedManifest, StoreTree, WriteCid
<1>3. CASE WriteJson(d) \/ CacheWriteFails(d) \/ PointDomain(d) \/ FetcherStops(d)
  BY <1>3 DEF WriteJson, CacheWriteFails, PointDomain, FetcherStops
<1> QED
  BY <1>1, <1>2, <1>3 DEF StepOf

(* A step of the search keeps the types, and where its outcome comes from. *)
LEMMA SearchTyped ==
  ASSUME ManifestTyped, NEW d \in Fetchers,
         ReadCache(d) \/ AskChain(d) \/ TryRange(d)
  PROVE  /\ fetch' \in [Fetchers -> FetchRecords] /\ AsksForOne(d)'
         /\ fetch'[d].pc \in {"chain", "gateway", "embed"}
         /\ \/ fetch'[d].got = fetch[d].got
            \/ fetch'[d].got = NoDeploy
            \/ fetch'[d].got = jsonFile
            \/ fetch'[d].got = archived[fetch[d].prev]
         /\ fetch[d].prev \in Fetchers
         /\ UNCHANGED <<machine, pointer, archived, tree, cidFile, jsonFile>>
<1>1. fetch[d] \in FetchRecords /\ fetch[d].prev \in Fetchers
      /\ archived[fetch[d].prev] \in Found /\ jsonFile \in Found /\ NoDeploy \in Found
  BY DEF ManifestTyped, AsksForOne, FetchAt, ReadCache, AskChain, TryRange, Found
<1>2. ASSUME NEW m \in Found, NEW source \in {"local", "chain", "gateway", "heuristic_fallback"},
             Finds(d, m, source)
      PROVE  /\ fetch' \in [Fetchers -> FetchRecords]
             /\ fetch'[d].pc = "embed" /\ fetch'[d].got = m
  BY <1>1, <1>2 DEF Finds, ManifestTyped, FetchRecords
<1>3. ASSUME NEW pc \in {"chain", "gateway"}, FetchGoes(d, pc)
      PROVE  /\ fetch' \in [Fetchers -> FetchRecords] /\ fetch'[d].pc = pc
             /\ fetch'[d].got = fetch[d].got /\ fetch'[d].prev = fetch[d].prev
  BY <1>1, <1>3 DEF FetchGoes, ManifestTyped, FetchRecords
<1>4. CASE ReadCache(d)
  BY <1>1, <1>2, <1>3, <1>4 DEF ReadCache, AsksForOne
<1>5. CASE AskChain(d)
  BY <1>1, <1>2, <1>3, <1>5 DEF AskChain, FallsBack, AsksForOne
<1>6. CASE TryRange(d)
  <2>1. /\ fetch[d].pc = "gateway"
        /\ UNCHANGED <<machine, pointer, archived, tree, cidFile, jsonFile>>
    BY <1>6 DEF TryRange, FetchAt
  <2>2. CASE Finds(d, archived[fetch[d].prev], "gateway") \/ FallsBack(d)
    BY <1>1, <1>2, <2>1, <2>2 DEF FallsBack, AsksForOne
  <2>3. CASE fetch[d].rung < Ladder /\ fetch' = [fetch EXCEPT ![d].rung = @ + 1]
    <3>1. fetch[d].rung + 1 \in 1..Ladder
      BY <1>1, <2>3, ManifestAssumption DEF FetchRecords, ManifestAssumption
    <3>2. /\ fetch' \in [Fetchers -> FetchRecords]
          /\ fetch'[d].pc = fetch[d].pc /\ fetch'[d].got = fetch[d].got
          /\ fetch'[d].prev = fetch[d].prev
      BY <1>1, <2>3, <3>1 DEF ManifestTyped, FetchRecords
    <3> QED
      BY <1>1, <2>1, <3>2 DEF AsksForOne
  <2>4. CASE NextGateway(d) /\ ~FallsBack(d)
    <3>1. fetch' = [fetch EXCEPT ![d].gateway = @ + 1, ![d].rung = 1]
      BY <2>4 DEF NextGateway
    <3>2. fetch[d].gateway + 1 \in Nat \ {0} /\ 1 \in 1..Ladder
      BY <1>1, ManifestAssumption DEF FetchRecords, ManifestAssumption
    <3>3. /\ fetch' \in [Fetchers -> FetchRecords]
          /\ fetch'[d].pc = fetch[d].pc /\ fetch'[d].got = fetch[d].got
          /\ fetch'[d].prev = fetch[d].prev
      BY <1>1, <3>1, <3>2 DEF ManifestTyped, FetchRecords
    <3> QED
      BY <1>1, <2>1, <3>3 DEF AsksForOne
  <2> QED
    BY <1>6, <2>2, <2>3, <2>4 DEF TryRange
<1> QED
  BY <1>4, <1>5, <1>6

(* A deploy that goes on keeps everything it found.                        *)
LEMMA GoesOn ==
  ASSUME ManifestTyped, NEW d \in Fetchers,
         NEW pc \in {"upload", "cid", "json", "point", "done", "failed"}, FetchGoes(d, pc)
  PROVE  /\ fetch' \in [Fetchers -> FetchRecords] /\ AsksForOne(d)'
         /\ fetch'[d] = [fetch[d] EXCEPT !.pc = pc]
         /\ fetch'[d].pc = pc /\ fetch'[d].got = fetch[d].got
BY DEF ManifestTyped, FetchGoes, FetchRecords, AsksForOne

(* Without a shared build directory a deploy embeds into its own.          *)
LEMMA OwnTree ==
  ASSUME machine.shared = {}, NEW d \in Fetchers
  PROVE  SameTree(d) = {d}
BY DEF SameTree

(* What the steps from the embedding on do to the mover's own state.       *)
LEMMA LeavingTyped ==
  ASSUME ManifestTyped, NEW d \in Fetchers,
         \/ EmbedManifest(d) \/ StoreTree(d) \/ WriteJson(d)
         \/ CacheWriteFails(d) \/ PointDomain(d) \/ FetcherStops(d)
  PROVE  /\ fetch' \in [Fetchers -> FetchRecords] /\ AsksForOne(d)'
         /\ fetch'[d].got = fetch[d].got /\ fetch'[d].text = fetch[d].text
         /\ EmbedManifest(d) => fetch'[d].pc = "upload"
         /\ StoreTree(d) => fetch'[d].pc \in {"cid", "point"}
         /\ ~EmbedManifest(d) /\ ~StoreTree(d) => fetch'[d].pc \in {"point", "done", "failed"}
<1>1. fetch[d] \in FetchRecords
  BY DEF ManifestTyped
<1>2. CASE EmbedManifest(d)
  BY <1>1, <1>2, GoesOn DEF EmbedManifest, StoreTree, FetchAt, FetchRecords
<1>3. CASE StoreTree(d)
  <2>1. FetchGoes(d, "cid") \/ FetchGoes(d, "point")
    BY <1>3 DEF StoreTree
  <2>2. ~EmbedManifest(d)
    BY <1>3 DEF StoreTree, EmbedManifest, FetchAt
  <2> QED
    BY <1>1, <1>3, <2>1, <2>2, GoesOn DEF FetchRecords
<1>4. CASE ~EmbedManifest(d) /\ ~StoreTree(d)
  <2>1. FetchGoes(d, "point") \/ FetchGoes(d, "done") \/ FetchGoes(d, "failed")
    BY <1>4 DEF WriteJson, CacheWriteFails, PointDomain, FetcherStops
  <2> QED
    BY <1>1, <1>4, <2>1, GoesOn DEF FetchRecords
<1> QED
  BY <1>2, <1>3, <1>4

(* The step that reads the pointer, and the one that writes the .cid file. *)
LEMMA ReadsTyped ==
  ASSUME ManifestTyped, NEW d \in Fetchers, ReadPrevious(d) \/ WriteCid(d)
  PROVE  /\ fetch' \in [Fetchers -> FetchRecords] /\ AsksForOne(d)'
         /\ fetch'[d].got = fetch[d].got
         /\ ReadPrevious(d) => fetch'[d].pc \in {"embed", "local"}
         /\ WriteCid(d) => fetch'[d].pc = "json" /\ fetch'[d].text = tree[d]
<1>1. fetch[d] \in FetchRecords /\ pointer \in Found /\ tree[d] \in Found
  BY DEF ManifestTyped
<1>2. CASE ReadPrevious(d)
  <2>1. CASE pointer = NoDeploy
    <3>1. fetch' = [fetch EXCEPT ![d].prev = pointer, ![d].pc = "embed"]
      BY <1>2, <2>1 DEF ReadPrevious
    <3> QED
      BY <1>1, <1>2, <3>1
         DEF ManifestTyped, FetchRecords, AsksForOne, ReadPrevious, WriteCid, FetchAt
  <2>2. CASE pointer # NoDeploy
    <3>1. fetch' = [fetch EXCEPT ![d].prev = pointer, ![d].pc = "local"]
      BY <1>2, <2>2 DEF ReadPrevious
    <3>2. pointer \in Fetchers
      BY <1>1, <2>2 DEF Found
    <3> QED
      BY <1>1, <1>2, <3>1, <3>2
         DEF ManifestTyped, FetchRecords, AsksForOne, ReadPrevious, WriteCid, FetchAt
  <2> QED
    BY <2>1, <2>2
<1>3. CASE WriteCid(d)
  <2>1. fetch' = [fetch EXCEPT ![d] = [[fetch[d] EXCEPT !.pc = "json"] EXCEPT !.text = tree[d]]]
    BY <1>3 DEF WriteCid, ManifestTyped, FetchRecords
  <2>2. [[fetch[d] EXCEPT !.pc = "json"] EXCEPT !.text = tree[d]] \in FetchRecords
    BY <1>1 DEF FetchRecords
  <2>3. /\ fetch' \in [Fetchers -> FetchRecords]
        /\ fetch'[d].got = fetch[d].got
        /\ fetch'[d].pc = "json" /\ fetch'[d].text = tree[d]
    BY <1>1, <2>1, <2>2 DEF ManifestTyped, FetchRecords
  <2>4. ~ReadPrevious(d)
    BY <1>3 DEF ReadPrevious, WriteCid, FetchAt
  <2> QED
    BY <2>3, <2>4 DEF AsksForOne
<1> QED
  BY <1>2, <1>3

(* The search starts with everything of its type, and nothing stored.      *)
LEMMA ManifestInvInit == ManifestInit => ManifestInv
<1> SUFFICES ASSUME NEW start \in ManifestStarts, ManifestBegin(start)
             PROVE  ManifestInv
  BY DEF ManifestInit
<1>1. 1 \in 1..Ladder
  BY ManifestAssumption DEF ManifestAssumption
<1>2. ManifestTyped
  BY <1>1 DEF ManifestBegin, ManifestTyped, FetchRecords, Found, AsksForOne
<1>3. \A d \in Fetchers : OwnManifest(d)
  BY DEF ManifestBegin, OwnManifest
<1>4. jsonFile = NoDeploy
  BY DEF ManifestBegin
<1> QED
  BY <1>2, <1>3, <1>4 DEF ManifestInv

(* Every step keeps the types.                                             *)
LEMMA ManifestTypedStep ==
  ASSUME ManifestTyped, NEW d \in Fetchers, StepOf(d)
  PROVE  ManifestTyped'
<1>1. /\ fetch' \in [Fetchers -> FetchRecords] /\ AsksForOne(d)'
  BY SearchTyped, LeavingTyped, ReadsTyped DEF StepOf
<1>2. \A e \in Fetchers : AsksForOne(e)'
  <2> SUFFICES ASSUME NEW e \in Fetchers \ {d} PROVE AsksForOne(e)'
    BY <1>1
  <2>1. AsksForOne(e) /\ fetch'[e] = fetch[e]
    BY OnlyOwnFetch DEF ManifestTyped
  <2> QED
    BY <2>1 DEF AsksForOne
<1>3. fetch[d].text \in Found /\ d \in Found /\ tree[d] \in Found
  BY DEF ManifestTyped, FetchRecords, Found
<1>4. /\ machine' \in ManifestStarts
      /\ pointer' \in Found /\ cidFile' \in Found /\ jsonFile' \in Found
      /\ tree' \in [Fetchers -> Found] /\ archived' \in [Fetchers -> Found]
  <2>1. CASE ReadCache(d) \/ AskChain(d) \/ TryRange(d)
    BY <2>1, SearchTyped DEF ManifestTyped
  <2>2. CASE ReadPrevious(d) \/ CacheWriteFails(d) \/ FetcherStops(d)
    BY <2>2 DEF ManifestTyped, ReadPrevious, CacheWriteFails, FetcherStops
  <2>3. CASE EmbedManifest(d) \/ StoreTree(d)
    BY <1>3, <2>3 DEF ManifestTyped, EmbedManifest, StoreTree
  <2>4. CASE WriteCid(d) \/ WriteJson(d) \/ PointDomain(d)
    BY <1>3, <2>4 DEF ManifestTyped, WriteCid, WriteJson, PointDomain
  <2> QED
    BY <2>1, <2>2, <2>3, <2>4 DEF StepOf
<1> QED
  BY <1>1, <1>2, <1>4 DEF ManifestTyped

(* What is stored stays stored, and the mover stores only its own.         *)
LEMMA StaysStored ==
  ASSUME ManifestInv, NEW d \in Fetchers, StepOf(d), machine.shared = {}
  PROVE  /\ archived'[d] = archived[d] \/ (StoreTree(d) /\ archived'[d] = d)
         /\ \A m \in Found : Stored(m) => Stored(m)'
<1>1. ManifestTyped /\ OwnManifest(d)
  BY DEF ManifestInv
<1>2. archived' = archived \/ (StoreTree(d) /\ archived' = [archived EXCEPT ![d] = tree[d]])
  BY DEF StepOf, ReadPrevious, ReadCache, AskChain, TryRange, EmbedManifest, StoreTree,
         WriteCid, WriteJson, CacheWriteFails, PointDomain, FetcherStops
<1>3. StoreTree(d) => tree[d] = d
  BY <1>1 DEF StoreTree, FetchAt, OwnManifest
<1>4. d # NoDeploy
  BY ManifestAssumption DEF ManifestAssumption
<1> QED
  BY <1>1, <1>2, <1>3, <1>4 DEF ManifestTyped, Stored, Found

(* What the mover promises after its step.                                 *)
LEMMA OwnStep ==
  ASSUME ManifestInv, NEW d \in Fetchers, StepOf(d), machine.shared = {}
  PROVE  OwnManifest(d)' /\ (jsonFile # NoDeploy => Stored(jsonFile))'
<1>0. /\ ManifestTyped /\ OwnManifest(d)
      /\ jsonFile # NoDeploy => Stored(jsonFile)
      /\ \A e \in Fetchers : OwnManifest(e)
  BY DEF ManifestInv
<1>1. /\ fetch[d].got \in Found /\ fetch[d].text \in Found /\ jsonFile \in Found
      /\ d # NoDeploy
  BY <1>0, ManifestAssumption DEF ManifestTyped, FetchRecords, ManifestAssumption
<1>2. /\ archived'[d] = archived[d] \/ (StoreTree(d) /\ archived'[d] = d)
      /\ \A m \in Found : Stored(m) => Stored(m)'
  BY StaysStored
<1>3. archived'[d] \in {NoDeploy, d}
  BY <1>0, <1>2 DEF OwnManifest
<1>4. CASE ReadCache(d) \/ AskChain(d) \/ TryRange(d)
  <2>1. /\ fetch'[d].pc \in {"chain", "gateway", "embed"}
        /\ \/ fetch'[d].got = fetch[d].got
           \/ fetch'[d].got = NoDeploy
           \/ fetch'[d].got = jsonFile
           \/ fetch'[d].got = archived[fetch[d].prev]
        /\ fetch[d].prev \in Fetchers /\ jsonFile' = jsonFile
    BY <1>0, <1>4, SearchTyped
  <2>2. archived[fetch[d].prev] # NoDeploy =>
            archived[fetch[d].prev] \in Found /\ Stored(archived[fetch[d].prev])
    BY <1>0, <2>1, ManifestAssumption DEF OwnManifest, Stored, Found, ManifestAssumption
  <2>3. fetch'[d].got # NoDeploy => fetch'[d].got \in Found /\ Stored(fetch'[d].got)
    BY <1>0, <1>1, <2>1, <2>2 DEF OwnManifest
  <2>4. (fetch[d].got # NoDeploy => Stored(fetch[d].got))'
    BY <1>2, <2>3 DEF Stored
  <2>5. (jsonFile # NoDeploy => Stored(jsonFile))'
    BY <1>0, <1>1, <1>2, <2>1 DEF Stored
  <2> QED
    BY <1>3, <2>1, <2>4, <2>5 DEF OwnManifest
<1>5. CASE ~(ReadCache(d) \/ AskChain(d) \/ TryRange(d))
  <2>1. fetch'[d].got = fetch[d].got
    BY <1>0, <1>5, LeavingTyped, ReadsTyped DEF StepOf
  <2>2. (fetch[d].got # NoDeploy => Stored(fetch[d].got))'
    BY <1>0, <1>1, <1>2, <2>1 DEF OwnManifest, Stored
  <2>3. CASE EmbedManifest(d)
    <3>1. /\ fetch'[d].pc = "upload" /\ tree'[d] = d /\ jsonFile' = jsonFile
      BY <1>0, <2>3, LeavingTyped, OwnTree DEF EmbedManifest, ManifestTyped
    <3> QED
      BY <1>0, <1>1, <1>2, <1>3, <2>2, <3>1 DEF OwnManifest, Stored
  <2>4. CASE StoreTree(d)
    <3>1. /\ fetch'[d].pc \in {"cid", "point"} /\ tree[d] = d /\ tree' = tree
          /\ archived'[d] = d /\ jsonFile' = jsonFile
      BY <1>0, <2>4, LeavingTyped DEF StoreTree, FetchAt, OwnManifest, ManifestTyped
    <3> QED
      BY <1>0, <1>1, <1>2, <2>2, <3>1 DEF OwnManifest, Stored
  <2>5. CASE WriteCid(d)
    <3>1. /\ fetch'[d].pc = "json" /\ fetch'[d].text = tree[d]
          /\ tree[d] = d /\ archived[d] = d
          /\ tree' = tree /\ archived' = archived /\ jsonFile' = jsonFile
      BY <1>0, <2>5, ReadsTyped DEF WriteCid, FetchAt, OwnManifest
    <3> QED
      BY <1>0, <1>1, <1>2, <2>2, <3>1 DEF OwnManifest, Stored
  <2>6. CASE WriteJson(d)
    <3>1. /\ fetch'[d].pc \in {"point", "done", "failed"}
      BY <1>0, <2>6, LeavingTyped DEF WriteJson, EmbedManifest, StoreTree, FetchAt
    <3>2. jsonFile' = d /\ archived'[d] = d
      BY <1>0, <2>6 DEF WriteJson, FetchAt, OwnManifest
    <3> QED
      BY <1>1, <1>3, <2>2, <3>1, <3>2 DEF OwnManifest, Stored
  <2>7. CASE ReadPrevious(d)
    <3>1. fetch'[d].pc \in {"embed", "local"} /\ jsonFile' = jsonFile
      BY <1>0, <2>7, ReadsTyped DEF ReadPrevious
    <3> QED
      BY <1>0, <1>1, <1>2, <1>3, <2>2, <3>1 DEF OwnManifest, Stored
  <2>8. CASE CacheWriteFails(d) \/ PointDomain(d) \/ FetcherStops(d)
    <3>1. fetch'[d].pc \in {"point", "done", "failed"} /\ jsonFile' = jsonFile
      <4>1. FetchGoes(d, "point") \/ FetchGoes(d, "done") \/ FetchGoes(d, "failed")
        BY <2>8 DEF CacheWriteFails, PointDomain, FetcherStops
      <4> QED
        BY <1>0, <2>8, <4>1, GoesOn DEF CacheWriteFails, PointDomain, FetcherStops
    <3> QED
      BY <1>0, <1>1, <1>2, <1>3, <2>2, <3>1 DEF OwnManifest, Stored
  <2> QED
    BY <1>5, <2>3, <2>4, <2>5, <2>6, <2>7, <2>8 DEF StepOf
<1> QED
  BY <1>4, <1>5

(* A step of another deploy takes nothing from one with its own directory. *)
LEMMA OthersOwn ==
  ASSUME ManifestInv, NEW d \in Fetchers, StepOf(d), machine.shared = {},
         NEW e \in Fetchers \ {d}
  PROVE  OwnManifest(e)'
<1>1. /\ fetch'[e] = fetch[e] /\ archived'[e] = archived[e] /\ OwnManifest(e)
      /\ fetch[e].got \in Found
  BY OnlyOwnFetch DEF ManifestInv, ManifestTyped, FetchRecords
<1>2. tree'[e] = tree[e]
  BY OwnTree DEF ManifestInv, ManifestTyped, StepOf, ReadPrevious, ReadCache, AskChain,
     TryRange, EmbedManifest, StoreTree, WriteCid, WriteJson, CacheWriteFails,
     PointDomain, FetcherStops
<1>3. Stored(fetch[e].got) => Stored(fetch[e].got)'
  BY <1>1, StaysStored DEF Stored
<1> QED
  BY <1>1, <1>2, <1>3 DEF OwnManifest, Stored

(* No step breaks the invariant.                                           *)
LEMMA ManifestInvStep ==
  ASSUME ManifestInv, [ManifestNext]_ManifestVars
  PROVE  ManifestInv'
<1>1. CASE UNCHANGED ManifestVars
  BY <1>1 DEF ManifestVars, ManifestInv, ManifestTyped, AsksForOne, OwnManifest, Stored
<1>2. ASSUME NEW d \in Fetchers, StepOf(d)
      PROVE  ManifestInv'
  <2>1. ManifestTyped'
    BY <1>2, ManifestTypedStep DEF ManifestInv
  <2>2. machine' = machine
    BY <1>2 DEF StepOf, ReadPrevious, ReadCache, AskChain, TryRange, EmbedManifest,
       StoreTree, WriteCid, WriteJson, CacheWriteFails, PointDomain, FetcherStops
  <2>3. ASSUME machine.shared = {}
        PROVE  (\A e \in Fetchers : OwnManifest(e))' /\ (jsonFile # NoDeploy => Stored(jsonFile))'
    BY <1>2, <2>3, OwnStep, OthersOwn
  <2> QED
    BY <2>1, <2>2, <2>3 DEF ManifestInv
<1> QED
  BY <1>1, <1>2 DEF ManifestNext, StepOf

(* Types, and what each deploy has stored and leaves for the next: the     *)
(* inductive invariant.                                                    *)
THEOREM ManifestInvariant == ManifestSpec => []ManifestInv
BY ManifestInvInit, ManifestInvStep, PTL DEF ManifestSpec

(* Every variable of the search keeps its type.                            *)
THEOREM ManifestTypeCorrect == ManifestSpec => []ManifestTypeOK
<1>1. ManifestInv => ManifestTypeOK
  BY DEF ManifestInv, ManifestTyped, FetchRecords, Found, ManifestTypeOK
<1> QED
  BY <1>1, ManifestInvariant, PTL

(* storeDirectoryV2: unless deploys share a build directory, whatever      *)
(* manifest is found, through a torn or foreign cache entry too, is that   *)
(* of a deploy that was stored.                                            *)
THEOREM FoundWasStoredHolds == ManifestSpec => []FoundWasStored
<1>1. ManifestInv => FoundWasStored
  BY DEF ManifestInv, OwnManifest, FoundWasStored
<1> QED
  BY <1>1, ManifestInvariant, PTL
=============================================================================
