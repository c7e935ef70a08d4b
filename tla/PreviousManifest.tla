---------------------------- MODULE PreviousManifest ----------------------------
(***************************************************************************)
(* Where a deploy finds the manifest of the one before it: the persistent  *)
(* cache of the machine, the Bulletin chain, the gateways' ladder of       *)
(* ranges, or nowhere (a heuristic decides what is stable). And how the    *)
(* next one will find its own: the manifest is embedded in the build       *)
(* directory, stored, and written to the cache as two files.               *)
(*                                                                         *)
(* Deploys of one domain run side by side on one machine and may stop      *)
(* anywhere, between the two cache files too.                              *)
(***************************************************************************)
EXTENDS Naturals

CONSTANTS
    Fetchers,       \* deploys; each names its content and its manifest
    NoDeploy,       \* no contenthash, no manifest, an empty file
    ManifestStarts, \* records of ManifestStart
    Ladder          \* number of ranges tried at a gateway

\* dir: deploys that share a build directory; gateways: how many are configured;
\* client: there is an open Bulletin client; cached: the cache directory exists.
ManifestStart == [shared : SUBSET Fetchers, gateways : Nat, client : BOOLEAN, cached : BOOLEAN]

ASSUME ManifestAssumption ==
    /\ NoDeploy \notin Fetchers /\ Ladder \in Nat \ {0}
    /\ ManifestStarts \subseteq ManifestStart

VARIABLES
    machine,        \* the start
    pointer,        \* deploy the domain's contenthash leads to
    archived,       \* deploy -> the one whose manifest its stored archive embeds
    tree,           \* manifest in each deploy's build directory
    cidFile, jsonFile,  \* the two files of the cache entry: whose they are
    fetch           \* the deploys

ManifestVars == <<machine, pointer, archived, tree, cidFile, jsonFile, fetch>>

Stored(d) == d # NoDeploy /\ archived[d] # NoDeploy

ManifestBegin(start) ==
    /\ machine = start
    /\ pointer = NoDeploy /\ cidFile = NoDeploy /\ jsonFile = NoDeploy
    /\ archived = [d \in Fetchers |-> NoDeploy]
    /\ tree = [d \in Fetchers |-> NoDeploy]
    /\ fetch = [d \in Fetchers |->
                  [pc |-> "prev", prev |-> NoDeploy, got |-> NoDeploy, source |-> "none",
                   gateway |-> 1, rung |-> 1, text |-> NoDeploy]]

ManifestInit == \E start \in ManifestStarts : ManifestBegin(start)

(***************************************************************************)
(* Finding the previous manifest.                                          *)
(***************************************************************************)
FetchAt(d, pc) == fetch[d].pc = pc
FetchGoes(d, pc) == fetch' = [fetch EXCEPT ![d].pc = pc]
Finds(d, m, source) ==
    fetch' = [fetch EXCEPT ![d].pc = "embed", ![d].got = m, ![d].source = source]
FallsBack(d) == Finds(d, NoDeploy, "heuristic_fallback")

ReadPrevious(d) ==
    /\ FetchAt(d, "prev")
    /\ fetch' = [fetch EXCEPT ![d].prev = pointer,
                              ![d].pc = IF pointer = NoDeploy THEN "embed" ELSE "local"]
    /\ UNCHANGED <<machine, pointer, archived, tree, cidFile, jsonFile>>

\* The entry is a hit when its .cid file names the previous contenthash; its .json
\* file is then read, and parsed, whoever wrote it.
ReadCache(d) ==
    /\ FetchAt(d, "local")
    /\ IF machine.cached /\ cidFile = fetch[d].prev /\ jsonFile # NoDeploy
           THEN Finds(d, jsonFile, "local")
           ELSE FetchGoes(d, "chain")
    /\ UNCHANGED <<machine, pointer, archived, tree, cidFile, jsonFile>>

\* Root block, first and second chunk over bitswap; no answer, a late one, or an
\* archive the manifest is not at the front of: on to the gateways.
AskChain(d) ==
    /\ FetchAt(d, "chain")
    /\ \/ machine.client /\ Finds(d, archived[fetch[d].prev], "chain")
       \/ IF machine.gateways = 0 THEN FallsBack(d) ELSE FetchGoes(d, "gateway")
    /\ UNCHANGED <<machine, pointer, archived, tree, cidFile, jsonFile>>

NextGateway(d) ==
    IF fetch[d].gateway = machine.gateways THEN FallsBack(d)
    ELSE fetch' = [fetch EXCEPT ![d].gateway = @ + 1, ![d].rung = 1]

\* One range of one gateway: the manifest; a 404 or an unreadable archive, which
\* ends the search; or a retryable outcome, which widens the range until the ladder
\* or the budget, shared by the gateways, is used up.
TryRange(d) ==
    /\ FetchAt(d, "gateway")
    /\ \/ Finds(d, archived[fetch[d].prev], "gateway")
       \/ FallsBack(d)
       \/ fetch[d].rung < Ladder /\ fetch' = [fetch EXCEPT ![d].rung = @ + 1]
       \/ NextGateway(d)
    /\ UNCHANGED <<machine, pointer, archived, tree, cidFile, jsonFile>>

(***************************************************************************)
(* Leaving one for the next deploy.                                        *)
(***************************************************************************)
SameTree(d) == {e \in Fetchers : e = d \/ {d, e} \subseteq machine.shared}

\* Fault: the cache is written with the manifest, before anything is stored.
EmbedAndCache(d) ==
    /\ FetchAt(d, "embed")
    /\ tree' = [e \in Fetchers |-> IF e \in SameTree(d) THEN d ELSE tree[e]]
    /\ cidFile' = d /\ jsonFile' = d
    /\ FetchGoes(d, "upload")
    /\ UNCHANGED <<machine, pointer, archived>>

\* The finished manifest replaces the placeholder, by rename.
EmbedManifest(d) ==
    /\ FetchAt(d, "embed")
    /\ tree' = [e \in Fetchers |-> IF e \in SameTree(d) THEN d ELSE tree[e]]
    /\ FetchGoes(d, "upload")
    /\ UNCHANGED <<machine, pointer, archived, cidFile, jsonFile>>

\* The tree is merkleized a second time and stored, up to the finality gate.
StoreTree(d) ==
    /\ FetchAt(d, "upload")
    /\ archived' = [archived EXCEPT ![d] = tree[d]]
    /\ FetchGoes(d, IF machine.cached THEN "cid" ELSE "point")
    /\ UNCHANGED <<machine, pointer, tree, cidFile, jsonFile>>

\* The manifest is read back from the build directory.
WriteCid(d) ==
    /\ FetchAt(d, "cid")
    /\ cidFile' = d
    /\ fetch' = [fetch EXCEPT ![d].pc = "json", ![d].text = tree[d]]
    /\ UNCHANGED <<machine, pointer, archived, tree, jsonFile>>

WriteJson(d) ==
    /\ FetchAt(d, "json")
    /\ jsonFile' = fetch[d].text
    /\ FetchGoes(d, "point")
    /\ UNCHANGED <<machine, pointer, archived, tree, cidFile>>

\* Best effort: a write that fails is not reported.
CacheWriteFails(d) ==
    /\ fetch[d].pc \in {"cid", "json"}
    /\ FetchGoes(d, "point")
    /\ UNCHANGED <<machine, pointer, archived, tree, cidFile, jsonFile>>

PointDomain(d) ==
    /\ FetchAt(d, "point")
    /\ pointer' = d
    /\ FetchGoes(d, "done")
    /\ UNCHANGED <<machine, archived, tree, cidFile, jsonFile>>

FetcherStops(d) ==
    /\ fetch[d].pc \notin {"done", "failed"}
    /\ FetchGoes(d, "failed")
    /\ UNCHANGED <<machine, pointer, archived, tree, cidFile, jsonFile>>

ManifestNext ==
    \E d \in Fetchers :
        \/ ReadPrevious(d) \/ ReadCache(d) \/ AskChain(d) \/ TryRange(d)
        \/ EmbedManifest(d) \/ StoreTree(d) \/ WriteCid(d) \/ WriteJson(d)
        \/ CacheWriteFails(d) \/ PointDomain(d) \/ FetcherStops(d)

ManifestSpec == ManifestInit /\ [][ManifestNext]_ManifestVars

-----------------------------------------------------------------------------
\* Every variable of the search has its type.
ManifestTypeOK ==
    /\ machine \in ManifestStarts
    /\ {pointer, cidFile, jsonFile} \subseteq Fetchers \union {NoDeploy}
    /\ \A d \in Fetchers :
        /\ {tree[d], archived[d], fetch[d].prev, fetch[d].got, fetch[d].text} \subseteq Fetchers \union {NoDeploy}
        /\ fetch[d].rung \in 1..Ladder /\ fetch[d].gateway \in Nat \ {0}
        /\ fetch[d].source \in {"none", "local", "chain", "gateway", "heuristic_fallback"}

\* A cache entry can be torn (two deploys, or a crash between its two files) and
\* hand out another deploy's manifest as the previous one's. Whatever is found, in
\* any tier, is still the manifest of a deploy that was stored, so the chunks it
\* makes phase A trust were all on chain (storeDirectoryV2 writes the cache after
\* the finality gate), unless two deploys shared a build directory.
FoundWasStored ==
    \A d \in Fetchers :
        fetch[d].got # NoDeploy /\ machine.shared = {} => Stored(fetch[d].got)
=============================================================================
