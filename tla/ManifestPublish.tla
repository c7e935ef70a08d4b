---------------------------- MODULE ManifestPublish ----------------------------
(***************************************************************************)
(* Publishing a product manifest: the config is checked and written into   *)
(* the build directory, the deploy stores that directory, publishManifest  *)
(* stores the icon and the other executables, and then writes one record   *)
(* after the other on the name and its subnames.                           *)
(*                                                                         *)
(* Two publishers of one product share the build directory, the name and   *)
(* the signer; either may stop between two steps and be run again.         *)
(***************************************************************************)
EXTENDS Naturals, Sequences

CONSTANTS
    Publishers,     \* each with its version of the product's config
    ExecKinds,      \* the executables of the config, in its order
    Unpublished,    \* no publish
    PublishStarts,  \* records of PublishStart
    MaxPublishes    \* bound: runs of each publisher

ExecSet == {ExecKinds[i] : i \in DOMAIN ExecKinds}
SubOwners == {"none", "signer", "foreign"}

\* valid: publishers whose config passes the schema, the byte budget, the file
\* checks and the reconciliation with the deploy's domain; covered: executables
\* whose directory is the one deploy() stored.
PublishStart ==
    [valid : SUBSET Publishers, covered : SUBSET ExecSet,
     subOwner : [ExecSet -> SubOwners]]

ASSUME PublishAssumption ==
    /\ Unpublished \notin Publishers
    /\ \A i, j \in DOMAIN ExecKinds : ExecKinds[i] = ExecKinds[j] => i = j
    /\ ExecKinds \in Seq(STRING) /\ ExecKinds # <<>> /\ MaxPublishes \in Nat \ {0}
    /\ PublishStarts \subseteq PublishStart

VARIABLES
    product,        \* the start
    buildDir,       \* whose App manifest the build directory holds
    bulletin,       \* content stored on Bulletin
    rootRecord,     \* publisher whose root manifest the name carries
    subnames,       \* of each executable: owner, resolver, contenthash, manifest
    pub             \* the publishers' processes

PublishVars == <<product, buildDir, bulletin, rootRecord, subnames, pub>>

\* An archive of executable k, and the App manifest that was in its directory.
Archive(k, by) == [exec |-> k, by |-> by, embedded |-> buildDir]
Icon(by) == [exec |-> "icon", by |-> by, embedded |-> by]
NoContent == [exec |-> "icon", by |-> Unpublished, embedded |-> Unpublished]

Run(pc, run) == [pc |-> pc, run |-> run, next |-> 1,
                 cid |-> [k \in ExecSet |-> NoContent]]

PublishBegin(start) ==
    /\ product = start
    /\ buildDir = Unpublished /\ bulletin = {} /\ rootRecord = Unpublished
    /\ subnames = [k \in ExecSet |->
                     [owner |-> start.subOwner[k], resolver |-> FALSE,
                      hash |-> NoContent, text |-> Unpublished]]
    /\ pub = [p \in Publishers |-> Run("preflight", 1)]

PublishInit == \E start \in PublishStarts : PublishBegin(start)

(***************************************************************************)
(* One step of a publisher. Goto names what comes next; every failure ends *)
(* the run where it is, with what has been written.                        *)
(***************************************************************************)
Current(p) == ExecKinds[pub[p].next]
LastOf(p) == pub[p].next = Len(ExecKinds)
Goto(p, pc) == pub' = [pub EXCEPT ![p].pc = pc]
PublishEnds(p, pc) == pub' = [pub EXCEPT ![p] = Run(pc, @.run)]
Onward(p, pc, over) ==      \* to the next executable, or past the last one
    [pub EXCEPT ![p].pc = IF LastOf(p) THEN over ELSE pc,
                ![p].next = IF LastOf(p) THEN 1 ELSE @ + 1]

\* A config that is only over the byte budget is written before it is refused.
PreflightConfig(p) ==
    /\ pub[p].pc = "preflight"
    /\ \/ p \in product.valid /\ buildDir' = p /\ Goto(p, "deploy")
       \/ p \notin product.valid /\ buildDir' \in {buildDir, p} /\ PublishEnds(p, "failed")
    /\ UNCHANGED <<product, bulletin, rootRecord, subnames>>

DeployStores(p) ==
    /\ pub[p].pc = "deploy"
    /\ LET built == {Archive(k, p) : k \in product.covered}
       IN  /\ bulletin' = bulletin \union built
           /\ pub' = [pub EXCEPT ![p].pc = "verify",
                        ![p].cid = [k \in ExecSet |->
                            IF k \in product.covered THEN Archive(k, p) ELSE NoContent]]
    /\ UNCHANGED <<product, buildDir, rootRecord, subnames>>

\* Fails closed when the directory no longer holds this config's App manifest.
VerifyEmbedded(p) ==
    /\ pub[p].pc = "verify"
    /\ IF buildDir = p THEN Goto(p, "icon") ELSE PublishEnds(p, "failed")
    /\ UNCHANGED <<product, buildDir, bulletin, rootRecord, subnames>>

StoreIcon(p) ==
    /\ pub[p].pc = "icon"
    /\ bulletin' = bulletin \union {Icon(p)}
    /\ Goto(p, "store")
    /\ UNCHANGED <<product, buildDir, rootRecord, subnames>>

StoreExecutable(p) ==
    /\ pub[p].pc = "store"
    /\ LET k == Current(p)
           cid == IF k \in product.covered THEN pub[p].cid[k] ELSE Archive(k, p)
       IN  /\ bulletin' = bulletin \union {cid}
           /\ pub' = [Onward(p, "store", "root") EXCEPT ![p].cid[k] = cid]
    /\ UNCHANGED <<product, buildDir, rootRecord, subnames>>

WriteRoot(p) ==
    /\ pub[p].pc = "root"
    /\ rootRecord' = p
    /\ Goto(p, "own")
    /\ UNCHANGED <<product, buildDir, bulletin, subnames>>

CheckSubname(p) ==
    /\ pub[p].pc = "own"
    /\ CASE subnames[Current(p)].owner = "none" -> Goto(p, "register")
         [] subnames[Current(p)].owner = "signer" -> Goto(p, "resolver")
         [] subnames[Current(p)].owner = "foreign" -> PublishEnds(p, "failed")
    /\ UNCHANGED <<product, buildDir, bulletin, rootRecord, subnames>>

\* Registering sets owner and resolver in one batch; an owned subname may still
\* have another resolver.
RegisterOrEnsureResolver(p) ==
    /\ pub[p].pc \in {"register", "resolver"}
    /\ subnames' = [subnames EXCEPT ![Current(p)].owner = "signer",
                                    ![Current(p)].resolver = TRUE]
    /\ Goto(p, "pair")
    /\ UNCHANGED <<product, buildDir, bulletin, rootRecord>>

\* Fault: contenthash and text record as two transactions.
WriteOneAfterTheOther(p) ==
    /\ pub[p].pc = "pair"
    /\ LET k == Current(p)
       IN  IF subnames[k].hash # pub[p].cid[k]
               THEN subnames' = [subnames EXCEPT ![k].hash = pub[p].cid[k]]
                        /\ UNCHANGED pub
               ELSE subnames' = [subnames EXCEPT ![k].text = p]
                        /\ IF LastOf(p) THEN PublishEnds(p, "done")
                                         ELSE pub' = Onward(p, "own", "own")
    /\ UNCHANGED <<product, buildDir, bulletin, rootRecord>>

WritePair(p) ==
    /\ pub[p].pc = "pair"
    /\ subnames' = [subnames EXCEPT ![Current(p)].hash = pub[p].cid[Current(p)],
                                    ![Current(p)].text = p]
    /\ IF LastOf(p) THEN PublishEnds(p, "done") ELSE pub' = Onward(p, "own", "own")
    /\ UNCHANGED <<product, buildDir, bulletin, rootRecord>>

PublishBreaks(p) ==
    /\ pub[p].pc \notin {"done", "failed"}
    /\ PublishEnds(p, "failed")
    /\ UNCHANGED <<product, buildDir, bulletin, rootRecord, subnames>>

PublishesAgain(p) ==
    /\ pub[p].pc \in {"done", "failed"} /\ pub[p].run < MaxPublishes
    /\ pub' = [pub EXCEPT ![p] = Run("preflight", @.run + 1)]
    /\ UNCHANGED <<product, buildDir, bulletin, rootRecord, subnames>>

PublishNext ==
    \E p \in Publishers :
        \/ PreflightConfig(p) \/ DeployStores(p) \/ VerifyEmbedded(p)
        \/ StoreIcon(p) \/ StoreExecutable(p) \/ WriteRoot(p)
        \/ CheckSubname(p) \/ RegisterOrEnsureResolver(p) \/ WritePair(p)
        \/ PublishBreaks(p) \/ PublishesAgain(p)

PublishSpec == PublishInit /\ [][PublishNext]_PublishVars

-----------------------------------------------------------------------------
\* Every variable of the publish has its type.
PublishTypeOK ==
    /\ product \in PublishStarts /\ buildDir \in Publishers \union {Unpublished}
    /\ rootRecord \in Publishers \union {Unpublished}
    /\ \A k \in ExecSet : subnames[k].owner \in SubOwners
    /\ \A p \in Publishers :
           pub[p].run \in 1..MaxPublishes /\ pub[p].next \in DOMAIN ExecKinds

\* Whatever two publishers of one product interleave and wherever they stop, a
\* subname never shows one publish's archive with another's manifest, all the
\* archives and the icon it leads to are stored, and a publish that ends well leaves
\* no executable a host cannot reach (publishManifest: store, then root, then one
\* batch per executable).
ExecutableIsWhole ==
    /\ rootRecord # Unpublished => Icon(rootRecord) \in bulletin
    /\ \A k \in ExecSet :
        /\ subnames[k].hash.by = subnames[k].text
        /\ subnames[k].hash # NoContent => subnames[k].hash \in bulletin
        /\ \A p \in Publishers : pub[p].pc = "done" => subnames[k].resolver
=============================================================================
