------------------------ MODULE ManifestPublish_proofs ------------------------
(***************************************************************************)
(* For every set of publishers and executables, every number of runs and   *)
(* every way a run may stop: a subname shows one publisher's archive and   *)
(* manifest, all it leads to is stored, and a publish that ends well has   *)
(* set every resolver.                                                     *)
(***************************************************************************)
EXTENDS ManifestPublish, TLAPS

Contents == [exec : ExecSet \union {"icon"}, by : Publishers \union {Unpublished},
             embedded : Publishers \union {Unpublished}]
PublishPcs == {"preflight", "deploy", "verify", "icon", "store", "root", "own",
               "register", "resolver", "pair", "done", "failed"}

Runs == [pc : PublishPcs, run : 1..MaxPublishes, next : DOMAIN ExecKinds,
         cid : [ExecSet -> Contents]]
Subnames == [owner : SubOwners, resolver : BOOLEAN, hash : Contents,
             text : Publishers \union {Unpublished}]

PubTyped == pub \in [Publishers -> Runs]
PublishTyped ==
    /\ product \in PublishStarts
    /\ buildDir \in Publishers \union {Unpublished}
    /\ bulletin \subseteq Contents
    /\ rootRecord \in Publishers \union {Unpublished}
    /\ subnames \in [ExecSet -> Subnames]
    /\ PubTyped

(* A state component has the publisher's own content at executable k.      *)
Has(p, k) == pub[p].cid[k] \in bulletin /\ pub[p].cid[k].by = p

Storing == {"icon", "store"}
Writing == {"root", "own", "register", "resolver", "pair"}

(* The icon is stored before the root, and each archive before its record. *)
StoredOf(p) ==
    /\ pub[p].pc \in {"verify"} \union Storing => \A k \in product.covered : Has(p, k)
    /\ pub[p].pc \in {"store"} \union Writing => Icon(p) \in bulletin
    /\ pub[p].pc = "store" =>
           \A i \in DOMAIN ExecKinds : i < pub[p].next => Has(p, ExecKinds[i])
    /\ pub[p].pc \in Writing => \A k \in ExecSet : Has(p, k)
StoredBeforeWritten == \A p \in Publishers : StoredOf(p)

(* The resolver of an executable is set before its records are.            *)
ResolvedOf(p) ==
    /\ pub[p].pc \in {"preflight", "deploy", "verify", "icon", "root"} =>
           pub[p].next = 1
    /\ pub[p].pc \in Writing \ {"root"} =>
           \A i \in DOMAIN ExecKinds :
               (i < pub[p].next \/ (i = pub[p].next /\ pub[p].pc = "pair")) =>
                   subnames[ExecKinds[i]].resolver
    /\ pub[p].pc = "done" => \A k \in ExecSet : subnames[k].resolver
ResolvedBeforeWritten == \A p \in Publishers : ResolvedOf(p)

PublishInv == PublishTyped /\ StoredBeforeWritten /\ ResolvedBeforeWritten
                 /\ ExecutableIsWhole

(* The places of the list of executables.                                  *)
LEMMA ExecPlaces ==
  /\ DOMAIN ExecKinds = 1..Len(ExecKinds) /\ Len(ExecKinds) \in Nat \ {0}
  /\ \A i \in DOMAIN ExecKinds : ExecKinds[i] \in ExecSet
  /\ \A k \in ExecSet : \E i \in DOMAIN ExecKinds : k = ExecKinds[i]
BY PublishAssumption DEF PublishAssumption, ExecSet

(* Archives and icons are contents.                                        *)
LEMMA ContentTypes ==
  ASSUME PublishTyped, NEW p \in Publishers
  PROVE  /\ NoContent \in Contents /\ Icon(p) \in Contents /\ Icon(p).by = p
         /\ \A k \in ExecSet : Archive(k, p) \in Contents /\ Archive(k, p).by = p
BY DEF PublishTyped, Contents, NoContent, Icon, Archive

(* What a publisher's place in the publish is made of.                     *)
LEMMA Fields ==
  ASSUME PubTyped, NEW p \in Publishers
  PROVE  /\ pub[p] \in Runs /\ pub[p].next \in DOMAIN ExecKinds
         /\ pub[p].run \in 1..MaxPublishes
         /\ pub[p].cid \in [ExecSet -> Contents]
         /\ Current(p) \in ExecSet /\ pub[p].cid[Current(p)] \in Contents
BY ExecPlaces DEF PubTyped, Runs, Current

(* The ways a publisher moves keep it typed.                               *)
LEMMA FreshRun ==
  ASSUME NEW pc \in PublishPcs, NEW n \in 1..MaxPublishes
  PROVE  Run(pc, n) \in Runs
BY ExecPlaces DEF Run, Runs, NoContent, Contents

\* A move of a publisher that changes its control point only keeps the types.
LEMMA GotoTyped ==
  ASSUME PubTyped, NEW p \in Publishers, NEW c \in PublishPcs, Goto(p, c)
  PROVE  PubTyped'
BY DEF PubTyped, Goto, Runs

\* So does the end of a run.
LEMMA EndsTyped ==
  ASSUME PubTyped, NEW p \in Publishers, NEW c \in PublishPcs, PublishEnds(p, c)
  PROVE  PubTyped'
<1>1. Run(c, pub[p].run) \in Runs
  BY Fields, FreshRun
<1>2. pub' = [pub EXCEPT ![p] = Run(c, pub[p].run)]
  BY DEF PublishEnds
<1> QED
  BY <1>1, <1>2 DEF PubTyped

\* The next run of a publisher, or its end, is a run.
LEMMA OnwardTyped ==
  ASSUME PubTyped, NEW p \in Publishers, NEW c \in PublishPcs, NEW over \in PublishPcs
  PROVE  Onward(p, c, over) \in [Publishers -> Runs]
<1>1. ~LastOf(p) => pub[p].next + 1 \in DOMAIN ExecKinds
  BY Fields, ExecPlaces DEF LastOf
<1>2. 1 \in DOMAIN ExecKinds
  BY ExecPlaces
<1> DEFINE c2 == IF LastOf(p) THEN over ELSE c
           n2 == IF LastOf(p) THEN 1 ELSE pub[p].next + 1
<1>3. c2 \in PublishPcs /\ n2 \in DOMAIN ExecKinds
  BY <1>1, <1>2
<1>4. Onward(p, c, over) = [pub EXCEPT ![p].pc = c2, ![p].next = n2]
  BY DEF Onward
<1> HIDE DEF c2, n2
<1> QED
  BY <1>3, <1>4 DEF PubTyped, Runs

(* Every state is typed.                                                   *)
LEMMA PublishTypedInit == PublishInit => PublishTyped
<1> SUFFICES ASSUME NEW s \in PublishStarts, PublishBegin(s) PROVE PublishTyped
  BY DEF PublishInit
<1>1. s.subOwner \in [ExecSet -> SubOwners]
  BY PublishAssumption DEF PublishAssumption, PublishStart
<1>2. NoContent \in Contents
  BY DEF NoContent, Contents
<1>3. subnames \in [ExecSet -> Subnames]
  BY <1>1, <1>2 DEF PublishBegin, Subnames
<1>4. 1 \in 1..MaxPublishes
  BY PublishAssumption DEF PublishAssumption
<1>5. PubTyped
  BY <1>4, FreshRun DEF PublishBegin, PublishPcs, PubTyped
<1> QED
  BY <1>3, <1>5 DEF PublishBegin, PublishTyped

\* Every step of a publisher keeps the types.
LEMMA PublishTypedStep ==
  ASSUME PublishTyped, [PublishNext]_PublishVars
  PROVE  PublishTyped'
<1>0. PubTyped
  BY DEF PublishTyped
<1>1. CASE UNCHANGED PublishVars
  BY <1>1 DEF PublishVars, PublishTyped, PubTyped
<1> SUFFICES ASSUME NEW p \in Publishers,
                    \/ PreflightConfig(p) \/ DeployStores(p) \/ VerifyEmbedded(p)
                    \/ StoreIcon(p) \/ StoreExecutable(p) \/ WriteRoot(p)
                    \/ CheckSubname(p) \/ RegisterOrEnsureResolver(p) \/ WritePair(p)
                    \/ PublishBreaks(p) \/ PublishesAgain(p)
             PROVE  PublishTyped'
  BY <1>1 DEF PublishNext
<1>2. CASE PreflightConfig(p)
  <2>1. PubTyped'
    BY <1>0, <1>2, GotoTyped, EndsTyped DEF PreflightConfig, PublishPcs
  <2> QED
    BY <1>2, <2>1 DEF PreflightConfig, PublishTyped
<1>3. CASE DeployStores(p)
  <2> DEFINE cids == [k \in ExecSet |->
                        IF k \in product.covered THEN Archive(k, p) ELSE NoContent]
  <2>1. product.covered \subseteq ExecSet
    BY PublishAssumption DEF PublishAssumption, PublishTyped, PublishStart
  <2>2. cids \in [ExecSet -> Contents]
    BY ContentTypes
  <2>3. bulletin' \subseteq Contents
    BY <1>3, <2>1, ContentTypes DEF DeployStores, PublishTyped
  <2>4. pub' = [pub EXCEPT ![p].pc = "verify", ![p].cid = cids]
    BY <1>3 DEF DeployStores
  <2> HIDE DEF cids
  <2>5. "verify" \in PublishPcs
    BY DEF PublishPcs
  <2>6. PubTyped'
    BY <1>0, <2>2, <2>4, <2>5 DEF PubTyped, Runs
  <2> QED
    BY <1>3, <2>3, <2>6 DEF DeployStores, PublishTyped
<1>4. CASE VerifyEmbedded(p)
  <2>1. PubTyped'
    BY <1>0, <1>4, GotoTyped, EndsTyped DEF VerifyEmbedded, PublishPcs
  <2> QED
    BY <1>4, <2>1 DEF VerifyEmbedded, PublishTyped
<1>5. CASE StoreIcon(p)
  <2>1. PubTyped'
    BY <1>0, <1>5, GotoTyped DEF StoreIcon, PublishPcs
  <2> QED
    BY <1>5, <2>1, ContentTypes DEF StoreIcon, PublishTyped
<1>6. CASE StoreExecutable(p)
  <2> DEFINE k == Current(p)
             cid == IF k \in product.covered THEN pub[p].cid[k] ELSE Archive(k, p)
             on == Onward(p, "store", "root")
  <2>1. k \in ExecSet /\ cid \in Contents
    BY <1>0, Fields, ContentTypes
  <2>2. on \in [Publishers -> Runs]
    BY <1>0, OnwardTyped DEF PublishPcs
  <2>3. bulletin' = bulletin \union {cid} /\ pub' = [on EXCEPT ![p].cid[k] = cid]
    BY <1>6 DEF StoreExecutable
  <2> HIDE DEF k, cid, on
  <2>4. PubTyped'
    <3>1. on[p] \in Runs /\ [on[p] EXCEPT !.cid[k] = cid] \in Runs
      BY <2>1, <2>2 DEF Runs
    <3>2. pub' = [on EXCEPT ![p] = [on[p] EXCEPT !.cid[k] = cid]]
      BY <2>2, <2>3
    <3> QED
      BY <2>2, <3>1, <3>2 DEF PubTyped
  <2> QED
    BY <1>6, <2>1, <2>3, <2>4 DEF StoreExecutable, PublishTyped
<1>7. CASE WriteRoot(p)
  <2>1. PubTyped'
    BY <1>0, <1>7, GotoTyped DEF WriteRoot, PublishPcs
  <2> QED
    BY <1>7, <2>1 DEF WriteRoot, PublishTyped
<1>8. CASE CheckSubname(p)
  <2>1. subnames[Current(p)].owner \in SubOwners
    BY <1>0, Fields DEF PublishTyped, Subnames
  <2>2. PubTyped'
    BY <1>0, <1>8, <2>1, GotoTyped, EndsTyped DEF CheckSubname, SubOwners, PublishPcs
  <2> QED
    BY <1>8, <2>2 DEF CheckSubname, PublishTyped
<1>9. CASE RegisterOrEnsureResolver(p)
  <2>1. PubTyped'
    BY <1>0, <1>9, GotoTyped DEF RegisterOrEnsureResolver, PublishPcs
  <2>2. subnames' \in [ExecSet -> Subnames]
    BY ZenonT(60), <1>0, <1>9, Fields DEF RegisterOrEnsureResolver, PublishTyped, Subnames, SubOwners
  <2> QED
    BY <1>9, <2>1, <2>2 DEF RegisterOrEnsureResolver, PublishTyped
<1>10. CASE WritePair(p)
  <2>1. PubTyped'
    <3>1. CASE LastOf(p)
      BY <1>0, <1>10, <3>1, EndsTyped DEF WritePair, PublishPcs
    <3>2. CASE ~LastOf(p)
      BY <1>0, <1>10, <3>2, OnwardTyped DEF WritePair, PublishPcs, PubTyped
    <3> QED
      BY <3>1, <3>2
  <2>2. subnames' \in [ExecSet -> Subnames]
    BY <1>0, <1>10, Fields DEF WritePair, PublishTyped, Subnames
  <2> QED
    BY <1>10, <2>1, <2>2 DEF WritePair, PublishTyped
<1>11. CASE PublishBreaks(p)
  <2>1. PubTyped'
    BY <1>0, <1>11, EndsTyped DEF PublishBreaks, PublishPcs
  <2> QED
    BY <1>11, <2>1 DEF PublishBreaks, PublishTyped
<1>12. CASE PublishesAgain(p)
  <2>1. pub[p].run + 1 \in 1..MaxPublishes
    BY <1>0, <1>12, Fields, PublishAssumption DEF PublishAssumption, PublishesAgain
  <2>2. PubTyped'
    BY <1>0, <1>12, <2>1, FreshRun DEF PublishesAgain, PublishPcs, PubTyped
  <2> QED
    BY <1>12, <2>2 DEF PublishesAgain, PublishTyped
<1> QED
  BY <1>2, <1>3, <1>4, <1>5, <1>6, <1>7, <1>8, <1>9, <1>10, <1>11, <1>12

(* Typing holds in every behaviour, whoever publishes what and stops where. *)
THEOREM PublishTypeCorrect == PublishSpec => []PublishTyped
BY PublishTypedInit, PublishTypedStep, PTL DEF PublishSpec

(* Initially nothing is written or promised.                               *)
LEMMA PublishInvInit == PublishInit => PublishInv
<1> SUFFICES ASSUME PublishInit PROVE PublishInv
  OBVIOUS
<1>1. PublishTyped
  BY PublishTypedInit
<1>2. PICK s \in PublishStarts : PublishBegin(s)
  BY DEF PublishInit
<1>3. \A p \in Publishers : pub[p].pc = "preflight" /\ pub[p].next = 1
  BY <1>2 DEF PublishBegin, Run
<1>4. StoredBeforeWritten /\ ResolvedBeforeWritten
  BY <1>3 DEF StoredBeforeWritten, ResolvedBeforeWritten, StoredOf, ResolvedOf,
              Storing, Writing
<1>5. ExecutableIsWhole
  BY <1>2, <1>3 DEF PublishBegin, ExecutableIsWhole, NoContent
<1> QED
  BY <1>1, <1>4, <1>5 DEF PublishInv

(* What is stored stays stored, and a resolver that is set stays set.      *)
LEMMA Monotone ==
  ASSUME PublishTyped, [PublishNext]_PublishVars
  PROVE  /\ bulletin \subseteq bulletin' /\ product' = product
         /\ \A k \in ExecSet : subnames[k].resolver => subnames'[k].resolver
<1>1. CASE UNCHANGED PublishVars
  BY <1>1 DEF PublishVars
<1>2. ASSUME NEW p \in Publishers,
             \/ PreflightConfig(p) \/ DeployStores(p) \/ VerifyEmbedded(p)
             \/ StoreIcon(p) \/ StoreExecutable(p) \/ WriteRoot(p)
             \/ CheckSubname(p) \/ PublishBreaks(p) \/ PublishesAgain(p)
      PROVE  /\ bulletin \subseteq bulletin' /\ product' = product
             /\ subnames' = subnames
  BY <1>2 DEF PreflightConfig, DeployStores, VerifyEmbedded, StoreIcon, StoreExecutable,
              WriteRoot, CheckSubname, PublishBreaks, PublishesAgain
<1>3. ASSUME NEW p \in Publishers, RegisterOrEnsureResolver(p) \/ WritePair(p)
      PROVE  /\ bulletin' = bulletin /\ product' = product
             /\ \A k \in ExecSet : subnames[k].resolver => subnames'[k].resolver
  BY <1>3 DEF RegisterOrEnsureResolver, WritePair, PublishTyped, Subnames
<1> QED
  BY <1>1, <1>2, <1>3 DEF PublishNext

(* A publisher that does not move keeps what it has.                       *)
LEMMA OthersKeep ==
  ASSUME PublishInv, [PublishNext]_PublishVars, NEW q \in Publishers, pub'[q] = pub[q]
  PROVE  /\ \A k \in ExecSet : Has(q, k) => Has(q, k)'
         /\ StoredOf(q)' /\ ResolvedOf(q)'
<1>1. /\ \A k \in ExecSet : Has(q, k) => Has(q, k)'
      /\ Icon(q) \in bulletin => Icon(q)' \in bulletin'
  BY Monotone DEF PublishInv, Has, Icon
<1>2. product.covered \subseteq ExecSet
  BY PublishAssumption DEF PublishAssumption, PublishInv, PublishTyped, PublishStart
<1>3. StoredOf(q) /\ ResolvedOf(q)
  BY DEF PublishInv, StoredBeforeWritten, ResolvedBeforeWritten
<1>4. StoredOf(q)'
  BY <1>1, <1>2, <1>3, Monotone, ExecPlaces DEF StoredOf, PublishInv
<1>5. ResolvedOf(q)'
  BY <1>3, Monotone, ExecPlaces DEF ResolvedOf, PublishInv
<1> QED
  BY <1>1, <1>4, <1>5

(* Only the publisher that moves moves.                                    *)
LEMMA OthersStay ==
  ASSUME PublishTyped, NEW p \in Publishers, NEW q \in Publishers \ {p},
         \/ PreflightConfig(p) \/ DeployStores(p) \/ VerifyEmbedded(p)
         \/ StoreIcon(p) \/ StoreExecutable(p) \/ WriteRoot(p)
         \/ CheckSubname(p) \/ RegisterOrEnsureResolver(p) \/ WritePair(p)
         \/ PublishBreaks(p) \/ PublishesAgain(p)
  PROVE  pub'[q] = pub[q]
<1> USE DEF PublishTyped, PubTyped, Goto, PublishEnds
<1>1. CASE CheckSubname(p)
  <2>1. subnames[Current(p)].owner \in SubOwners
    BY Fields DEF Subnames
  <2> QED
    BY <1>1, <2>1 DEF CheckSubname, SubOwners
<1>2. CASE StoreExecutable(p) \/ WritePair(p)
  BY <1>2 DEF StoreExecutable, WritePair, Onward
<1>3. CASE DeployStores(p) \/ VerifyEmbedded(p)
  BY <1>3 DEF DeployStores, VerifyEmbedded
<1>4. CASE PublishBreaks(p) \/ PublishesAgain(p)
  BY <1>4 DEF PublishBreaks, PublishesAgain
<1>5. CASE PreflightConfig(p) \/ StoreIcon(p)
  BY <1>5 DEF PreflightConfig, StoreIcon
<1>6. CASE WriteRoot(p) \/ RegisterOrEnsureResolver(p)
  BY <1>6 DEF WriteRoot, RegisterOrEnsureResolver
<1> QED
  BY <1>1, <1>2, <1>3, <1>4, <1>5, <1>6

(* A publisher that starts afresh, fails or is done promises little.       *)
LEMMA StartsAfresh ==
  ASSUME PublishTyped, NEW p \in Publishers, NEW pc \in {"preflight", "failed", "done"},
         NEW n, pub' = [pub EXCEPT ![p] = Run(pc, n)],
         pc = "done" => \A k \in ExecSet : subnames'[k].resolver
  PROVE  StoredOf(p)' /\ ResolvedOf(p)'
<1>1. pub'[p].pc = pc /\ pub'[p].next = 1
  BY DEF PublishTyped, PubTyped, Run
<1> QED
  BY <1>1 DEF StoredOf, ResolvedOf, Storing, Writing

(* A publisher that goes on where it is keeps what it has.                 *)
LEMMA Stays ==
  ASSUME PublishTyped, NEW p \in Publishers, NEW c \in PublishPcs, Goto(p, c)
  PROVE  pub'[p] = [pub[p] EXCEPT !.pc = c] /\ pub'[p].pc = c
         /\ pub'[p].next = pub[p].next /\ pub'[p].cid = pub[p].cid
BY DEF PublishTyped, PubTyped, Runs, Goto

(* What the mover promises after its step.                                 *)
LEMMA MoverStep ==
  ASSUME PublishInv, NEW p \in Publishers,
         \/ PreflightConfig(p) \/ DeployStores(p) \/ VerifyEmbedded(p)
         \/ StoreIcon(p) \/ StoreExecutable(p) \/ WriteRoot(p)
         \/ CheckSubname(p) \/ RegisterOrEnsureResolver(p) \/ WritePair(p)
         \/ PublishBreaks(p) \/ PublishesAgain(p)
  PROVE  StoredOf(p)' /\ ResolvedOf(p)'
<1>0. PublishTyped /\ PubTyped /\ StoredOf(p) /\ ResolvedOf(p)
  BY DEF PublishInv, PublishTyped, StoredBeforeWritten, ResolvedBeforeWritten
<1>m. /\ bulletin \subseteq bulletin' /\ product' = product
      /\ \A k \in ExecSet : subnames[k].resolver => subnames'[k].resolver
  BY <1>0, Monotone DEF PublishNext
<1>c. product.covered \subseteq ExecSet
  BY <1>0, PublishAssumption DEF PublishAssumption, PublishTyped, PublishStart
<1> USE DEF Storing, Writing
<1>1. CASE PreflightConfig(p)
  <2>1. CASE p \in product.valid
    BY <1>0, <1>1, <2>1, Stays DEF PreflightConfig, PublishPcs, StoredOf, ResolvedOf
  <2>2. CASE p \notin product.valid
    <3>1. pub' = [pub EXCEPT ![p] = Run("failed", pub[p].run)]
      BY <1>1, <2>2 DEF PreflightConfig, PublishEnds
    <3> QED
      BY <1>0, <3>1, StartsAfresh
  <2> QED
    BY <2>1, <2>2
<1>2. CASE DeployStores(p)
  <2>1. /\ pub'[p].pc = "verify" /\ pub'[p].next = pub[p].next
        /\ \A k \in product.covered : pub'[p].cid[k] = Archive(k, p)
    BY <1>0, <1>2, <1>c DEF DeployStores, PubTyped, Runs
  <2>2. \A k \in product.covered : Archive(k, p) \in bulletin' /\ Archive(k, p).by = p
    BY <1>0, <1>2, <1>c, ContentTypes DEF DeployStores
  <2>3. pub[p].pc = "deploy"
    BY <1>2 DEF DeployStores
  <2> QED
    BY <1>0, <1>m, <2>1, <2>2, <2>3 DEF StoredOf, ResolvedOf, Has
<1>3. CASE VerifyEmbedded(p)
  <2>1. CASE buildDir = p
    <3>1. pub'[p].pc = "icon" /\ pub'[p].next = 1 /\ pub'[p].cid = pub[p].cid
      BY <1>0, <1>3, <2>1, Stays DEF VerifyEmbedded, PublishPcs, ResolvedOf
    <3>2. pub[p].pc = "verify"
      BY <1>3 DEF VerifyEmbedded
    <3> QED
      BY <1>0, <1>c, <1>m, <3>1, <3>2 DEF StoredOf, ResolvedOf, Has
  <2>2. CASE buildDir # p
    <3>1. pub' = [pub EXCEPT ![p] = Run("failed", pub[p].run)]
      BY <1>3, <2>2 DEF VerifyEmbedded, PublishEnds
    <3> QED
      BY <1>0, <3>1, StartsAfresh
  <2> QED
    BY <2>1, <2>2
<1>4. CASE StoreIcon(p)
  <2>1. Icon(p)' \in bulletin'
    BY <1>4 DEF StoreIcon, Icon
  <2>2. pub'[p].pc = "store" /\ pub'[p].next = 1 /\ pub'[p].cid = pub[p].cid
    BY <1>0, <1>4, Stays DEF StoreIcon, PublishPcs, ResolvedOf
  <2>3. \A i \in DOMAIN ExecKinds : ~(i < 1)
    BY ExecPlaces
  <2> QED
    BY <1>0, <1>4, <1>m, <2>1, <2>2, <2>3 DEF StoreIcon, StoredOf, ResolvedOf, Has
<1>5. CASE StoreExecutable(p)
  <2> DEFINE k == Current(p)
             cid == IF k \in product.covered THEN pub[p].cid[k] ELSE Archive(k, p)
  <2>1. k \in ExecSet /\ cid.by = p /\ cid \in bulletin'
    BY <1>0, <1>5, Fields, ContentTypes DEF StoreExecutable, StoredOf, Has
  <2>2. /\ pub'[p].cid = [pub[p].cid EXCEPT ![k] = cid]
        /\ pub'[p].pc = IF LastOf(p) THEN "root" ELSE "store"
        /\ pub'[p].next = IF LastOf(p) THEN 1 ELSE pub[p].next + 1
    BY <1>0, <1>5 DEF StoreExecutable, Onward, PubTyped, Runs
  <2>3. pub[p].cid \in [ExecSet -> Contents] /\ pub[p].next \in DOMAIN ExecKinds
        /\ k = ExecKinds[pub[p].next]
    BY <1>0, Fields DEF Current
  <2>4. \A j \in ExecSet : (j = k \/ Has(p, j)) => Has(p, j)'
    BY <1>m, <2>1, <2>2, <2>3 DEF Has
  <2>5. \A i \in DOMAIN ExecKinds : i <= pub[p].next => Has(p, ExecKinds[i])'
    <3> SUFFICES ASSUME NEW i \in DOMAIN ExecKinds, i <= pub[p].next
                 PROVE  Has(p, ExecKinds[i])'
      OBVIOUS
    <3>1. i < pub[p].next \/ i = pub[p].next
      BY <2>3, ExecPlaces
    <3>2. i < pub[p].next => Has(p, ExecKinds[i])
      BY <1>0, <1>5 DEF StoredOf, StoreExecutable
    <3> QED
      BY <2>3, <2>4, <3>1, <3>2, ExecPlaces
  <2>6. Icon(p)' \in bulletin'
    BY <1>0, <1>5, <1>m DEF StoreExecutable, StoredOf, Icon
  <2> HIDE DEF k, cid
  <2>7. CASE LastOf(p)
    <3>1. \A j \in ExecSet : Has(p, j)'
      <4> SUFFICES ASSUME NEW j \in ExecSet PROVE Has(p, j)'
        OBVIOUS
      <4>1. PICK i \in DOMAIN ExecKinds : j = ExecKinds[i]
        BY ExecPlaces
      <4>2. i <= pub[p].next
        BY <2>7, ExecPlaces DEF LastOf
      <4> QED
        BY <2>5, <4>1, <4>2
    <3> QED
      BY <2>2, <2>6, <2>7, <3>1 DEF StoredOf, ResolvedOf
  <2>8. CASE ~LastOf(p)
    <3>1. \A i \in DOMAIN ExecKinds : i < pub'[p].next => i <= pub[p].next
      BY <2>2, <2>3, <2>8, ExecPlaces
    <3>2. pub'[p].pc = "store"
      BY <2>2, <2>8
    <3>3. \A i \in DOMAIN ExecKinds : i < pub'[p].next => Has(p, ExecKinds[i])'
      BY <2>5, <3>1
    <3>4. \A j \in product.covered : Has(p, j)
      BY <1>0, <1>5 DEF StoreExecutable, StoredOf
    <3>5. \A j \in product'.covered : Has(p, j)'
      BY <1>c, <1>m, <2>4, <3>4
    <3> QED
      BY <2>6, <3>2, <3>3, <3>5 DEF StoredOf, ResolvedOf
  <2> QED
    BY <2>7, <2>8
<1>6. CASE WriteRoot(p)
  <2>1. pub'[p].pc = "own" /\ pub'[p].next = 1 /\ pub'[p].cid = pub[p].cid
    BY <1>0, <1>6, Stays DEF WriteRoot, PublishPcs, ResolvedOf
  <2>2. \A i \in DOMAIN ExecKinds : ~(i < 1)
    BY ExecPlaces
  <2> QED
    BY <1>0, <1>6, <1>m, <2>1, <2>2 DEF WriteRoot, StoredOf, ResolvedOf, Has, Icon
<1>7. CASE CheckSubname(p)
  <2>1. subnames[Current(p)].owner \in SubOwners
    BY <1>0, Fields DEF PublishTyped, Subnames
  <2>2. CASE subnames[Current(p)].owner = "foreign"
    <3>1. pub' = [pub EXCEPT ![p] = Run("failed", pub[p].run)]
      BY <1>7, <2>2 DEF CheckSubname, PublishEnds
    <3> QED
      BY <1>0, <3>1, StartsAfresh
  <2>3. CASE subnames[Current(p)].owner # "foreign"
    <3>1. Goto(p, "register") \/ Goto(p, "resolver")
      BY <1>7, <2>1, <2>3 DEF CheckSubname, SubOwners
    <3>2. /\ pub'[p].pc \in {"register", "resolver"}
          /\ pub'[p].next = pub[p].next /\ pub'[p].cid = pub[p].cid
      BY <1>0, <3>1, Stays DEF PublishPcs
    <3>3. pub[p].pc = "own"
      BY <1>7 DEF CheckSubname
    <3> QED
      BY <1>0, <1>m, <3>2, <3>3, ExecPlaces DEF StoredOf, ResolvedOf, Has, Icon
  <2> QED
    BY <2>2, <2>3
<1>8. CASE RegisterOrEnsureResolver(p)
  <2>1. pub'[p].pc = "pair" /\ pub'[p].next = pub[p].next /\ pub'[p].cid = pub[p].cid
    BY <1>0, <1>8, Stays DEF RegisterOrEnsureResolver, PublishPcs
  <2>2. subnames'[Current(p)].resolver
    BY <1>0, <1>8, Fields DEF RegisterOrEnsureResolver, PublishTyped, Subnames
  <2>3. StoredOf(p)'
    BY <1>0, <1>8, <1>m, <2>1 DEF RegisterOrEnsureResolver, StoredOf, Has, Icon
  <2>4. \A i \in DOMAIN ExecKinds :
            i < pub[p].next \/ i = pub[p].next => subnames'[ExecKinds[i]].resolver
    BY <1>0, <1>8, <1>m, <2>2, ExecPlaces
       DEF RegisterOrEnsureResolver, ResolvedOf, Current
  <2> QED
    BY <2>1, <2>3, <2>4 DEF ResolvedOf
<1>9. CASE WritePair(p)
  <2>1. \A i \in DOMAIN ExecKinds : i <= pub[p].next => subnames'[ExecKinds[i]].resolver
    <3> SUFFICES ASSUME NEW i \in DOMAIN ExecKinds, i <= pub[p].next
                 PROVE  subnames'[ExecKinds[i]].resolver
      OBVIOUS
    <3>1. i < pub[p].next \/ i = pub[p].next
      BY <1>0, Fields, ExecPlaces
    <3> QED
      BY <1>0, <1>9, <1>m, <3>1, ExecPlaces DEF WritePair, ResolvedOf
  <2>2. CASE LastOf(p)
    <3>1. pub' = [pub EXCEPT ![p] = Run("done", pub[p].run)]
      BY <1>9, <2>2 DEF WritePair, PublishEnds
    <3>2. \A k \in ExecSet : subnames'[k].resolver
      BY <2>1, <2>2, ExecPlaces DEF LastOf
    <3> QED
      BY <1>0, <3>1, <3>2, StartsAfresh
  <2>3. CASE ~LastOf(p)
    <3>1. /\ pub'[p].pc = "own" /\ pub'[p].next = pub[p].next + 1
          /\ pub'[p].cid = pub[p].cid
      BY <1>0, <1>9, <2>3 DEF WritePair, Onward, PubTyped, Runs
    <3>2. \A i \in DOMAIN ExecKinds : i < pub'[p].next => i <= pub[p].next
      BY <1>0, <3>1, Fields, ExecPlaces
    <3>3. StoredOf(p)'
      BY <1>0, <1>9, <1>m, <3>1 DEF WritePair, StoredOf, Has, Icon
    <3> QED
      BY <2>1, <3>1, <3>2, <3>3 DEF ResolvedOf
  <2> QED
    BY <2>2, <2>3
<1>10. CASE PublishBreaks(p)
  BY <1>0, <1>10, StartsAfresh DEF PublishBreaks, PublishEnds
<1>11. CASE PublishesAgain(p)
  BY <1>0, <1>11, StartsAfresh DEF PublishesAgain
<1> QED
  BY <1>1, <1>2, <1>3, <1>4, <1>5, <1>6, <1>7, <1>8, <1>9, <1>10, <1>11

(* What subnames and the root show, after any step.                        *)
LEMMA WholeStep ==
  ASSUME PublishInv, NEW p \in Publishers, ResolvedBeforeWritten',
         \/ PreflightConfig(p) \/ DeployStores(p) \/ VerifyEmbedded(p)
         \/ StoreIcon(p) \/ StoreExecutable(p) \/ WriteRoot(p)
         \/ CheckSubname(p) \/ RegisterOrEnsureResolver(p) \/ WritePair(p)
         \/ PublishBreaks(p) \/ PublishesAgain(p)
  PROVE  ExecutableIsWhole'
<1>0. PublishTyped /\ PubTyped /\ StoredOf(p) /\ ExecutableIsWhole
  BY DEF PublishInv, PublishTyped, StoredBeforeWritten
<1>m. bulletin \subseteq bulletin'
  BY <1>0, Monotone DEF PublishNext
<1>d. \A k \in ExecSet : \A q \in Publishers :
         pub'[q].pc = "done" => subnames'[k].resolver
  BY DEF ResolvedBeforeWritten, ResolvedOf
<1>1. rootRecord' # Unpublished => Icon(rootRecord)' \in bulletin'
  <2>1. CASE WriteRoot(p)
    BY <1>0, <2>1 DEF WriteRoot, StoredOf, Writing, Icon
  <2>2. CASE ~WriteRoot(p)
    <3>1. rootRecord' = rootRecord
      BY <2>2 DEF PreflightConfig, DeployStores, VerifyEmbedded, StoreIcon,
                  StoreExecutable, CheckSubname, RegisterOrEnsureResolver, WritePair,
                  PublishBreaks, PublishesAgain
    <3> QED
      BY <1>0, <1>m, <3>1 DEF ExecutableIsWhole, Icon
  <2> QED
    BY <2>1, <2>2
<1>2. \A k \in ExecSet : /\ subnames'[k].hash.by = subnames'[k].text
                         /\ subnames'[k].hash # NoContent => subnames'[k].hash \in bulletin'
  <2>1. CASE WritePair(p)
    <3>1. Current(p) \in ExecSet /\ Has(p, Current(p))
      BY <1>0, <2>1, Fields DEF WritePair, StoredOf, Writing
    <3>2. \A k \in ExecSet :
             IF k = Current(p)
               THEN subnames'[k].hash = pub[p].cid[Current(p)] /\ subnames'[k].text = p
               ELSE subnames'[k] = subnames[k]
      BY <1>0, <2>1, <3>1 DEF WritePair, PublishTyped, Subnames
    <3> QED
      BY <1>0, <1>m, <3>1, <3>2 DEF ExecutableIsWhole, Has
  <2>2. CASE RegisterOrEnsureResolver(p)
    <3>1. \A k \in ExecSet : /\ subnames'[k].hash = subnames[k].hash
                             /\ subnames'[k].text = subnames[k].text
      BY <1>0, <2>2, Fields DEF RegisterOrEnsureResolver, PublishTyped, Subnames
    <3> QED
      BY <1>0, <1>m, <3>1 DEF ExecutableIsWhole
  <2>3. CASE ~WritePair(p) /\ ~RegisterOrEnsureResolver(p)
    <3>1. subnames' = subnames
      BY <2>3 DEF PreflightConfig, DeployStores, VerifyEmbedded, StoreIcon, StoreExecutable,
                  WriteRoot, CheckSubname, PublishBreaks, PublishesAgain
    <3> QED
      BY <1>0, <1>m, <3>1 DEF ExecutableIsWhole
  <2> QED
    BY <2>1, <2>2, <2>3
<1>3. ASSUME NEW k \in ExecSet
      PROVE  (/\ subnames[k].hash.by = subnames[k].text
              /\ subnames[k].hash # NoContent => subnames[k].hash \in bulletin
              /\ \A q \in Publishers : pub[q].pc = "done" => subnames[k].resolver)'
  <2>1. (subnames[k].hash.by = subnames[k].text)'
    BY <1>2
  <2>2. (subnames[k].hash # NoContent => subnames[k].hash \in bulletin)'
    BY <1>2 DEF NoContent
  <2>3. (\A q \in Publishers : pub[q].pc = "done" => subnames[k].resolver)'
    BY <1>d
  <2> QED
    BY <2>1, <2>2, <2>3
<1> QED
  BY <1>1, <1>3 DEF ExecutableIsWhole

(* No step breaks the invariant.                                           *)
LEMMA PublishInvStep ==
  ASSUME PublishInv, [PublishNext]_PublishVars
  PROVE  PublishInv'
<1>1. PublishTyped'
  BY PublishTypedStep DEF PublishInv
<1>2. CASE UNCHANGED PublishVars
  <2>1. StoredBeforeWritten' /\ ResolvedBeforeWritten'
    BY <1>2, OthersKeep DEF PublishVars, StoredBeforeWritten, ResolvedBeforeWritten
  <2>2. ExecutableIsWhole'
    BY <1>2 DEF PublishInv, PublishVars, ExecutableIsWhole, Icon, NoContent
  <2> QED
    BY <1>1, <2>1, <2>2 DEF PublishInv
<1>3. ASSUME NEW p \in Publishers,
             \/ PreflightConfig(p) \/ DeployStores(p) \/ VerifyEmbedded(p)
             \/ StoreIcon(p) \/ StoreExecutable(p) \/ WriteRoot(p)
             \/ CheckSubname(p) \/ RegisterOrEnsureResolver(p) \/ WritePair(p)
             \/ PublishBreaks(p) \/ PublishesAgain(p)
      PROVE  PublishInv'
  <2>1. StoredOf(p)' /\ ResolvedOf(p)'
    BY <1>3, MoverStep
  <2>2. ASSUME NEW q \in Publishers \ {p} PROVE StoredOf(q)' /\ ResolvedOf(q)'
    <3>1. pub'[q] = pub[q]
      BY <1>3, OthersStay DEF PublishInv
    <3> QED
      BY <3>1, OthersKeep
  <2>3. StoredBeforeWritten' /\ ResolvedBeforeWritten'
    BY <2>1, <2>2 DEF StoredBeforeWritten, ResolvedBeforeWritten
  <2>4. ExecutableIsWhole'
    BY <1>3, <2>3, WholeStep
  <2> QED
    BY <1>1, <2>3, <2>4 DEF PublishInv
<1> QED
  BY <1>2, <1>3 DEF PublishNext

(* What is shown was stored, and each archive comes with its own manifest: *)
(* the inductive invariant.                                                *)
THEOREM PublishInvariant == PublishSpec => []PublishInv
BY PublishInvInit, PublishInvStep, PTL DEF PublishSpec

(* publishManifest: a subname shows one publisher's archive and manifest,  *)
(* all it leads to is stored, and a publish that ends well has set every   *)
(* resolver, for any publishers and executables.                           *)
THEOREM ExecutableIsWholeHolds == PublishSpec => []ExecutableIsWhole
<1>1. PublishInv => ExecutableIsWhole
  BY DEF PublishInv
<1> QED
  BY <1>1, PublishInvariant, PTL
=============================================================================
