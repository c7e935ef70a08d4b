------------------------------ MODULE MCServices ------------------------------
(***************************************************************************)
(* The components around the upload and the registration, for TLC. They    *)
(* share no state that the code changes in two of them, so one behaviour   *)
(* is a behaviour of one part, from one of the starts below, and the       *)
(* others stay where they begin.                                           *)
(***************************************************************************)
EXTENDS RecordWrite, DeployFlow, SignerFunding, StorageAccess, SessionAllowance,
        Personhood, ManifestPublish, PreviousManifest, ProtocolConnect

VARIABLE part

Parts == {"write", "flow", "funding", "storage", "allowance", "person", "publish",
          "manifest", "connect"}

-----------------------------------------------------------------------------
\* RecordWrite: two backends, a record that was written twice before.
TwoOldValues == <<"v1", "v2">>
Views(x, y) == CHOOSE v \in [Backends -> {x, y}] :
                   \A b \in Backends : v[b] = IF b = "b1" THEN x ELSE y
WriteSet ==
    [regime : {{"rerun"}}, kind : {"texts", "pair"}, target : {"v3"},
     views : {Views(1, 2)}]
    \union [regime : {{"sibling"}}, kind : {"contenthash", "text"},
            target : {"v1", "v3"}, views : {Views(2, 1)}]
    \union [regime : {{"reorg"}}, kind : {"resolver", "redirect"}, target : {"v3"},
            views : {Views(2, 2)}]
    \union [regime : {{"phone"}}, kind : {"contenthash"}, target : {"v3"},
            views : {Views(2, 2)}]
WriteBegins(s) == WriteStart(s.regime, s.kind, s.target, "b1", s.views)
OneWrite == CHOOSE s \in WriteSet : TRUE

\* DeployFlow: two deployers of one name, who sign as the worker or by phone.
Both(x, y) == [d \in Deployers |-> IF d = "da" THEN x ELSE y]
FlowSet ==
    {s \in [kind : {"name", "subname"},
            modes : {Both("transfer", "transfer"), Both("transfer", "worker"),
                     Both("session", "worker")},
            owner : {Nobody, Worker, "da"}, authorised : {{}, {Worker}},
            registrable : BOOLEAN, alias : {"proved", "stale"},
            faults : {{"rpc", "fail"}, {"rival", "lost", "fail"}}] :
        /\ s.authorised = {} => s.kind = "subname" /\ s.owner = Nobody
        /\ ~s.registrable => s.kind = "name" /\ s.owner = Nobody
        /\ s.alias = "stale" => s.kind = "name" /\ s.modes = Both("transfer", "worker")}

\* SignerFunding: two signers who draw on the same two sources.
SomeFloor == [s \in Stages |-> IF s = "map" THEN 1 ELSE 2]
SomeTopUp == [s \in Stages |-> IF s = "map" THEN 2 ELSE 3]
FundingSet ==
    {s \in [balance : [Holders -> {0, 1, 4, 8}], mapped : {{}, {"x"}},
            auto : BOOLEAN, testnet : BOOLEAN, spends : BOOLEAN] :
        /\ \A d \in Signers : s.balance[d] = IF s.auto THEN 0 ELSE 1
        /\ s.balance[Alice] = 4 /\ s.balance[Bob] = 8
        /\ ~s.testnet => ~s.spends
        /\ s.mapped = {} <=> s.testnet}

\* StorageAccess: two pool accounts and two backends, one of which may be shut.
Idles == [n \in NodeSet |-> 0]
Queued(a, k) ==
    [x \in StoreAccounts |-> [n \in NodeSet |-> IF x = a /\ n = "n2" THEN k ELSE 0]]
Expiry(p1, p2, own, slot) ==
    [a \in StoreAccounts |-> CASE a = "p1" -> p1 [] a = "p2" -> p2
                               [] a = OwnAccount -> own [] OTHER -> slot]
StorageOf(opts, network, pin, exp, shut, queues, busy, blocks, buffer) ==
    [options |-> opts, network |-> network, pinned |-> pin, expires |-> exp,
     shut |-> shut, next |-> queues, busy |-> busy, blocks |-> blocks,
     buffer |-> buffer, autoAuthorize |-> TRUE, authorizer |-> TRUE]
StorageSet ==
    {StorageOf({}, "testnet", pin, Expiry(1, 1, 0, 0), {"n2"}, Queued("p1", 2), {"p1"}, 0, 0) :
        pin \in {NoAccount, "p1"}}
    \union {StorageOf({}, network, pin, Expiry(e, 2, 0, 0), {}, Queued("p1", 0), {}, 2, 1) :
        network \in {"testnet", "mainnet"}, pin \in {NoAccount, "missing"}, e \in {0, 2}}
    \union {StorageOf({"slot", "session"}, network, NoAccount, Expiry(1, 2, 0, s), {},
                      Queued("p1", 0), {}, 2, 0) :
        network \in {"testnet", "mainnet"}, s \in {0, 2}}
    \union {StorageOf({"mnemonic"}, "testnet", NoAccount, Expiry(2, 2, 2, 0), {"n2"},
                      Queued(OwnAccount, 2), {OwnAccount}, 0, 0),
            StorageOf({"signer"}, "testnet", NoAccount, Expiry(0, 0, 2, 0), {},
                      Queued("p1", 0), {}, 2, 0)}

\* SessionAllowance: two accounts that differ in nothing, so "s1" is the paired one.

\* Personhood: one account, recognised or not, on a chain that is set up or not, with
\* no PGAS, or with just the fee and no deploy.
PersonSet ==
    {s \in [recognized : BOOLEAN, prereqs : BOOLEAN, pgas : {0, 2}, fee : {2},
            deploys : BOOLEAN] :
        /\ s.recognized \/ s.prereqs
        /\ s.deploys <=> s.pgas = 0
        /\ s.pgas = 2 => s.recognized /\ s.prereqs}

\* ManifestPublish: two publishers of a product with an app and a worker, one subname
\* of which is there.
TwoExecutables == <<"app", "worker">>
PublishSet ==
    {[valid |-> {"pa", "pb"}, covered |-> {"app"}, subOwner |-> owners] :
        owners \in {o \in [ExecSet -> SubOwners] :
                       o.app # "foreign" /\ (o.worker = "none" <=> o.app = "signer")}}
    \union {[valid |-> {"pa"}, covered |-> {}, subOwner |-> [k \in ExecSet |-> "none"]]}

\* PreviousManifest: three deploys on one machine, with and without its cache.
ManifestSet ==
    {[shared |-> {}, gateways |-> 0, client |-> TRUE, cached |-> TRUE],
     [shared |-> {"ma", "mb"}, gateways |-> 0, client |-> TRUE, cached |-> TRUE],
     [shared |-> {}, gateways |-> 2, client |-> FALSE, cached |-> FALSE]}

\* ProtocolConnect: generations from the oldest to the newest, the TLD configured or
\* asked for, a pin, and an environment without a registry or with nothing deployed.
Oldest == [deployed |-> TRUE, priced |-> FALSE, issues |-> FALSE, named |-> FALSE,
           shape |-> "legacy"]
Priced == [Oldest EXCEPT !.priced = TRUE, !.named = TRUE]
Newest == [Priced EXCEPT !.issues = TRUE, !.shape = "v07"]
Connects(generation, registry, controller, tld, pin) ==
    [generation |-> generation, registry |-> registry, controller |-> controller,
     tld |-> tld, pin |-> pin]
ConnectSet ==
    {Connects(Oldest, TRUE, TRUE, {}, "none"),
     Connects(Priced, TRUE, TRUE, {OwnTld}, "none"),
     Connects(Newest, TRUE, TRUE, {}, "v0.6.0"),
     Connects(Priced, TRUE, FALSE, {DefaultTld}, "v0.5.8-rc1"),
     Connects([Oldest EXCEPT !.deployed = FALSE], FALSE, FALSE, {DefaultTld}, "none")}

-----------------------------------------------------------------------------
Pinned(p) ==
    CASE p = "write" -> WriteBegins(OneWrite)
      [] p = "flow" -> FlowBegin(CHOOSE s \in FlowSet : TRUE)
      [] p = "funding" -> FundingBegin(CHOOSE s \in FundingSet : TRUE)
      [] p = "storage" -> StorageBegin(CHOOSE s \in StorageSet : TRUE)
      [] p = "allowance" -> AllowanceInit /\ session = NoSession
      [] p = "person" -> PersonBegin(CHOOSE s \in PersonSet : TRUE)
      [] p = "publish" -> PublishBegin(CHOOSE s \in PublishSet : TRUE)
      [] p = "manifest" -> ManifestBegin(CHOOSE s \in ManifestSet : TRUE)
      [] p = "connect" -> ConnectBegin(CHOOSE s \in ConnectSet : TRUE)

\* What is checked of a part's start is also a start of its module, for every value
\* of the constants.
Begins(p) ==
    CASE p = "write" -> (\E s \in WriteSet : WriteBegins(s)) /\ WriteInit
      [] p = "flow" -> FlowInit
      [] p = "funding" -> FundingInit
      [] p = "storage" -> StorageInit
      [] p = "allowance" -> AllowanceInit /\ session # "s2" /\ slotKeys = {}
      [] p = "person" -> PersonInit
      [] p = "publish" -> PublishInit
      [] p = "manifest" -> ManifestInit
      [] p = "connect" -> ConnectInit

ServicesInit ==
    /\ part \in Parts
    /\ \A p \in Parts \ {part} : Pinned(p)
    /\ \A p \in Parts : Begins(p)

ServicesNext ==
    /\ UNCHANGED part
    /\ \/ /\ part = "write" /\ WriteNext
          /\ UNCHANGED <<FlowVars, FundingVars, StorageVars, AllowanceVars,
                         PersonVars, PublishVars, ManifestVars, ConnectVars>>
       \/ /\ part = "flow" /\ FlowNext
          /\ UNCHANGED <<WriteVars, FundingVars, StorageVars, AllowanceVars,
                         PersonVars, PublishVars, ManifestVars, ConnectVars>>
       \/ /\ part = "funding" /\ FundingNext
          /\ UNCHANGED <<WriteVars, FlowVars, StorageVars, AllowanceVars, PersonVars,
                         PublishVars, ManifestVars, ConnectVars>>
       \/ /\ part = "storage" /\ StorageNext
          /\ UNCHANGED <<WriteVars, FlowVars, FundingVars, AllowanceVars, PersonVars,
                         PublishVars, ManifestVars, ConnectVars>>
       \/ /\ part = "allowance" /\ AllowanceNext
          /\ UNCHANGED <<WriteVars, FlowVars, FundingVars, StorageVars, PersonVars,
                         PublishVars, ManifestVars, ConnectVars>>
       \/ /\ part = "person" /\ PersonhoodNext
          /\ UNCHANGED <<WriteVars, FlowVars, FundingVars, StorageVars,
                         AllowanceVars, PublishVars, ManifestVars, ConnectVars>>
       \/ /\ part = "publish" /\ PublishNext
          /\ UNCHANGED <<WriteVars, FlowVars, FundingVars, StorageVars,
                         AllowanceVars, PersonVars, ManifestVars, ConnectVars>>
       \/ /\ part = "manifest" /\ ManifestNext
          /\ UNCHANGED <<WriteVars, FlowVars, FundingVars, StorageVars,
                         AllowanceVars, PersonVars, PublishVars, ConnectVars>>
       \/ /\ part = "connect" /\ ConnectNext
          /\ UNCHANGED <<WriteVars, FlowVars, FundingVars, StorageVars,
                         AllowanceVars, PersonVars, PublishVars, ManifestVars>>

ServicesVars == <<part, WriteVars, FlowVars, FundingVars, StorageVars, AllowanceVars,
                  PersonVars, PublishVars, ManifestVars, ConnectVars>>
ServicesSpec == ServicesInit /\ [][ServicesNext]_ServicesVars

\* Whichever part runs, every variable of it has its type.
ServiceTypes ==
    /\ part = "write" => WriteTypeOK
    /\ part = "flow" => FlowTypeOK
    /\ part = "funding" => FundingTypeOK
    /\ part = "storage" => StorageTypeOK
    /\ part = "allowance" => AllowanceTypeOK
    /\ part = "person" => PersonTypeOK
    /\ part = "publish" => PublishTypeOK
    /\ part = "manifest" => ManifestTypeOK
    /\ part = "connect" => ConnectTypeOK
=============================================================================
