---------------------------- MODULE ProtocolConnect ----------------------------
(***************************************************************************)
(* What DotNS.connect finds out about the contracts before anything is     *)
(* written: the name's TLD, the ABI profile, and, with the first subname   *)
(* write, the shape of setSubnodeOwner. Nothing on the chain says it in    *)
(* one read, the addresses are the same for every generation, and the      *)
(* contracts may be upgraded, one at a time, between any two reads.        *)
(*                                                                         *)
(* A deploy has several connections in one process, one after another: for *)
(* the preflight, the DotNS phase and the manifests. They share the memo   *)
(* of the TLD check.                                                       *)
(***************************************************************************)
EXTENDS Naturals, Sequences

CONSTANTS
    Connections,    \* DotNS instances of one process
    OwnTld,         \* the TLD the registry answers with, once it can
    DefaultTld,     \* DEFAULT_TLD
    ConnectStarts,  \* records of ConnectStart
    MaxAddressReads,  \* REVIVE_ADDRESS_ATTEMPTS
    MaxUpgrades     \* bound: upgrades of a contract

\* A generation, by what its contracts answer: code at POP_RULES, startingPrice or
\* pricingVersion, isPopIssued, tld and tldNode, the tuple of setSubnodeOwner.
Generation ==
    {g \in [deployed : BOOLEAN, priced : BOOLEAN, issues : BOOLEAN, named : BOOLEAN,
            shape : {"legacy", "v07"}] : g.issues => g.priced}

\* registry, controller: DOTNS_PROTOCOL_REGISTRY and DOTNS_POP_CONTROLLER have an
\* address; tld: the configured TLDs; pin: dotnsProtocol, or "none".
ConnectStart ==
    [generation : Generation, registry : BOOLEAN, controller : BOOLEAN,
     tld : {{}, {OwnTld}, {DefaultTld}},
     pin : {"none", "poprules-startingPrice", "v0.5.8-rc1", "v0.6.0"}]

ASSUME ConnectAssumption ==
    /\ OwnTld # DefaultTld /\ ConnectStarts \subseteq ConnectStart
    /\ MaxAddressReads \in Nat \ {0} /\ MaxUpgrades \in Nat

VARIABLES
    config,         \* the start
    generations,    \* what the contracts were and are, oldest first
    verifiedTlds,   \* _tldNodeVerifiedCache, with the generation it was read from
    conn            \* each connection

ConnectVars == <<config, generations, verifiedTlds, conn>>

Unread == "unread"
NoProbe == [code |-> Unread, pricing |-> Unread, starting |-> Unread, issued |-> Unread]
Closed == [pc |-> "closed", reads |-> 0, from |-> 0, tld |-> DefaultTld, tldFrom |-> 0,
           probe |-> NoProbe, profile |-> "none", shape |-> "unknown"]

ConnectBegin(start) ==
    /\ config = start
    /\ generations = <<start.generation>>
    /\ verifiedTlds = {}
    /\ conn = [c \in Connections |-> Closed]

ConnectInit == \E start \in ConnectStarts : ConnectBegin(start)

Latest == Len(generations)
Live == generations[Latest]

\* One contract is upgraded; nothing is downgraded.
Upgrade ==
    /\ Latest <= MaxUpgrades
    /\ \E g \in {[Live EXCEPT !.priced = TRUE], [Live EXCEPT !.named = TRUE],
                 [Live EXCEPT !.issues = Live.priced], [Live EXCEPT !.shape = "v07"]} :
           g # Live /\ generations' = Append(generations, g)
    /\ UNCHANGED <<config, verifiedTlds, conn>>

(***************************************************************************)
(* performViewDryRun: a function the contract lacks reverts or returns     *)
(* nothing, which is an answer; an RPC failure throws.                     *)
(***************************************************************************)

\* Fault: a failed call is taken for a function that is not there.
FailureIsNo(supported) == {IF supported THEN "yes" ELSE "no", "no"}

Answers(supported) == {IF supported THEN "yes" ELSE "no", "throws"}

\* Without an address there is nothing to ask.
RegistryAnswers == IF config.registry THEN Answers(Live.named) ELSE {"no"}

ConnectMoves(c, to) == conn' = [conn EXCEPT ![c] = to]
KeepsContracts == UNCHANGED <<config, generations>>
ConnectFails(c) == ConnectMoves(c, [Closed EXCEPT !.pc = "failed"])

\* deploy() awaits one connection's calls before it makes the next connection.
Alone(c) == \A d \in Connections \ {c} : conn[d].pc \in {"closed", "ready", "failed"}

\* connect: ReviveApi.address through a new client each time.
ReadAddress(c) ==
    /\ conn[c].pc \in {"closed", "address"} /\ Alone(c)
    /\ LET begun == [conn[c] EXCEPT !.reads = @ + 1,
                        !.from = IF conn[c].pc = "closed" THEN Latest ELSE @]
       IN  \/ ConnectMoves(c, [begun EXCEPT !.pc = "tld", !.reads = 0])
           \/ /\ begun.reads < MaxAddressReads
              /\ ConnectMoves(c, [begun EXCEPT !.pc = "address"])
           \/ /\ begun.reads = MaxAddressReads
              /\ ConnectFails(c)
    /\ KeepsContracts /\ UNCHANGED verifiedTlds

\* The configured TLD, or the registry's, or the default if there is none to ask.
ReadTld(c) ==
    /\ conn[c].pc = "tld"
    /\ \/ \E tld \in config.tld :
            ConnectMoves(c, [conn[c] EXCEPT !.pc = "tldNode", !.tld = tld])
       \/ /\ config.tld = {}
          /\ \E answer \in RegistryAnswers :
               IF answer = "throws" THEN ConnectFails(c)
               ELSE ConnectMoves(c, [conn[c] EXCEPT !.pc = "tldNode",
                        !.tld = IF answer = "yes" THEN OwnTld ELSE DefaultTld])
    /\ KeepsContracts /\ UNCHANGED verifiedTlds

Memo(c) == {m \in verifiedTlds : m.tld = conn[c].tld}

\* The check is made once for a registry and a TLD; only a read that was answered is
\* remembered, and without a registry nothing is.
VerifyTld(c) ==
    /\ conn[c].pc = "tldNode"
    /\ \/ \E m \in Memo(c) :
            /\ ConnectMoves(c, [conn[c] EXCEPT !.pc = "probe", !.tldFrom = m.from])
            /\ UNCHANGED verifiedTlds
       \/ /\ Memo(c) = {}
          /\ \E answer \in RegistryAnswers :
               IF answer = "throws" \/ (answer = "yes" /\ conn[c].tld # OwnTld)
                 THEN ConnectFails(c) /\ UNCHANGED verifiedTlds
                 ELSE /\ ConnectMoves(c, [conn[c] EXCEPT !.pc = "probe",
                                                         !.tldFrom = conn[c].from])
                      /\ verifiedTlds' = verifiedTlds \union
                           {m \in {[tld |-> conn[c].tld, from |-> conn[c].from]} :
                                config.registry}
    /\ KeepsContracts

\* detectProtocolVersion sends four reads at once; they are answered in any order.
\* The code read is null rather than failed, isPopIssued null without an address.
Probe(c) ==
    /\ conn[c].pc = "probe"
    /\ \E read \in {r \in DOMAIN NoProbe : conn[c].probe[r] = Unread},
          answer \in {"yes", "no", "null", "throws"} :
        /\ answer \in
             CASE read = "code" -> {IF Live.deployed THEN "yes" ELSE "no", "null"}
               [] read = "pricing" -> Answers(Live.deployed /\ Live.priced)
               [] read = "starting" -> Answers(Live.deployed /\ ~Live.priced)
               [] read = "issued" -> IF config.controller THEN Answers(Live.issues)
                                                          ELSE {"null"}
        /\ IF answer = "throws" THEN ConnectFails(c)
           ELSE ConnectMoves(c, [conn[c] EXCEPT !.probe[read] = answer])
    /\ KeepsContracts /\ UNCHANGED verifiedTlds

classifyProtocolVersion(p) ==
    CASE p.code = "no" -> "unknown"
      [] p.code # "no" /\ p.pricing = "yes" ->
             IF p.issued = "yes" THEN "v0.6.0" ELSE "v0.5.8-rc1"
      [] p.code # "no" /\ p.pricing # "yes" ->
             IF p.starting = "yes" THEN "poprules-startingPrice" ELSE "unknown"

\* The profile is what the probes say. A pin is compared with it and never obeyed.
Classify(c) ==
    /\ conn[c].pc = "probe" /\ \A r \in DOMAIN NoProbe : conn[c].probe[r] # Unread
    /\ LET profile == classifyProtocolVersion(conn[c].probe)
       IN  IF profile = "unknown" \/ config.pin \notin {"none", profile}
           THEN ConnectFails(c)
           ELSE ConnectMoves(c, [conn[c] EXCEPT !.pc = "mapping", !.profile = profile,
                                        !.probe = NoProbe, !.shape = "unknown"])
    /\ KeepsContracts /\ UNCHANGED verifiedTlds

\* The account mapping, which may fail.
ConnectDone(c) ==
    /\ conn[c].pc = "mapping"
    /\ ConnectFails(c) \/ ConnectMoves(c, [conn[c] EXCEPT !.pc = "ready"])
    /\ KeepsContracts /\ UNCHANGED verifiedTlds

(***************************************************************************)
(* resolveSubnodeOwnerShape: the write itself is dry run, in the newer     *)
(* encoding and then in the older one.                                     *)
(***************************************************************************)

\* A contract that knows the encoding accepts the write, rejects it with data, or
\* reverts without any for a reason of its own. One that does not, reverts so.
Leg(shape) == IF Live.shape = shape THEN {"ok", "data", "bare", "throws"}
                                    ELSE {"bare", "throws"}

NewerLeg(c) ==
    /\ conn[c].pc = "ready" /\ conn[c].shape = "unknown" /\ Alone(c)
    /\ \E outcome \in Leg("v07") :
         \/ outcome = "ok" /\ ConnectMoves(c, [conn[c] EXCEPT !.shape = "v07"])
         \/ outcome = "bare" /\ ConnectMoves(c, [conn[c] EXCEPT !.pc = "legacy"])
         \/ outcome \in {"data", "throws"} /\ UNCHANGED conn      \* the write fails
    /\ KeepsContracts /\ UNCHANGED verifiedTlds

\* Fault: a bare revert of the newer encoding is enough.
OlderUnconfirmed(c) ==
    /\ conn[c].pc = "legacy"
    /\ ConnectMoves(c, [conn[c] EXCEPT !.pc = "ready", !.shape = "legacy"])
    /\ KeepsContracts /\ UNCHANGED verifiedTlds

\* The newer encoding reverted without data, which is no proof: the older one has to
\* be found. If neither is, nothing is remembered.
OlderLeg(c) ==
    /\ conn[c].pc = "legacy"
    /\ \E outcome \in Leg("legacy") :
         ConnectMoves(c, [conn[c] EXCEPT !.pc = "ready",
             !.shape = IF outcome \in {"ok", "data"} THEN "legacy" ELSE "unknown"])
    /\ KeepsContracts /\ UNCHANGED verifiedTlds

ConnectStep(c) ==
    \/ ReadAddress(c) \/ ReadTld(c) \/ VerifyTld(c) \/ Probe(c) \/ Classify(c)
    \/ ConnectDone(c) \/ NewerLeg(c) \/ OlderLeg(c)

ConnectNext == Upgrade \/ \E c \in Connections : ConnectStep(c)

ConnectSpec == ConnectInit /\ [][ConnectNext]_ConnectVars

(***************************************************************************)
(* Properties.                                                             *)
(***************************************************************************)
ConnectTypeOK ==
    /\ config \in ConnectStart
    /\ generations \in Seq(Generation) /\ Latest \in 1..(MaxUpgrades + 1)
    /\ verifiedTlds \subseteq [tld : {OwnTld, DefaultTld}, from : 1..Latest]
    /\ \A c \in Connections :
         /\ conn[c].pc \in {"closed", "address", "tld", "tldNode", "probe", "mapping",
                            "ready", "legacy", "failed"}
         /\ conn[c].reads \in 0..MaxAddressReads
         /\ {conn[c].from, conn[c].tldFrom} \subseteq 0..Latest
         /\ conn[c].tld \in {OwnTld, DefaultTld}
         /\ conn[c].shape \in {"unknown", "legacy", "v07"}

ProfileOf(g) == IF ~g.priced THEN "poprules-startingPrice"
                ELSE IF g.issues /\ config.controller THEN "v0.6.0" ELSE "v0.5.8-rc1"

\* What a ready connection concluded was true of the contracts at some time since it
\* began, although it comes from several reads that failed calls, reverts for other
\* reasons and upgrades fall between; the TLD, since the check that is remembered
\* began. So a wrong name, tuple or encoding takes an upgrade behind its back.
ConclusionsHold ==
    \A c \in Connections :
        conn[c].pc = "ready" =>
            LET since(from) == {generations[i] : i \in from..Latest}
            IN  /\ \E g \in since(conn[c].from) : ProfileOf(g) = conn[c].profile
                /\ conn[c].shape # "unknown" =>
                       \E g \in since(conn[c].from) : g.shape = conn[c].shape
                /\ conn[c].tld # OwnTld =>
                       ~config.registry \/ \E g \in since(conn[c].tldFrom) : ~g.named
=============================================================================
