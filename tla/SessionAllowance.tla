---------------------------- MODULE SessionAllowance ----------------------------
(***************************************************************************)
(* The login session of one machine and the two allowances that come with  *)
(* it: the statement-store (SSS) allowance that lets the phone be reached, *)
(* with the marker file that saves reading it, and the Bulletin slot.      *)
(* login, logout and deploy are processes that share the session files.    *)
(*                                                                         *)
(* Time is counted in allowance periods (UTC days); the local clock is the *)
(* chain's.                                                                *)
(***************************************************************************)
EXTENDS Naturals, FiniteSets

CONSTANTS
    Commands,       \* processes
    SssAccounts,    \* statement-signing accounts, one for each pairing
    NoSession,
    Grace,          \* StmtStoreGraceWindow, in periods
    LastDay, MaxCommands   \* bounds

ASSUME AllowanceAssumption ==
    /\ IsFiniteSet(Commands) /\ IsFiniteSet(SssAccounts) /\ NoSession \notin SssAccounts
    /\ {Grace, LastDay, MaxCommands} \subseteq Nat

VARIABLES
    day,
    granted,     \* period in which each account's allowance was claimed last
    session,     \* the session file
    marker,      \* _SssAllowanceCheck.json, as a set of at most one record
    slotKeys,    \* accounts whose slot key is cached
    slotAuth,    \* accounts whose slot is authorised on Bulletin
    command,     \* each process
    commands     \* commands started

AllowanceFiles == <<session, marker, slotKeys>>
AllowanceVars == <<day, granted, AllowanceFiles, slotAuth, command, commands>>

Idle == [cmd |-> "none", pc |-> "idle", account |-> NoSession, read |-> 0]

AllowanceInit ==
    /\ day = 0
    /\ granted = [a \in SssAccounts |-> 0]
    /\ session \in {NoSession} \union SssAccounts
    /\ marker = {} /\ slotAuth = {}
    /\ slotKeys \in {{}, {session} \ {NoSession}}
    /\ command = [c \in Commands |-> Idle]
    /\ commands = 0

\* The key is pruned when the period and its grace are over.
Present(a) == day <= granted[a] + Grace

NextDay ==
    /\ day < LastDay
    /\ day' = day + 1
    /\ UNCHANGED <<granted, AllowanceFiles, slotAuth, command, commands>>

\* The wallet's authorisation of the slot account is included.
SlotAuthorized ==
    /\ slotAuth' = slotAuth \union slotKeys
    /\ slotAuth' # slotAuth
    /\ UNCHANGED <<day, granted, AllowanceFiles, command, commands>>

(***************************************************************************)
(* The commands.                                                           *)
(***************************************************************************)
Moves(c, pc) == command' = [command EXCEPT ![c].pc = pc]
Finishes(c) == command' = [command EXCEPT ![c] = Idle]
KeepsAllowances == UNCHANGED <<day, granted, slotAuth, commands>>
Account(c) == command[c].account

Launch(c, cmd) ==
    /\ command[c].pc = "idle" /\ commands < MaxCommands
    /\ commands' = commands + 1
    /\ command' = [command EXCEPT ![c] =
         IF cmd = "deploy" /\ session = NoSession THEN Idle
         ELSE [Idle EXCEPT !.cmd = cmd, !.account = session,
                 !.pc = IF cmd = "logout" THEN "logout"
                        ELSE IF session # NoSession THEN "preflight" ELSE "pairing"]]
    /\ UNCHANGED <<day, granted, AllowanceFiles, slotAuth>>

\* Fault: the marker is not compared with the account.
AnyMarkerValid(c) == \E m \in marker : day < m.until

\* preflightSssAllowance: the marker of this account, while its period lasts.
MarkerValid(c) == \E m \in marker : m.account = Account(c) /\ day < m.until

MarkerHit(c) ==
    /\ command[c].pc = "preflight" /\ MarkerValid(c)
    /\ Moves(c, "slot")
    /\ KeepsAllowances /\ UNCHANGED AllowanceFiles

\* checkSSSAllowance: present, absent, or no answer, which does not block.
ReadAllowance(c) ==
    /\ command[c].pc = "preflight" /\ ~MarkerValid(c)
    /\ \/ /\ Present(Account(c))
          /\ command' = [command EXCEPT ![c].pc = "present", ![c].read = day]
       \/ ~Present(Account(c)) /\ Moves(c, "absent")
       \/ Moves(c, "slot")
    /\ KeepsAllowances /\ UNCHANGED AllowanceFiles

\* The period is that of the clock when the marker is written; a write may fail.
WriteMarker(c) ==
    /\ command[c].pc = "present"
    /\ \/ marker' = {[account |-> Account(c), until |-> day + 1,
                      wrote |-> day, read |-> command[c].read]}
       \/ UNCHANGED marker
    /\ Moves(c, "slot")
    /\ KeepsAllowances /\ UNCHANGED <<session, slotKeys>>

ClearMarker(c) ==
    /\ command[c].pc = "absent"
    /\ marker' = {}
    /\ Finishes(c)
    /\ KeepsAllowances /\ UNCHANGED <<session, slotKeys>>

\* resolveStorageSigner: a cached slot, or one that the phone is asked for. A session
\* that is gone, an error or a refusal leave the pool. login only looks.
ResolveSlot(c) ==
    /\ command[c].pc = "slot"
    /\ \/ /\ Account(c) \notin slotKeys
          /\ command[c].cmd = "deploy" /\ session = Account(c)
          /\ slotKeys' = slotKeys \union {Account(c)}
          /\ Moves(c, "slotted")
       \/ /\ UNCHANGED slotKeys
          /\ IF command[c].cmd = "login" THEN Finishes(c)
             ELSE Moves(c, IF Account(c) \in slotKeys THEN "slotted" ELSE "pooled")
    /\ KeepsAllowances /\ UNCHANGED <<session, marker>>

DeployEnds(c) ==
    /\ command[c].pc \in {"slotted", "pooled"}
    /\ Finishes(c)
    /\ KeepsAllowances /\ UNCHANGED AllowanceFiles

\* runLogin: the session is saved before anything is allocated.
Pair(c) ==
    /\ command[c].pc = "pairing"
    /\ \/ Finishes(c) /\ UNCHANGED session
       \/ \E a \in SssAccounts :
            /\ session' = a
            /\ command' = [command EXCEPT ![c].pc = "allocating", ![c].account = a]
    /\ KeepsAllowances /\ UNCHANGED <<marker, slotKeys>>

\* requestResourceAllocation for all resources at once, each granted or not; a phone
\* that is silent for ALLOCATION_TIMEOUT_MS leaves the login without them.
Allocate(c) ==
    /\ command[c].pc = "allocating"
    /\ granted' \in {granted, [granted EXCEPT ![Account(c)] = day]}
    /\ \/ /\ slotKeys' = slotKeys \union {Account(c)}
          /\ Moves(c, "confirming")
       \/ Finishes(c) /\ UNCHANGED slotKeys
    /\ UNCHANGED <<day, session, marker, slotAuth, commands>>

\* pollUntilBulletinAuthorized without a ceiling; failed reads do not count; Ctrl-C.
ConfirmSlot(c, cancelled) ==
    /\ command[c].pc = "confirming"
    /\ Account(c) \in slotAuth \/ cancelled
    /\ Finishes(c)
    /\ KeepsAllowances /\ UNCHANGED AllowanceFiles

\* runLogout: the files go even if the peer cannot be told; the marker goes last.
ClearSession(c) ==
    /\ command[c].pc = "logout"
    /\ session' = NoSession /\ slotKeys' = {}
    /\ Moves(c, "absent")
    /\ KeepsAllowances /\ UNCHANGED marker

AllowanceStep(c) ==
    \/ \E cmd \in {"login", "logout", "deploy"} : Launch(c, cmd)
    \/ MarkerHit(c) \/ ReadAllowance(c) \/ WriteMarker(c) \/ ClearMarker(c)
    \/ ResolveSlot(c) \/ DeployEnds(c)
    \/ Pair(c) \/ Allocate(c) \/ ClearSession(c)
    \/ \E cancelled \in BOOLEAN : ConfirmSlot(c, cancelled)

AllowanceNext == NextDay \/ SlotAuthorized \/ \E c \in Commands : AllowanceStep(c)

AllowanceSpec == AllowanceInit /\ [][AllowanceNext]_AllowanceVars

(***************************************************************************)
(* Properties.                                                             *)
(***************************************************************************)
AllowanceTypeOK ==
    /\ day \in 0..LastDay /\ granted \in [SssAccounts -> 0..LastDay]
    /\ session \in {NoSession} \union SssAccounts
    /\ Cardinality(marker) <= 1 /\ \A m \in marker : m.account \in SssAccounts
    /\ slotKeys \union slotAuth \subseteq SssAccounts
    /\ \A c \in Commands : Account(c) \in {NoSession} \union SssAccounts
    /\ commands \in 0..MaxCommands

\* A process that skips the chain read because of the marker has an allowance: logins,
\* logouts and new days in between included. The one exception is a marker for which
\* midnight fell between the read and the write: its period is a day too late.
MarkerHitIsPresent ==
    [][\A c \in Commands :
         (command[c].pc = "preflight" /\ MarkerValid(c) /\ command'[c].pc = "slot")
           => Present(Account(c)) \/ \E m \in marker : m.read < m.wrote]_AllowanceVars
=============================================================================
