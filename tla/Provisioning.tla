------------------------------ MODULE Provisioning ------------------------------
(***************************************************************************)
(* Starting a JAM Computer: ComputerService.provision (src/jam/computer.ts) *)
(* driven by the phases of App.tsx, in several tabs of one browser.        *)
(*                                                                         *)
(* The tabs share localStorage, which remembers the service id of each     *)
(* account, and the chain, on which anyone may initialize a service that   *)
(* has no owner yet.  Every await of provision is a step of its own; an    *)
(* await fails when the network does.  A reload forgets everything a tab   *)
(* holds in memory, the connected account included.                        *)
(*                                                                         *)
(* Of the on-chain profile only its owner matters here.  The artifact and  *)
(* its code hash are fixed, so an id that was deployed passes that part of *)
(* verify, and boot and connecting are one with the login screen.          *)
(***************************************************************************)
EXTENDS Naturals

CONSTANTS
  Tabs,
  Users,        \* accounts this browser may connect
  Foreign,      \* accounts that act from elsewhere
  None,
  MaxServices,  \* deployments the chain has room for
  MayFail       \* whether an RPC or the storage may fail

VARIABLES
  deployed,     \* services 1..deployed exist on chain
  owners,       \* the owner in each service's profile
  cache,        \* localStorage: the service id of each account
  tabs,         \* where each tab is, and what it holds in memory
  inbox,        \* initialize actions the chain has not dealt with
  inDoubt       \* history: the tabs that took the account's own service for
                \* another's, or whose reading of the cache another has replaced

provVars == <<deployed, owners, cache, tabs, inbox, inDoubt>>

Services == 1..MaxServices
Deployed == 1..deployed

ASSUME BoundAssumption == MaxServices \in Nat /\ MayFail \in BOOLEAN
ASSUME NobodyAssumption == None \notin Services \cup Users \cup Foreign

\* Where provision is between two awaits, and the phases around it.
Busy == {"network", "check", "create", "profile", "waiting", "verify", "filesystem"}
Tab == [pc: Busy \cup {"login", "account", "desktop", "error"},
        account: Users \cup {None},
        service: Services \cup {None},
        listing: Services \cup {None}]
Closed == [pc |-> "login", account |-> None, service |-> None, listing |-> None]

ProvTypeOK ==
  /\ deployed \in 0..MaxServices
  /\ owners \in [Services -> Users \cup Foreign \cup {None}]
  /\ cache \in [Users -> Deployed \cup {None}]
  /\ tabs \in [Tabs -> Tab]
  /\ \A t \in Tabs :
       /\ tabs[t].pc # "login" => tabs[t].account # None
       /\ tabs[t].service \in Deployed \cup {None}
       /\ tabs[t].pc \in {"check", "profile", "waiting", "verify", "filesystem",
                          "desktop"} => tabs[t].service # None
  /\ inbox \subseteq [tab: Tabs, service: Deployed, account: Users]
  /\ inDoubt \subseteq Tabs

ProvInit ==
  /\ deployed = 0
  /\ owners = [s \in Services |-> None]
  /\ cache = [a \in Users |-> None]
  /\ tabs = [t \in Tabs |-> Closed]
  /\ inbox = {}
  /\ inDoubt = {}

-----------------------------------------------------------------------------
(* Signing in. *)

Goto(t, pc) == tabs' = [tabs EXCEPT ![t].pc = pc]

\* Writing and clearing the cached id.  Storage that refuses is ignored.
Remember(a, s) == cache' = [cache EXCEPT ![a] = s] \/ (MayFail /\ UNCHANGED cache)
Forget(a) == cache' = [cache EXCEPT ![a] = None] \/ (MayFail /\ UNCHANGED cache)

Connect(t, a) ==
  /\ tabs[t].pc = "login"
  /\ tabs' = [tabs EXCEPT ![t].pc = "account", ![t].account = a]
  /\ UNCHANGED <<deployed, owners, cache, inbox, inDoubt>>

\* "Continue", and "Try again" on the error screen: provision from its start.
Provision(t) ==
  /\ tabs[t].pc \in {"account", "error"}
  /\ Goto(t, "network")
  /\ UNCHANGED <<deployed, owners, cache, inbox, inDoubt>>

Reload(t) ==
  /\ tabs[t].pc # "login"
  /\ tabs' = [tabs EXCEPT ![t] = Closed]
  /\ inDoubt' = inDoubt \ {t}
  /\ UNCHANGED <<deployed, owners, cache, inbox>>

-----------------------------------------------------------------------------
(* provision, from one await to the next. *)

IsOwn(t) == owners[tabs[t].service] = tabs[t].account

\* Mutant: an account with no cached id is treated like the others.
ReadCacheBlindly(t) ==
  /\ tabs[t].pc = "network"
  /\ tabs' = [tabs EXCEPT ![t].service = cache[tabs[t].account], ![t].pc = "check"]
  /\ UNCHANGED <<deployed, owners, cache, inbox, inDoubt>>

\* The cached id is read in the step that follows the network's answer.
ReadCache(t) ==
  LET s == cache[tabs[t].account] IN
  /\ tabs[t].pc = "network"
  /\ tabs' = [tabs EXCEPT ![t].service = s,
                          ![t].pc = IF s = None THEN "create" ELSE "check"]
  /\ inDoubt' = inDoubt \ {t}
  /\ UNCHANGED <<deployed, owners, cache, inbox>>

\* verify of a cached id.  It answers false for a failed RPC as well as for a
\* service of another owner; either way the id is dropped.
Check(t) ==
  /\ tabs[t].pc = "check"
  /\ \/ /\ IsOwn(t)
        /\ Goto(t, "profile")
        /\ UNCHANGED inDoubt
     \/ /\ ~IsOwn(t) \/ MayFail
        /\ tabs' = [tabs EXCEPT ![t].pc = "create", ![t].service = None]
        /\ inDoubt' = inDoubt \cup {u \in {t} : IsOwn(u)}
  /\ UNCHANGED <<deployed, owners, cache, inbox>>

\* Mutant: the id is remembered as soon as it is known.
CreateAndRemember(t) ==
  /\ tabs[t].pc = "create"
  /\ deployed < MaxServices
  /\ deployed' = deployed + 1
  /\ tabs' = [tabs EXCEPT ![t].pc = "profile", ![t].service = deployed + 1]
  /\ cache' = [cache EXCEPT ![tabs[t].account] = deployed + 1]
  /\ UNCHANGED <<owners, inbox, inDoubt>>

Create(t) ==
  /\ tabs[t].pc = "create"
  /\ deployed < MaxServices
  /\ deployed' = deployed + 1
  /\ tabs' = [tabs EXCEPT ![t].pc = "profile", ![t].service = deployed + 1]
  /\ UNCHANGED <<owners, cache, inbox, inDoubt>>

\* The service is there and its id never reaches the tab.
CreateLost(t) ==
  /\ MayFail
  /\ tabs[t].pc = "create"
  /\ deployed < MaxServices
  /\ deployed' = deployed + 1
  /\ Goto(t, "error")
  /\ UNCHANGED <<owners, cache, inbox, inDoubt>>

CreateRefused(t) ==
  /\ tabs[t].pc = "create"
  /\ deployed = MaxServices
  /\ Goto(t, "error")
  /\ UNCHANGED <<deployed, owners, cache, inbox, inDoubt>>

\* initialize: nothing to do for one's own service, an error for another's.
ReadProfile(t) ==
  /\ tabs[t].pc = "profile"
  /\ \/ /\ IsOwn(t)
        /\ Goto(t, "verify")
        /\ UNCHANGED inbox
     \/ /\ owners[tabs[t].service] = None
        /\ inbox' = inbox \cup
             {[tab |-> t, service |-> tabs[t].service, account |-> tabs[t].account]}
        /\ Goto(t, "waiting")
     \/ /\ owners[tabs[t].service] # None /\ ~IsOwn(t)
        /\ Goto(t, "error")
        /\ UNCHANGED inbox
  /\ UNCHANGED <<deployed, owners, cache, inDoubt>>

Verify(t) ==
  /\ tabs[t].pc = "verify"
  /\ Goto(t, IF IsOwn(t) THEN "filesystem" ELSE "error")
  /\ UNCHANGED <<deployed, owners, cache, inbox, inDoubt>>

\* The other tabs of the account that have read the cache and go by it.
Relying(t) ==
  {u \in Tabs \ {t} : tabs[u].account = tabs[t].account /\ tabs[u].pc \in Busy \ {"network"}}

\* The last query, and the id remembered once everything has worked.
Finish(t) ==
  /\ tabs[t].pc = "filesystem"
  /\ Remember(tabs[t].account, tabs[t].service)
  /\ inDoubt' = IF cache' = cache THEN inDoubt ELSE inDoubt \cup Relying(t)
  /\ Goto(t, "desktop")
  /\ UNCHANGED <<deployed, owners, inbox>>

\* An await throws; verify of the new service and the wait for its action
\* have failures of their own kind, and end the same way.
StepFails(t) ==
  /\ MayFail
  /\ tabs[t].pc \in Busy \ {"check"}
  /\ Goto(t, "error")
  /\ UNCHANGED <<deployed, owners, cache, inbox, inDoubt>>

ProvisionStep(t) ==
  ReadCache(t) \/ Check(t) \/ Create(t) \/ CreateRefused(t) \/ ReadProfile(t)
    \/ Verify(t) \/ Finish(t)

-----------------------------------------------------------------------------
(* My Computer, opened on the desktop, lists the services: current() reads *)
(* the cached id, verifies it, and clears the entry when that fails.       *)

ListServices(t) ==
  /\ tabs[t].pc = "desktop" /\ tabs[t].listing = None
  /\ tabs' = [tabs EXCEPT ![t].listing = cache[tabs[t].account]]
  /\ inDoubt' = inDoubt \ {t}
  /\ UNCHANGED <<deployed, owners, cache, inbox>>

\* Mutant: the entry is cleared when the id is verified.
ListedBackwards(t) ==
  /\ tabs[t].pc = "desktop" /\ tabs[t].listing # None
  /\ tabs' = [tabs EXCEPT ![t].listing = None]
  /\ \/ owners[tabs[t].listing] # tabs[t].account /\ UNCHANGED cache
     \/ /\ owners[tabs[t].listing] = tabs[t].account
        /\ Forget(tabs[t].account)
  /\ UNCHANGED <<deployed, owners, inbox, inDoubt>>

Listed(t) ==
  /\ tabs[t].pc = "desktop" /\ tabs[t].listing # None
  /\ tabs' = [tabs EXCEPT ![t].listing = None]
  /\ LET own == owners[tabs[t].listing] = tabs[t].account IN
     \/ own /\ UNCHANGED <<cache, inDoubt>>
     \/ /\ ~own \/ MayFail
        /\ Forget(tabs[t].account)
        /\ inDoubt' = inDoubt \cup {u \in {t} : own}
  /\ UNCHANGED <<deployed, owners, inbox>>

-----------------------------------------------------------------------------
(* The chain: initialize of services/computer/src/service.ts. *)

\* The tab still waiting for item goes on to pc.
Settle(item, pc) ==
  /\ inbox' = inbox \ {item}
  /\ tabs' = [tabs EXCEPT ![item.tab] =
       IF @.pc = "waiting" /\ @.service = item.service THEN [@ EXCEPT !.pc = pc] ELSE @]
  /\ UNCHANGED <<deployed, cache, inDoubt>>

Initialize(s, a) ==
  /\ owners[s] = None
  /\ owners' = [owners EXCEPT ![s] = a]

Applied(item) == Initialize(item.service, item.account) /\ Settle(item, "verify")

\* Mutant: a failed receipt wakes nobody.
AbortedSilently(item) ==
  /\ owners[item.service] # None
  /\ inbox' = inbox \ {item}
  /\ UNCHANGED <<owners, deployed, cache, tabs, inDoubt>>

Aborted(item) ==
  /\ owners[item.service] # None
  /\ Settle(item, "error")
  /\ UNCHANGED owners

\* Dropped before it runs: expired, or the work was rejected.
Dropped(item) ==
  /\ MayFail
  /\ Settle(item, "error")
  /\ UNCHANGED owners

ForeignInitialize(s, a) ==
  /\ Initialize(s, a)
  /\ UNCHANGED <<deployed, cache, tabs, inbox, inDoubt>>

ProvNext ==
  \/ \E t \in Tabs :
       \/ \E a \in Users : Connect(t, a)
       \/ Provision(t) \/ Reload(t)
       \/ ProvisionStep(t) \/ CreateLost(t) \/ StepFails(t)
       \/ ListServices(t) \/ Listed(t)
  \/ \E item \in inbox : Applied(item) \/ Aborted(item) \/ Dropped(item)
  \/ \E s \in Deployed, a \in Foreign : ForeignInitialize(s, a)

ProvSpec == ProvInit /\ [][ProvNext]_provVars

\* A tab that is not reloaded runs on, and the chain deals with every action.
FairProvSpec ==
  /\ ProvSpec
  /\ \A t \in Tabs : WF_provVars(ProvisionStep(t))
  /\ \A t \in Tabs, s \in Services :
       WF_provVars(\E item \in inbox :
         item.tab = t /\ item.service = s /\ (Applied(item) \/ Aborted(item)))

-----------------------------------------------------------------------------
(* Properties *)

\* A Computer this browser remembers for an account, or shows it, is owned by
\* that account, although anyone may initialize a service first: an id is
\* remembered and shown only after the owner on chain has been verified.
MineOnly ==
  /\ \A a \in Users : cache[a] # None => owners[cache[a]] = a
  /\ \A t \in Tabs : tabs[t].pc \in {"filesystem", "desktop"} => IsOwn(t)

\* "let JAM Computer create or reconnect to your Computer Service"
\* (README.md:56): no service is deployed for an account whose Computer this
\* browser knows.
NoSecondComputer ==
  \A t \in Tabs :
    tabs[t].pc = "create" => cache[tabs[t].account] = None

\* It is violated; what does hold, of any tabs and whatever fails, is that a
\* second one is deployed by two kinds of tab only: one whose verify of the
\* account's own service failed in this pass of provision, and one that read
\* the cache before another tab of the account came to the end of its own.
SecondOnlyInDoubt ==
  \A t \in Tabs :
    tabs[t].pc = "create" /\ cache[tabs[t].account] # None => t \in inDoubt

\* And only such a tab, or one whose verify failed in My Computer, makes the
\* browser forget a Computer it remembers or remember another in its place.
KeptUnlessInDoubt ==
  [][\A a \in Users :
       cache[a] # None /\ cache'[a] # cache[a] =>
         \E t \in inDoubt' : tabs[t].account = a /\ tabs'[t] # tabs[t]]_cache

\* Provisioning ends, on the desktop or with an error the user can retry:
\* no lost answer leaves the progress screen up for ever.
ProvisioningEnds ==
  \A t \in Tabs : tabs[t].pc \in Busy ~> tabs[t].pc \notin Busy

=============================================================================
