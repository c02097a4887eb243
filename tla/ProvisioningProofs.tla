--------------------------- MODULE ProvisioningProofs ---------------------------
(***************************************************************************)
(* What holds of provisioning for any number of tabs and accounts, however *)
(* many services are deployed, whatever fails and whoever else acts.       *)
(***************************************************************************)
EXTENDS Provisioning, TLAPS

USE BoundAssumption, NobodyAssumption

Item == [tab: Tabs, service: Services, account: Users]

LEMMA DeployedAreServices ==
  ASSUME ProvTypeOK
  PROVE  Deployed \subseteq Services
BY DEF ProvTypeOK, Deployed, Services

\* The stages at which a tab relies on a service id.
Served == {"check", "profile", "waiting", "verify", "filesystem", "desktop"}

TabsOK ==
  /\ tabs \in [Tabs -> Tab]
  /\ \A t \in Tabs :
       /\ tabs[t].pc # "login" => tabs[t].account # None
       /\ tabs[t].service \in Deployed \cup {None}
       /\ tabs[t].pc \in Served => tabs[t].service # None

LEMMA TypesSplit ==
  ProvTypeOK <=> /\ deployed \in 0..MaxServices
                 /\ owners \in [Services -> Users \cup Foreign \cup {None}]
                 /\ cache \in [Users -> Deployed \cup {None}]
                 /\ TabsOK
                 /\ inbox \subseteq [tab: Tabs, service: Deployed, account: Users]
                 /\ inDoubt \subseteq Tabs
BY DEF ProvTypeOK, TabsOK, Served

\* One tab taking on another state, while services may have been deployed.
LEMMA TabChanges ==
  ASSUME TabsOK, deployed \in Nat, deployed' \in Nat, deployed <= deployed',
         NEW t \in Tabs, NEW new \in Tab,
         new.pc # "login" => new.account # None,
         new.service \in Deployed' \cup {None},
         new.pc \in Served => new.service # None,
         tabs' = [tabs EXCEPT ![t] = new]
  PROVE  TabsOK'
<1>1. Deployed \subseteq Deployed'
  BY DEF Deployed
<1>2. \A d \in Tabs : tabs'[d] = IF d = t THEN new ELSE tabs[d]
  BY DEF TabsOK
<1>3. tabs' \in [Tabs -> Tab]
  BY DEF TabsOK
<1>4. QED
  BY <1>1, <1>2, <1>3 DEF TabsOK

LEMMA TabStepAlone ==
  ASSUME ProvTypeOK, NEW t \in Tabs, NEW new \in Tab,
         new.pc # "login" => new.account # None,
         new.service \in Deployed \cup {None},
         new.pc \in Served => new.service # None,
         tabs' = [tabs EXCEPT ![t] = new], UNCHANGED <<deployed, owners, cache, inbox>>,
         inDoubt' \subseteq Tabs
  PROVE  ProvTypeOK'
<1>1. deployed \in Nat /\ deployed' = deployed /\ Deployed' = Deployed
  BY DEF ProvTypeOK, Deployed
<1>2. TabsOK
  BY TypesSplit
<1>3. deployed' \in Nat /\ deployed <= deployed'
  BY <1>1
<1>4. TabsOK'
  BY <1>1, <1>2, <1>3, TabChanges
<1>5. QED
  BY <1>1, <1>4, TypesSplit DEF TabsOK, ProvTypeOK, Served

\* One tab going on to a stage that asks no more than the tab has.
LEMMA GotoTyped ==
  ASSUME TabsOK, NEW t \in Tabs, NEW pc \in Busy \cup {"desktop", "error"},
         Goto(t, pc), deployed' = deployed,
         tabs[t].pc # "login", pc \in Served => tabs[t].service # None
  PROVE  TabsOK'
<1>1. tabs[t] \in Tab
  BY DEF TabsOK
<1>2. [tabs[t] EXCEPT !.pc = pc] \in Tab
  BY <1>1 DEF Tab
<1>3. tabs' = [tabs EXCEPT ![t] = [tabs[t] EXCEPT !.pc = pc]]
  BY DEF Goto
<1>4. QED
  BY <1>1, <1>2, <1>3 DEF TabsOK, Deployed, Tab

\* A step of the signing in, of provision or of My Computer, by one tab.
LEMMA TabStepTyped ==
  ASSUME ProvTypeOK, inDoubt' \subseteq Tabs, NEW t \in Tabs,
         \/ \E a \in Users : Connect(t, a)
         \/ Provision(t) \/ Reload(t) \/ Check(t) \/ ReadCache(t)
         \/ CreateRefused(t) \/ Verify(t) \/ StepFails(t)
  PROVE  ProvTypeOK'
<1>a. /\ TabsOK /\ tabs[t] \in Tab /\ deployed \in Nat
      /\ tabs[t].service \in Deployed \cup {None}
  BY TypesSplit DEF TabsOK
<1>b. UNCHANGED <<deployed, owners, cache, inbox>> /\ TabsOK' => ProvTypeOK'
  BY TypesSplit DEF TabsOK, ProvTypeOK, Deployed, Served
<1>1. ASSUME NEW a \in Users, Connect(t, a) PROVE ProvTypeOK'
  <2> DEFINE new == [tabs[t] EXCEPT !.pc = "account", !.account = a]
  <2>1. /\ new \in Tab /\ new.account # None /\ new.service = tabs[t].service
        /\ new.pc \notin Served
    BY <1>a DEF Tab, Served
  <2>2. tabs' = [tabs EXCEPT ![t] = new] /\ UNCHANGED <<deployed, owners, cache, inbox>>
    BY <1>1, <1>a DEF Connect, TabsOK
  <2> HIDE DEF new
  <2>3. QED
    BY <1>a, <2>1, <2>2, TabStepAlone
<1>2. CASE Provision(t)
  <2>1. Goto(t, "network") /\ tabs[t].pc # "login"
    BY <1>2 DEF Provision
  <2>2. QED
    BY <1>2, <1>a, <1>b, <2>1, GotoTyped DEF Provision, Served, Busy
<1>3. CASE Reload(t)
  <2>1. Closed \in Tab /\ Closed.pc = "login" /\ Closed.service = None
    BY DEF Closed, Tab
  <2>2. QED
    BY <1>3, <2>1, TabStepAlone DEF Reload, Served
<1>4. CASE Check(t)
  <2>1. CASE Goto(t, "profile")
    <3>1. tabs[t].pc # "login" /\ tabs[t].service # None
      BY <1>4, <1>a DEF Check, TabsOK, Served
    <3>2. QED
      BY <1>4, <1>a, <1>b, <2>1, <3>1, GotoTyped DEF Check, Busy
  <2>2. CASE tabs' = [tabs EXCEPT ![t].pc = "create", ![t].service = None]
    <3> DEFINE new == [tabs[t] EXCEPT !.pc = "create", !.service = None]
    <3>1. new \in Tab /\ new.account # None /\ new.service = None /\ new.pc \notin Served
      BY <1>4, <1>a DEF Check, Tab, Busy, Served, TabsOK
    <3>2. tabs' = [tabs EXCEPT ![t] = new]
      BY <1>a, <2>2 DEF TabsOK
    <3> HIDE DEF new
    <3>3. QED
      BY <1>4, <3>1, <3>2, TabStepAlone DEF Check
  <2>3. QED
    BY <1>4, <2>1, <2>2 DEF Check
<1>5. CASE ReadCache(t)
  <2> DEFINE s == cache[tabs[t].account]
             new == [tabs[t] EXCEPT !.service = s,
                                    !.pc = IF s = None THEN "create" ELSE "check"]
  <2>1. tabs[t].account \in Users
    BY <1>5, <1>a DEF ReadCache, TabsOK, Tab
  <2>2. s \in Deployed \cup {None} /\ s \in Services \cup {None}
    BY <2>1, DeployedAreServices DEF ProvTypeOK
  <2>3. /\ new \in Tab /\ new.account # None /\ new.service = s
        /\ new.pc \in Served => s # None
    BY <1>a, <2>1, <2>2 DEF Tab, Busy, Served
  <2>4. tabs' = [tabs EXCEPT ![t] = new] /\ UNCHANGED <<deployed, owners, cache, inbox>>
    BY <1>5, <1>a DEF ReadCache, TabsOK
  <2> HIDE DEF new, s
  <2>5. QED
    BY <2>2, <2>3, <2>4, TabStepAlone
<1>6. CASE CreateRefused(t)
  BY <1>6, <1>a, <1>b, GotoTyped DEF CreateRefused, Served
<1>7. CASE Verify(t)
  <2>1. PICK pc \in {"filesystem", "error"} : Goto(t, pc)
    BY <1>7 DEF Verify
  <2>2. tabs[t].pc # "login" /\ tabs[t].service # None
    BY <1>7, <1>a DEF Verify, TabsOK, Served
  <2>3. QED
    BY <1>7, <1>a, <1>b, <2>1, <2>2, GotoTyped DEF Verify, Busy
<1>8. CASE StepFails(t)
  BY <1>8, <1>a, <1>b, GotoTyped DEF StepFails, Served, Busy
<1>9. QED
  BY <1>1, <1>2, <1>3, <1>4, <1>5, <1>6, <1>7, <1>8

\* The steps of a tab that reach beyond its own memory.
LEMMA SharedStepTyped ==
  ASSUME ProvTypeOK, inDoubt' \subseteq Tabs, NEW t \in Tabs,
         \/ Create(t) \/ CreateLost(t) \/ ReadProfile(t) \/ Finish(t)
         \/ ListServices(t) \/ Listed(t)
  PROVE  ProvTypeOK'
<1>a. /\ TabsOK /\ tabs[t] \in Tab /\ deployed \in Nat
      /\ \A pc \in {"check", "create", "filesystem"} :
           tabs[t].pc = pc => tabs[t].account \in Users
  BY TypesSplit DEF TabsOK, Tab
<1>b. ASSUME deployed' = deployed + 1, deployed < MaxServices, TabsOK',
             UNCHANGED <<owners, cache, inbox>>
      PROVE  ProvTypeOK'
  <2>1. deployed' \in 0..MaxServices /\ Deployed \subseteq Deployed'
    BY <1>a, <1>b DEF Deployed
  <2>2. /\ cache' \in [Users -> Deployed' \cup {None}]
        /\ inbox' \subseteq [tab: Tabs, service: Deployed', account: Users]
    BY <1>b, <2>1 DEF ProvTypeOK
  <2>3. QED
    BY <1>b, <2>1, <2>2 DEF ProvTypeOK, TabsOK, Served
<1>1. CASE Create(t)
  <2> DEFINE new == [tabs[t] EXCEPT !.pc = "profile", !.service = deployed + 1]
  <2>1. /\ deployed' = deployed + 1 /\ deployed <= deployed' /\ deployed' \in Nat
        /\ deployed' \in Deployed' /\ deployed' \in Services /\ deployed' # None
    BY <1>1, <1>a DEF Create, Deployed, Services
  <2>2. new \in Tab /\ new.account # None /\ new.service = deployed' /\ new.pc = "profile"
    BY <1>1, <1>a, <2>1 DEF Create, Tab, Busy
  <2>3. tabs' = [tabs EXCEPT ![t] = new]
    BY <1>1, <1>a DEF Create, TabsOK
  <2> HIDE DEF new
  <2>4. TabsOK'
    BY <1>a, <2>1, <2>2, <2>3, TabChanges
  <2>5. QED
    BY <1>1, <1>b, <2>1, <2>4 DEF Create
<1>2. CASE CreateLost(t)
  <2> DEFINE new == [tabs[t] EXCEPT !.pc = "error"]
  <2>1. deployed' = deployed + 1 /\ deployed <= deployed' /\ deployed' \in Nat
    BY <1>2, <1>a DEF CreateLost
  <2>2. /\ new \in Tab /\ new.account # None /\ new.pc \notin Served
        /\ new.service \in Deployed' \cup {None}
    BY <1>2, <1>a, <2>1 DEF CreateLost, Tab, Served, TabsOK, Deployed
  <2>3. tabs' = [tabs EXCEPT ![t] = new]
    BY <1>2, <1>a DEF CreateLost, Goto, TabsOK
  <2> HIDE DEF new
  <2>4. TabsOK'
    BY <1>a, <2>1, <2>2, <2>3, TabChanges
  <2>5. QED
    BY <1>2, <1>b, <2>1, <2>4 DEF CreateLost
<1> USE DEF ProvTypeOK, Tab, Busy, Goto, Deployed, Services
<1>3. CASE ReadProfile(t)
  <2>1. PICK pc \in {"verify", "waiting", "error"} : Goto(t, pc)
    BY <1>3 DEF ReadProfile
  <2>2. TabsOK'
    BY <1>3, <2>1, GotoTyped, TypesSplit DEF ReadProfile, Served
  <2>3. inbox' \subseteq [tab: Tabs, service: Deployed, account: Users]
    <3>1. [tab |-> t, service |-> tabs[t].service, account |-> tabs[t].account]
            \in [tab: Tabs, service: Deployed, account: Users]
      BY <1>3 DEF ReadProfile
    <3>2. QED
      BY <1>3, <3>1 DEF ReadProfile
  <2>4. QED
    BY <1>3, <2>2, <2>3 DEF ReadProfile, TabsOK, Served
<1>4. CASE Finish(t)
  <2>1. TabsOK'
    BY <1>4, GotoTyped, TypesSplit DEF Finish, Remember, Served
  <2>2. tabs[t].service \in Deployed
    BY <1>4 DEF Finish, Remember
  <2>3. cache' \in [Users -> Deployed \cup {None}]
    BY <1>4, <2>2 DEF Finish, Remember
  <2>4. QED
    BY <1>4, <2>1, <2>3 DEF Finish, Remember, TabsOK, Served
<1>5. CASE ListServices(t)
  BY <1>5 DEF ListServices
<1>6. CASE Listed(t)
  <2>1. cache' \in [Users -> Deployed \cup {None}]
    BY <1>6 DEF Listed, Forget
  <2>2. TabsOK'
    BY <1>6, TypesSplit DEF Listed, Forget, TabsOK, Served
  <2>3. QED
    BY <1>6, <2>1, <2>2 DEF Listed, Forget, TabsOK, Served
<1>7. QED
  BY <1>1, <1>2, <1>3, <1>4, <1>5, <1>6

\* What dealing with an action does to the tabs.
LEMMA SettleTyped ==
  ASSUME ProvTypeOK, NEW item \in inbox, NEW pc \in {"verify", "error"},
         Settle(item, pc)
  PROVE  /\ tabs' \in [Tabs -> Tab]
         /\ \A t \in Tabs : \/ tabs'[t] = tabs[t]
                            \/ /\ tabs[t].pc = "waiting"
                               /\ tabs'[t] = [tabs[t] EXCEPT !.pc = pc]
         /\ inbox' \subseteq inbox
         /\ UNCHANGED <<deployed, cache>>
BY DEF ProvTypeOK, Tab, Busy, Settle

LEMMA ChainStepTyped ==
  ASSUME ProvTypeOK, inDoubt' \subseteq Tabs, NEW item \in inbox, Applied(item) \/ Aborted(item) \/ Dropped(item)
  PROVE  ProvTypeOK'
<1>1. PICK pc \in {"verify", "error"} : Settle(item, pc)
  BY DEF Applied, Aborted, Dropped
<1>2. item.service \in Services /\ item.account \in Users
  BY DeployedAreServices DEF ProvTypeOK
<1>3. owners' \in [Services -> Users \cup Foreign \cup {None}]
  BY <1>2 DEF ProvTypeOK, Applied, Aborted, Dropped, Initialize
<1>4. QED
  <2>1. /\ tabs' \in [Tabs -> Tab]
        /\ \A t \in Tabs : \/ tabs'[t] = tabs[t]
                           \/ /\ tabs[t].pc = "waiting"
                              /\ tabs'[t] = [tabs[t] EXCEPT !.pc = pc]
        /\ inbox' \subseteq inbox
        /\ UNCHANGED <<deployed, cache>>
    BY <1>1, SettleTyped
  <2>2. \A t \in Tabs : /\ tabs'[t].account = tabs[t].account
                        /\ tabs'[t].service = tabs[t].service
                        /\ tabs'[t].pc # tabs[t].pc => tabs[t].pc = "waiting"
    BY <2>1 DEF ProvTypeOK, Tab
  <2>3. \A t \in Tabs :
       /\ tabs'[t].pc # "login" => tabs'[t].account # None
       /\ tabs'[t].service \in Deployed \cup {None}
       /\ tabs'[t].pc \in {"check", "profile", "waiting", "verify", "filesystem",
                          "desktop"} => tabs'[t].service # None
    BY <2>2 DEF ProvTypeOK
  <2>4. QED
    BY <1>3, <2>1, <2>3 DEF ProvTypeOK, Deployed

LEMMA ForeignStepTyped ==
  ASSUME ProvTypeOK, inDoubt' \subseteq Tabs, NEW s \in Deployed, NEW a \in Foreign, ForeignInitialize(s, a)
  PROVE  ProvTypeOK'
BY DeployedAreServices DEF ProvTypeOK, ForeignInitialize, Initialize, Deployed

\* Which tabs a step brings into doubt.
LEMMA DoubtsTyped ==
  ASSUME ProvTypeOK, ProvNext
  PROVE  inDoubt' \subseteq Tabs
<1>1. inDoubt \subseteq Tabs
  BY DEF ProvTypeOK
<1>2. ASSUME NEW t \in Tabs, Finish(t) PROVE inDoubt' \subseteq Tabs
  BY <1>1, <1>2 DEF Finish, Relying
<1>3. ASSUME NEW t \in Tabs, Check(t) \/ Listed(t) PROVE inDoubt' \subseteq Tabs
  BY <1>1, <1>3 DEF Check, Listed
<1>4. ASSUME NEW t \in Tabs, ReadCache(t) \/ Reload(t) \/ ListServices(t) PROVE inDoubt' \subseteq Tabs
  BY <1>1, <1>4 DEF ReadCache, Reload, ListServices
<1>5. ASSUME NEW t \in Tabs,
             \/ \E a \in Users : Connect(t, a)
             \/ Provision(t) \/ Create(t) \/ CreateRefused(t) \/ ReadProfile(t) \/ Verify(t)
             \/ CreateLost(t) \/ StepFails(t)
      PROVE  inDoubt' \subseteq Tabs
  BY <1>1, <1>5 DEF Connect, Provision, Create, CreateRefused, ReadProfile, Verify, CreateLost, StepFails
<1>6. ASSUME NEW item \in inbox, Applied(item) \/ Aborted(item) \/ Dropped(item)
      PROVE  inDoubt' \subseteq Tabs
  BY <1>1, <1>6 DEF Applied, Aborted, Dropped, Settle
<1>7. ASSUME NEW s \in Deployed, NEW a \in Foreign, ForeignInitialize(s, a)
      PROVE  inDoubt' \subseteq Tabs
  BY <1>1, <1>7 DEF ForeignInitialize
<1>8. QED
  BY <1>2, <1>3, <1>4, <1>5, <1>6, <1>7 DEF ProvNext, ProvisionStep

LEMMA StepTyped ==
  ASSUME ProvTypeOK, [ProvNext]_provVars
  PROVE  ProvTypeOK'
<1>1. CASE ProvNext
  BY <1>1, DoubtsTyped, TabStepTyped, SharedStepTyped, ChainStepTyped, ForeignStepTyped
  DEF ProvNext, ProvisionStep
<1>2. CASE UNCHANGED provVars
  BY <1>2 DEF provVars, ProvTypeOK, Deployed
<1>3. QED
  BY <1>1, <1>2

LEMMA InitTyped == ProvInit => ProvTypeOK
BY DEF ProvInit, ProvTypeOK, Tab, Busy, Closed, Deployed, Services

\* What a tab and the browser hold names only services that were deployed,
\* and a tab past a step holds what the later steps need.
THEOREM ProvTypeCorrect == ProvSpec => []ProvTypeOK
<1>1. QED
  BY InitTyped, StepTyped, PTL DEF ProvSpec

-----------------------------------------------------------------------------

\* An owner, once there, stays: only initialize writes one.
LEMMA OwnersStay ==
  ASSUME ProvTypeOK, [ProvNext]_provVars
  PROVE  \A s \in Services : owners[s] # None => owners'[s] = owners[s]
<1>1. ASSUME NEW s \in Services, NEW a, Initialize(s, a)
      PROVE  \A r \in Services : owners[r] # None => owners'[r] = owners[r]
  BY <1>1 DEF Initialize, ProvTypeOK
<1>2. ASSUME NEW item \in inbox, Applied(item) \/ Aborted(item) \/ Dropped(item)
      PROVE  \A r \in Services : owners[r] # None => owners'[r] = owners[r]
  <2>1. item.service \in Services
    BY DeployedAreServices DEF ProvTypeOK
  <2>2. QED
    BY <1>1, <1>2, <2>1 DEF Applied, Aborted, Dropped
<1>3. ASSUME NEW s \in Deployed, NEW a \in Foreign, ForeignInitialize(s, a)
      PROVE  \A r \in Services : owners[r] # None => owners'[r] = owners[r]
  BY <1>1, <1>3, DeployedAreServices DEF ForeignInitialize
<1>4. QED
  BY <1>2, <1>3 DEF ProvNext, ProvisionStep, Connect, Provision, Reload, ReadCache,
     Check, Create, CreateLost, CreateRefused, ReadProfile, Verify, Finish, StepFails,
     ListServices, Listed, provVars

\* What a step may put in the cache, and which tabs it may bring to where the
\* Computer is relied on.
LEMMA VerifiedFirst ==
  ASSUME ProvTypeOK, [ProvNext]_provVars
  PROVE  /\ \A a \in Users : \/ cache'[a] = cache[a]
                             \/ cache'[a] = None
                             \/ \E t \in Tabs : /\ tabs[t].pc = "filesystem"
                                                /\ tabs[t].account = a
                                                /\ cache'[a] = tabs[t].service
         /\ \A t \in Tabs : tabs'[t].pc \in {"filesystem", "desktop"} =>
              /\ tabs'[t].account = tabs[t].account
              /\ tabs'[t].service = tabs[t].service
              /\ \/ tabs[t].pc \in {"filesystem", "desktop"}
                 \/ IsOwn(t)
<1> DEFINE Here(t) == tabs'[t].pc \in {"filesystem", "desktop"} =>
             /\ tabs'[t].account = tabs[t].account
             /\ tabs'[t].service = tabs[t].service
             /\ tabs[t].pc \in {"filesystem", "desktop"} \/ IsOwn(t)
           Remembered(a) == \/ cache'[a] = cache[a]
                            \/ cache'[a] = None
                            \/ \E t \in Tabs : /\ tabs[t].pc = "filesystem"
                                               /\ tabs[t].account = a
                                               /\ cache'[a] = tabs[t].service
           Goal == (\A a \in Users : Remembered(a)) /\ (\A t \in Tabs : Here(t))
<1> USE DEF ProvTypeOK, Tab
<1>1. ASSUME NEW t \in Tabs, NEW a \in Users, Connect(t, a) PROVE Goal
  BY <1>1 DEF Connect
<1>2. ASSUME NEW t \in Tabs, Provision(t) \/ Reload(t) PROVE Goal
  BY <1>2 DEF Provision, Reload, Closed, Goto
<1>3. ASSUME NEW t \in Tabs, ReadCache(t) PROVE Goal
  BY <1>3 DEF ReadCache
<1>4. ASSUME NEW t \in Tabs, Check(t) PROVE Goal
  BY <1>4 DEF Check, Goto
<1>5. ASSUME NEW t \in Tabs, Create(t) \/ CreateLost(t) \/ CreateRefused(t) PROVE Goal
  BY <1>5 DEF Create, CreateLost, CreateRefused, Goto
<1>6. ASSUME NEW t \in Tabs, ReadProfile(t) PROVE Goal
  BY <1>6 DEF ReadProfile, Goto
<1>7. ASSUME NEW t \in Tabs, Verify(t) PROVE Goal
  BY <1>7 DEF Verify, Goto, IsOwn
<1>8. ASSUME NEW t \in Tabs, Finish(t) PROVE Goal
  BY <1>8 DEF Finish, Remember, Goto
<1>9. ASSUME NEW t \in Tabs, StepFails(t) PROVE Goal
  BY <1>9 DEF StepFails, Goto
<1>10. ASSUME NEW t \in Tabs, ListServices(t) \/ Listed(t) PROVE Goal
  <2>1. CASE ListServices(t)
    BY <2>1 DEF ListServices
  <2>2. CASE Listed(t)
    <3>1. /\ tabs[t].pc = "desktop" /\ tabs' = [tabs EXCEPT ![t].listing = None]
          /\ cache' \in {cache, [cache EXCEPT ![tabs[t].account] = None]}
      BY <2>2 DEF Listed, Forget
    <3>2. QED
      BY <3>1
  <2>3. QED
    BY <1>10, <2>1, <2>2
<1>11. ASSUME NEW item \in inbox, Applied(item) \/ Aborted(item) \/ Dropped(item)
       PROVE  Goal
  <2>1. PICK pc \in {"verify", "error"} : Settle(item, pc)
    BY <1>11 DEF Applied, Aborted, Dropped
  <2>2. /\ \A t \in Tabs : \/ tabs'[t] = tabs[t]
                           \/ /\ tabs[t].pc = "waiting"
                              /\ tabs'[t] = [tabs[t] EXCEPT !.pc = pc]
        /\ UNCHANGED cache
    BY <2>1, SettleTyped
  <2>3. ASSUME NEW t \in Tabs PROVE Here(t)
    <3>1. CASE tabs'[t] = [tabs[t] EXCEPT !.pc = pc]
      <4>1. tabs'[t].pc = pc
        BY <3>1 DEF Tab
      <4>2. QED
        BY <4>1
    <3>2. CASE tabs'[t] = tabs[t]
      BY <3>2
    <3>3. QED
      BY <2>2, <3>1, <3>2
  <2>4. QED
    BY <2>2, <2>3
<1>12. ASSUME NEW s \in Deployed, NEW a \in Foreign, ForeignInitialize(s, a) PROVE Goal
  BY <1>12 DEF ForeignInitialize
<1>13. CASE UNCHANGED provVars
  BY <1>13 DEF provVars
<1>14. QED
  BY <1>1, <1>2, <1>3, <1>4, <1>5, <1>6, <1>7, <1>8, <1>9, <1>10, <1>11, <1>12, <1>13
  DEF ProvNext, ProvisionStep

\* The Computer this browser remembers or shows is always the account's own.
THEOREM MineOnlyHolds == ProvSpec => []MineOnly
<1>1. ProvInit => MineOnly
  BY DEF ProvInit, MineOnly, Closed
<1>2. ASSUME ProvTypeOK, MineOnly, [ProvNext]_provVars
      PROVE  MineOnly'
  <2> USE <1>2, DeployedAreServices, OwnersStay, VerifiedFirst
  <2>1. ASSUME NEW a \in Users, cache'[a] # None
        PROVE  owners'[cache'[a]] = a
    <3>1. CASE cache'[a] = cache[a]
      BY <2>1, <3>1 DEF ProvTypeOK, MineOnly
    <3>2. ASSUME NEW t \in Tabs, tabs[t].pc = "filesystem", tabs[t].account = a,
                 cache'[a] = tabs[t].service
          PROVE  owners'[cache'[a]] = a
      BY <2>1, <3>2 DEF ProvTypeOK, MineOnly, IsOwn
    <3>3. QED
      BY <2>1, <3>1, <3>2
  <2>2. ASSUME NEW t \in Tabs, tabs'[t].pc \in {"filesystem", "desktop"}
        PROVE  IsOwn(t)'
    <3>1. IsOwn(t) /\ tabs'[t].account = tabs[t].account
          /\ tabs'[t].service = tabs[t].service
      BY <2>2 DEF MineOnly
    <3>2. tabs'[t].service \in Services /\ tabs'[t].account # None
      BY <2>2, StepTyped DEF ProvTypeOK, Deployed, Services
    <3>3. QED
      BY <3>1, <3>2 DEF IsOwn
  <2>3. QED
    BY <2>1, <2>2 DEF MineOnly
<1>3. QED
  BY <1>1, <1>2, ProvTypeCorrect, PTL DEF ProvSpec

-----------------------------------------------------------------------------
(* Any tabs of any accounts, whatever fails.                               *)

\* The stages of provision that go by what was read from the cache.
Reliant == Busy \ {"network"}

\* What a tab that is not in doubt knows of the Computer its browser
\* remembers, and what My Computer verifies.
Stands(t, tab) ==
  /\ tab.pc \in Reliant => t \in inDoubt \/ cache[tab.account] \in {None, tab.service}
  /\ tab.pc = "create" => tab.service = None
  /\ tab.listing # None => tab.pc = "desktop" /\ owners[tab.listing] = tab.account

DoubtInv ==
  /\ ProvTypeOK /\ MineOnly
  /\ \A t \in Tabs : Stands(t, tabs[t])

\* What the step of one tab must do to the others and to the cache.
Spares(t) ==
  \A u \in Tabs \ {t} :
    /\ u \in inDoubt => u \in inDoubt'
    /\ tabs[u].pc \in Reliant =>
         u \in inDoubt' \/ cache'[tabs[u].account] \in {None, cache[tabs[u].account]}
Kept ==
  \A a \in Users :
    cache[a] # None /\ cache'[a] # cache[a] =>
      \E t \in inDoubt' : tabs[t].account = a /\ tabs'[t] # tabs[t]

LEMMA NothingWritten ==
  ASSUME NEW t \in Tabs, UNCHANGED cache, inDoubt \ {t} \subseteq inDoubt'
  PROVE  Spares(t) /\ Kept
BY DEF Spares, Kept

\* A tab that stood still stands when its own state is the same.
LEMMA OtherStands ==
  ASSUME ProvTypeOK, [ProvNext]_provVars, NEW u \in Tabs, Stands(u, tabs[u]), tabs'[u] = tabs[u],
         u \in inDoubt => u \in inDoubt',
         tabs[u].pc \in Reliant =>
           u \in inDoubt' \/ cache'[tabs[u].account] \in {None, cache[tabs[u].account]}
  PROVE  Stands(u, tabs[u])'
<1>1. tabs[u].pc \in Reliant => u \in inDoubt' \/ cache'[tabs[u].account] \in {None, tabs[u].service}
  BY DEF Stands
<1>2. tabs[u].listing # None => owners'[tabs[u].listing] = tabs[u].account
  <2>1. tabs[u] \in Tab /\ (tabs[u].pc = "desktop" => tabs[u].account # None)
    BY DEF ProvTypeOK
  <2>2. tabs[u].listing # None => /\ owners[tabs[u].listing] # None
                                  /\ owners[tabs[u].listing] = tabs[u].account
                                  /\ tabs[u].listing \in Services
    BY <2>1 DEF Stands, Tab
  <2>3. QED
    BY <2>2, OwnersStay
<1>3. QED
  BY <1>1, <1>2 DEF Stands

\* What any step does to what the tabs know, and to what is remembered.
LEMMA DoubtStep ==
  ASSUME DoubtInv, [ProvNext]_provVars
  PROVE  (\A t \in Tabs : Stands(t, tabs[t])') /\ Kept
<1> DEFINE Goal == (\A t \in Tabs : Stands(t, tabs[t])') /\ Kept
<1>1. ProvTypeOK /\ MineOnly /\ \A t \in Tabs : Stands(t, tabs[t]) /\ tabs[t] \in Tab
  BY DEF DoubtInv, ProvTypeOK
<1>2. ASSUME NEW t \in Tabs, NEW new \in Tab, tabs' = [tabs EXCEPT ![t] = new],
             Stands(t, new)', Spares(t), Kept
      PROVE  Goal
  <2>1. tabs'[t] = new /\ \A u \in Tabs \ {t} : tabs'[u] = tabs[u]
    BY <1>1, <1>2 DEF ProvTypeOK
  <2>2. Stands(t, tabs[t])'
    BY <1>2, <2>1 DEF Stands
  <2>3. ASSUME NEW u \in Tabs \ {t} PROVE Stands(u, tabs[u])'
    BY <1>1, <1>2, <2>1, OtherStands DEF Spares
  <2>4. QED
    BY <1>2, <2>2, <2>3
<1>3. ASSUME NEW t \in Tabs, NEW a \in Users, Connect(t, a) PROVE Goal
  <2>1. PICK new \in Tab : /\ new = [tabs[t] EXCEPT !.pc = "account", !.account = a]
                           /\ new.pc = "account" /\ new.listing = tabs[t].listing
    <3>1. PICK new : new = [tabs[t] EXCEPT !.pc = "account", !.account = a]
      OBVIOUS
    <3>2. new \in Tab /\ new.pc = "account" /\ new.listing = tabs[t].listing
      BY <1>1, <3>1 DEF Tab
    <3>3. QED
      BY <3>1, <3>2
  <2>2. tabs' = [tabs EXCEPT ![t] = new] /\ UNCHANGED <<cache, inDoubt>>
    BY <1>3, <2>1, <1>1 DEF Connect, ProvTypeOK
  <2>3. tabs[t].listing = None
    BY <1>1, <1>3 DEF Stands, Connect
  <2>4. Stands(t, new)'
    BY <2>1, <2>3 DEF Stands, Reliant, Busy
  <2>5. QED
    BY <1>2, <2>2, <2>4, NothingWritten
<1>4. ASSUME NEW t \in Tabs, NEW pc \in Busy \cup {"desktop", "error"}, Goto(t, pc),
             tabs[t].pc # "desktop", pc # "create",
             pc \in Reliant => t \in inDoubt' \/ cache'[tabs[t].account] \in {None, tabs[t].service},
             Spares(t), Kept
      PROVE  Goal
  <2>1. PICK new \in Tab : /\ new = [tabs[t] EXCEPT !.pc = pc] /\ new.pc = pc
                           /\ new.listing = tabs[t].listing /\ new.service = tabs[t].service
                           /\ new.account = tabs[t].account
    <3>1. PICK new : new = [tabs[t] EXCEPT !.pc = pc]
      OBVIOUS
    <3>2. /\ new \in Tab /\ new.pc = pc /\ new.listing = tabs[t].listing
          /\ new.service = tabs[t].service /\ new.account = tabs[t].account
      BY <1>1, <3>1 DEF Tab
    <3>3. QED
      BY <3>1, <3>2
  <2>2. tabs' = [tabs EXCEPT ![t] = new]
    BY <1>4, <2>1 DEF Goto
  <2>3. tabs[t].listing = None
    BY <1>1, <1>4 DEF Stands
  <2>4. Stands(t, new)'
    BY <1>4, <2>1, <2>3 DEF Stands
  <2>5. QED
    BY <1>2, <1>4, <2>2, <2>4
\* A tab goes on with what it knows, and nothing is written.
<1>5. ASSUME NEW t \in Tabs, NEW pc \in Busy \cup {"desktop", "error"}, Goto(t, pc),
             tabs[t].pc # "desktop", pc # "create",
             pc \in Reliant => tabs[t].pc \in Reliant,
             UNCHANGED <<cache, inDoubt>>
      PROVE  Goal
  <2>1. pc \in Reliant => t \in inDoubt' \/ cache'[tabs[t].account] \in {None, tabs[t].service}
    BY <1>1, <1>5 DEF Stands
  <2>2. Spares(t) /\ Kept
    BY <1>5, NothingWritten
  <2>3. QED
    BY <1>4, <1>5, <2>1, <2>2
<1>6. ASSUME NEW t \in Tabs, Provision(t) \/ CreateLost(t) \/ StepFails(t) \/ CreateRefused(t) PROVE Goal
  BY <1>5, <1>6 DEF Provision, CreateLost, StepFails, CreateRefused, Reliant, Busy
<1>7. ASSUME NEW t \in Tabs, Reload(t) PROVE Goal
  <2>1. Closed \in Tab /\ Closed.pc = "login" /\ Closed.listing = None
    BY DEF Closed, Tab
  <2>2. Stands(t, Closed)'
    BY <2>1 DEF Stands, Reliant, Busy
  <2>3. Spares(t) /\ Kept /\ tabs' = [tabs EXCEPT ![t] = Closed]
    BY <1>7, NothingWritten DEF Reload
  <2>4. QED
    BY <1>2, <2>1, <2>2, <2>3
<1>8. ASSUME NEW t \in Tabs, ReadCache(t) PROVE Goal
  <2> DEFINE s == cache[tabs[t].account]
             pc == IF s = None THEN "create" ELSE "check"
  <2>1. tabs[t].account \in Users /\ s \in Services \cup {None}
    BY <1>1, <1>8, DeployedAreServices DEF ReadCache, ProvTypeOK, Tab
  <2>2. tabs[t].listing = None
    BY <1>1, <1>8 DEF Stands, ReadCache
  <2>3. [tabs[t] EXCEPT !.service = s] \in Tab
    BY <1>1, <2>1 DEF Tab
  <2>4. pc \in Busy
    BY DEF Busy
  <2>5. PICK new \in Tab : /\ new = [tabs[t] EXCEPT !.service = s, !.pc = pc]
                           /\ new.pc = pc /\ new.service = s
                           /\ new.account = tabs[t].account /\ new.listing = None
    <3> HIDE DEF s, pc
    <3>1. [[tabs[t] EXCEPT !.service = s] EXCEPT !.pc = pc] \in Tab
      BY <2>3, <2>4 DEF Tab
    <3>2. [[tabs[t] EXCEPT !.service = s] EXCEPT !.pc = pc] = [tabs[t] EXCEPT !.service = s, !.pc = pc]
      BY <1>1 DEF Tab
    <3>3. QED
      BY <1>1, <2>2, <3>1, <3>2 DEF Tab
  <2>6. tabs' = [tabs EXCEPT ![t] = new] /\ UNCHANGED cache /\ inDoubt' = inDoubt \ {t}
    BY <1>1, <1>8, <2>5 DEF ReadCache, ProvTypeOK
  <2>7. Stands(t, new)'
    BY <2>5, <2>6 DEF Stands
  <2>8. QED
    BY <1>2, <2>6, <2>7, NothingWritten
<1>9. ASSUME NEW t \in Tabs, Check(t) PROVE Goal
  <2>1. /\ tabs[t].pc = "check" /\ UNCHANGED cache /\ tabs[t].listing = None
        /\ tabs[t].account \in Users /\ tabs[t].service # None
    BY <1>1, <1>9 DEF Check, Stands, ProvTypeOK, Tab
  <2>2. CASE Goto(t, "profile") /\ UNCHANGED inDoubt
    BY <1>5, <2>1, <2>2 DEF Busy, Reliant
  <2>3. CASE /\ tabs' = [tabs EXCEPT ![t].pc = "create", ![t].service = None]
             /\ inDoubt' = inDoubt \cup {u \in {t} : IsOwn(u)}
    <3>1. PICK new \in Tab : /\ new = [tabs[t] EXCEPT !.pc = "create", !.service = None]
                             /\ new.pc = "create" /\ new.service = None
                             /\ new.account = tabs[t].account /\ new.listing = None
      <4>1. PICK new : new = [tabs[t] EXCEPT !.pc = "create", !.service = None]
        OBVIOUS
      <4>2. /\ new \in Tab /\ new.pc = "create" /\ new.service = None
            /\ new.account = tabs[t].account /\ new.listing = None
        BY <1>1, <2>1, <4>1 DEF Tab, Busy
      <4>3. QED
        BY <4>1, <4>2
    <3>2. tabs' = [tabs EXCEPT ![t] = new]
      BY <1>1, <2>3, <3>1 DEF ProvTypeOK
    <3>3. t \in inDoubt' \/ cache[tabs[t].account] = None
      <4>1. t \in inDoubt \/ cache[tabs[t].account] \in {None, tabs[t].service}
        BY <1>1, <2>1 DEF Stands, Reliant, Busy
      <4>2. cache[tabs[t].account] = tabs[t].service => IsOwn(t)
        BY <1>1, <2>1 DEF MineOnly, IsOwn
      <4>3. QED
        BY <2>3, <4>1, <4>2
    <3>4. Stands(t, new)'
      BY <2>1, <3>1, <3>3 DEF Stands
    <3>5. QED
      BY <1>2, <2>1, <2>3, <3>2, <3>4, NothingWritten
  <2>4. QED
    BY <1>9, <2>2, <2>3 DEF Check
<1>10. ASSUME NEW t \in Tabs, Create(t) PROVE Goal
  <2>1. /\ tabs[t].pc = "create" /\ tabs[t].service = None /\ tabs[t].listing = None
        /\ UNCHANGED <<cache, inDoubt>>
        /\ t \in inDoubt \/ cache[tabs[t].account] = None
    BY <1>1, <1>10 DEF Stands, Create, Reliant, Busy
  <2>2. deployed + 1 \in Services
    BY <1>1, <1>10 DEF Create, ProvTypeOK, Services
  <2>3. PICK new \in Tab : /\ new = [tabs[t] EXCEPT !.pc = "profile", !.service = deployed + 1]
                           /\ new.pc = "profile" /\ new.account = tabs[t].account /\ new.listing = None
    <3>1. PICK new : new = [tabs[t] EXCEPT !.pc = "profile", !.service = deployed + 1]
      OBVIOUS
    <3>2. /\ new \in Tab /\ new.pc = "profile" /\ new.account = tabs[t].account
          /\ new.listing = None
      BY <1>1, <2>1, <2>2, <3>1 DEF Tab, Busy
    <3>3. QED
      BY <3>1, <3>2
  <2>4. tabs' = [tabs EXCEPT ![t] = new]
    BY <1>1, <1>10, <2>3 DEF Create, ProvTypeOK
  <2>5. Stands(t, new)'
    BY <2>1, <2>3 DEF Stands
  <2>6. QED
    BY <1>2, <2>1, <2>4, <2>5, NothingWritten
<1>11. ASSUME NEW t \in Tabs, ReadProfile(t) PROVE Goal
  <2>1. \E pc \in {"verify", "waiting", "error"} : Goto(t, pc) /\ tabs[t].pc = "profile"
    BY <1>11 DEF ReadProfile
  <2>2. UNCHANGED <<cache, inDoubt>>
    BY <1>11 DEF ReadProfile
  <2>3. QED
    BY <1>5, <2>1, <2>2 DEF Busy, Reliant
<1>12. ASSUME NEW t \in Tabs, Verify(t) PROVE Goal
  <2>1. \E pc \in {"filesystem", "error"} : Goto(t, pc) /\ tabs[t].pc = "verify"
    BY <1>12 DEF Verify
  <2>2. UNCHANGED <<cache, inDoubt>>
    BY <1>12 DEF Verify
  <2>3. QED
    BY <1>5, <2>1, <2>2 DEF Busy, Reliant
<1>13. ASSUME NEW t \in Tabs, Finish(t) PROVE Goal
  <2>1. /\ tabs[t].pc = "filesystem" /\ Goto(t, "desktop") /\ tabs[t].account \in Users
        /\ \/ cache' = [cache EXCEPT ![tabs[t].account] = tabs[t].service]
           \/ cache' = cache
        /\ inDoubt' = IF cache' = cache THEN inDoubt ELSE inDoubt \cup Relying(t)
    BY <1>1, <1>13 DEF Finish, Remember, ProvTypeOK, Tab
  <2>2. /\ cache \in [Users -> Deployed \cup {None}]
        /\ t \in inDoubt \/ cache[tabs[t].account] \in {None, tabs[t].service}
    BY <1>1, <2>1 DEF Stands, ProvTypeOK, Reliant, Busy
  <2>3. \A a \in Users : a # tabs[t].account => cache'[a] = cache[a]
    BY <2>1, <2>2
  <2>4. Spares(t)
    <3>1. CASE cache' = cache
      BY <2>1, <3>1 DEF Spares
    <3>2. CASE cache' # cache
      <4>1. ASSUME NEW u \in Tabs \ {t}, tabs[u].pc \in Reliant
            PROVE  u \in inDoubt' \/ cache'[tabs[u].account] = cache[tabs[u].account]
        <5>1. CASE tabs[u].account = tabs[t].account
          BY <2>1, <3>2, <4>1, <5>1 DEF Relying, Reliant
        <5>2. CASE tabs[u].account # tabs[t].account
          <6>1. tabs[u].account \in Users
            BY <1>1, <4>1 DEF ProvTypeOK, Tab, Reliant, Busy
          <6>2. QED
            BY <2>3, <5>2, <6>1
        <5>3. QED
          BY <5>1, <5>2
      <4>2. QED
        BY <2>1, <3>2, <4>1 DEF Spares
    <3>3. QED
      BY <3>1, <3>2
  <2>5. Kept
    <3>1. ASSUME NEW a \in Users, cache[a] # None, cache'[a] # cache[a]
          PROVE  t \in inDoubt' /\ tabs[t].account = a /\ tabs'[t] # tabs[t]
      <4>1. a = tabs[t].account
        BY <2>3, <3>1
      <4>2. t \in inDoubt
        BY <2>1, <2>2, <3>1, <4>1
      <4>3. tabs'[t].pc = "desktop"
        BY <1>1, <2>1 DEF Goto, ProvTypeOK, Tab
      <4>4. QED
        BY <2>1, <4>1, <4>2, <4>3
    <3>2. QED
      BY <3>1 DEF Kept
  <2>6. QED
    BY <1>4, <2>1, <2>4, <2>5 DEF Reliant, Busy
<1>14. ASSUME NEW t \in Tabs, ListServices(t) PROVE Goal
  <2> DEFINE s == cache[tabs[t].account]
  <2>1. tabs[t].account \in Users /\ s \in Services \cup {None}
    BY <1>1, <1>14, DeployedAreServices DEF ListServices, ProvTypeOK, Tab
  <2>2. s # None => owners[s] = tabs[t].account /\ owners'[s] = tabs[t].account
    <3>1. s # None => owners[s] = tabs[t].account
      BY <1>1, <2>1 DEF MineOnly
    <3>2. QED
      BY <1>14, <3>1 DEF ListServices
  <2>3. PICK new \in Tab : /\ new = [tabs[t] EXCEPT !.listing = s]
                           /\ new.pc = "desktop" /\ new.account = tabs[t].account /\ new.listing = s
    <3>1. PICK new : new = [tabs[t] EXCEPT !.listing = s]
      OBVIOUS
    <3> HIDE DEF s
    <3>2. new \in Tab /\ new.pc = tabs[t].pc /\ new.account = tabs[t].account /\ new.listing = s
      BY <1>1, <2>1, <3>1 DEF Tab
    <3>3. QED
      BY <1>14, <3>1, <3>2 DEF ListServices
  <2>4. tabs' = [tabs EXCEPT ![t] = new] /\ UNCHANGED cache /\ inDoubt' = inDoubt \ {t}
    BY <1>14, <2>3 DEF ListServices
  <2>5. Stands(t, new)'
    BY <2>2, <2>3 DEF Stands, Reliant, Busy
  <2>6. QED
    BY <1>2, <2>4, <2>5, NothingWritten
<1>15. ASSUME NEW t \in Tabs, Listed(t) PROVE Goal
  <2>1. /\ tabs[t].pc = "desktop" /\ tabs[t].listing # None
        /\ owners[tabs[t].listing] = tabs[t].account /\ tabs[t].account \in Users
        /\ tabs' = [tabs EXCEPT ![t].listing = None]
    BY <1>1, <1>15 DEF Stands, Listed, ProvTypeOK, Tab
  <2>2. \/ UNCHANGED <<cache, inDoubt>>
        \/ /\ cache' \in {cache, [cache EXCEPT ![tabs[t].account] = None]}
           /\ inDoubt' = inDoubt \cup {t}
    BY <1>15, <2>1 DEF Listed, Forget
  <2>3. PICK new \in Tab : /\ new = [tabs[t] EXCEPT !.listing = None]
                           /\ new.pc = "desktop" /\ new.listing = None
    <3>1. PICK new : new = [tabs[t] EXCEPT !.listing = None]
      OBVIOUS
    <3>2. new \in Tab /\ new.pc = tabs[t].pc /\ new.listing = None
      BY <1>1, <3>1 DEF Tab
    <3>3. QED
      BY <2>1, <3>1, <3>2
  <2>4. tabs' = [tabs EXCEPT ![t] = new]
    BY <2>1, <2>3
  <2>5. Stands(t, new)'
    BY <2>3 DEF Stands, Reliant, Busy
  <2>6. cache \in [Users -> Deployed \cup {None}] /\ tabs'[t] # tabs[t]
    BY <1>1, <2>1, <2>3, <2>4 DEF ProvTypeOK
  <2>7. Spares(t)
    BY <1>1, <2>1, <2>2, <2>6 DEF Spares, ProvTypeOK, Tab, Reliant, Busy
  <2>8. Kept
    BY <2>1, <2>2, <2>6 DEF Kept
  <2>9. QED
    BY <1>2, <2>4, <2>5, <2>7, <2>8
<1>16. ASSUME NEW item \in inbox, Applied(item) \/ Aborted(item) \/ Dropped(item) PROVE Goal
  <2>1. PICK pc \in {"verify", "error"} : Settle(item, pc)
    BY <1>16 DEF Applied, Aborted, Dropped
  <2>2. /\ \A t \in Tabs : \/ tabs'[t] = tabs[t]
                           \/ /\ tabs[t].pc = "waiting"
                              /\ tabs'[t] = [tabs[t] EXCEPT !.pc = pc]
        /\ UNCHANGED <<cache, inDoubt>>
    BY <1>1, <2>1, SettleTyped DEF Settle
  <2>3. ASSUME NEW t \in Tabs PROVE Stands(t, tabs[t])'
    <3>1. CASE tabs'[t] = tabs[t]
      BY <1>1, <2>2, <3>1, OtherStands
    <3>2. CASE tabs[t].pc = "waiting" /\ tabs'[t] = [tabs[t] EXCEPT !.pc = pc]
      <4>1. /\ tabs'[t].pc = pc /\ tabs'[t].service = tabs[t].service
            /\ tabs'[t].account = tabs[t].account /\ tabs'[t].listing = tabs[t].listing
        BY <1>1, <3>2 DEF Tab
      <4>2. QED
        BY <1>1, <2>2, <3>2, <4>1 DEF Stands, Reliant, Busy
    <3>3. QED
      BY <2>2, <3>1, <3>2
  <2>4. QED
    BY <2>2, <2>3 DEF Kept
<1>17. ASSUME tabs' = tabs, UNCHANGED <<cache, inDoubt>> PROVE Goal
  <2>1. \A t \in Tabs : Stands(t, tabs[t])'
    BY <1>1, <1>17, OtherStands
  <2>2. QED
    BY <1>17, <2>1 DEF Kept
<1>18. ASSUME NEW s \in Deployed, NEW a \in Foreign, ForeignInitialize(s, a) PROVE Goal
  BY <1>17, <1>18 DEF ForeignInitialize
<1>19. CASE UNCHANGED provVars
  BY <1>17, <1>19 DEF provVars
<1>20. QED
  BY <1>3, <1>6, <1>7, <1>8, <1>9, <1>10, <1>11, <1>12, <1>13, <1>14, <1>15, <1>16, <1>18, <1>19
  DEF ProvNext, ProvisionStep

LEMMA DoubtInvHolds == ProvSpec => []DoubtInv
<1>1. ProvInit => \A t \in Tabs : Stands(t, tabs[t])
  <2>1. Closed.pc = "login" /\ Closed.listing = None
    BY DEF Closed
  <2>2. ASSUME ProvInit, NEW t \in Tabs PROVE Stands(t, tabs[t])
    BY <2>1, <2>2 DEF ProvInit, Stands, Reliant, Busy
  <2>3. QED
    BY <2>2
<1>2. ProvTypeOK /\ MineOnly /\ (\A t \in Tabs : Stands(t, tabs[t])) /\ [ProvNext]_provVars
        => (\A t \in Tabs : Stands(t, tabs[t]))'
  BY DoubtStep DEF DoubtInv
<1>3. ProvTypeOK /\ MineOnly /\ (\A t \in Tabs : Stands(t, tabs[t])) <=> DoubtInv
  BY DEF DoubtInv
<1>4. QED
  BY <1>1, <1>2, <1>3, ProvTypeCorrect, MineOnlyHolds, PTL DEF ProvSpec

\* However many tabs provision at once and whatever fails, a service is
\* deployed for an account whose Computer this browser remembers only by a tab
\* whose verify of it failed, or that another tab of the account has overtaken.
THEOREM SecondIsInDoubt == ProvSpec => []SecondOnlyInDoubt
<1>1. DoubtInv => SecondOnlyInDoubt
  <2> SUFFICES ASSUME DoubtInv, NEW t \in Tabs, tabs[t].pc = "create", cache[tabs[t].account] # None
               PROVE  t \in inDoubt
    BY DEF SecondOnlyInDoubt
  <2>1. QED
    BY DEF DoubtInv, Stands, Reliant, Busy
<1>2. QED
  BY <1>1, DoubtInvHolds, PTL

\* And only such a tab, or one whose verify failed in My Computer, has the
\* browser forget the Computer it remembers or remember another.
THEOREM ComputerIsKept == ProvSpec => KeptUnlessInDoubt
<1>1. DoubtInv /\ [ProvNext]_provVars =>
        [\A a \in Users : cache[a] # None /\ cache'[a] # cache[a] =>
           \E t \in inDoubt' : tabs[t].account = a /\ tabs'[t] # tabs[t]]_cache
  BY DoubtStep DEF Kept
<1>2. QED
  BY <1>1, DoubtInvHolds, PTL DEF ProvSpec, KeptUnlessInDoubt

=============================================================================
